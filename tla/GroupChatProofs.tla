-------------------------- MODULE GroupChatProofs --------------------------
(***************************************************************************)
(* Theorems about GroupChat, for any sessions, agents, topics, messages    *)
(* and bound on the clock.                                                 *)
(***************************************************************************)
EXTENDS GroupChat, DataFacts

-----------------------------------------------------------------------------
(* The inductive invariant                                                 *)

\* A message not posted yet is nowhere.
NewIsNowhere ==
    \A m \in Messages : route[m].pc = "new" =>
        /\ \A s \in Sessions : m \notin Range(history[s])
        /\ \A a \in Agents : m \notin Range(inbox[a])

\* A message posted over HTTP is in the history of its session; its handler
\* has turned to the targets that are neither in todo nor the one it awaits.
RoutesInOrder ==
    \A m \in Messages :
        LET r == route[m]
        IN  /\ r.todo \subseteq r.targets
            /\ Routed(m) => r.session \in Sessions /\ m \in Range(history[r.session])
            /\ r.pc = "routing" => r.to \in r.targets /\ r.to \notin r.todo

\* An agent has only messages whose handler has turned to it before.
ReachedInTurn ==
    \A m \in Messages, a \in Agents : m \in Range(inbox[a]) =>
        /\ route[m].session \in Sessions /\ m \in Range(history[route[m].session])
        /\ a \in route[m].targets /\ a \notin route[m].todo
        /\ route[m].pc = "routing" => a # route[m].to

InboxesInjective == \A a \in Agents : IsInjective(inbox[a])

\* Nobody has fetched in the future.
FetchedBefore == \A s \in Sessions : reader[s].since <= now

\* What the history of a session had before the last fetch was got.
HistoryIsFetched ==
    \A s \in Sessions : \A m \in Range(history[s]) :
        route[m].at < reader[s].since => m \in reader[s].got

GroupInv ==
    /\ TypeOK /\ NewIsNowhere /\ RoutesInOrder /\ ReachedInTurn /\ InboxesInjective
    /\ FetchedBefore /\ HistoryIsFetched

\* Before any post nobody has anything.
LEMMA GroupInit == Init => GroupInv
<1>. SUFFICES ASSUME Init PROVE GroupInv
  OBVIOUS
<1>1. NotPosted \in RouteStates
  BY MaxTimeAssumption DEF NotPosted, RouteStates
<1>2. TypeOK
  BY <1>1, MaxTimeAssumption DEF Init, TypeOK
<1>. QED  BY <1>2, EmptyQueue
          DEF Init, GroupInv, NewIsNowhere, RoutesInOrder, Routed, ReachedInTurn, InboxesInjective,
              FetchedBefore, HistoryIsFetched, NotPosted

-----------------------------------------------------------------------------
(* Routing                                                                 *)

\* The handler of m has gone on from r to q.
Follows(q, r) ==
    /\ q \in RouteStates /\ q.pc \in {"routing", "done"}
    /\ q.session = r.session /\ q.targets = r.targets /\ q.at = r.at
    /\ q.todo \subseteq r.todo
    /\ q.pc = "routing" => q.to \in r.todo \ q.todo

\* To proceed is to go on to a target not turned to yet, or to be done.
LEMMA ProceedFollows ==
    ASSUME NEW m \in Messages, NEW r \in RouteStates, Proceed(m, r)
    PROVE  \E q \in RouteStates : route' = [route EXCEPT ![m] = q] /\ Follows(q, r)
<1>1. CASE route' = [route EXCEPT ![m] = [r EXCEPT !.pc = "done", !.todo = {}, !.to = Nobody]]
  <2> DEFINE q == [r EXCEPT !.pc = "done", !.todo = {}, !.to = Nobody]
  <2>1. q \in RouteStates /\ Follows(q, r)
    BY DEF RouteStates, Follows
  <2>2. route' = [route EXCEPT ![m] = q]
    BY <1>1
  <2>. HIDE DEF q
  <2>. QED  BY <2>1, <2>2
<1>2. ASSUME NEW a \in r.todo \intersect registered, NEW skipped \in SUBSET (r.todo \ registered),
             route' = [route EXCEPT ![m] =
                [r EXCEPT !.pc = "routing", !.todo = @ \ ({a} \union skipped), !.to = a]]
      PROVE  \E q \in RouteStates : route' = [route EXCEPT ![m] = q] /\ Follows(q, r)
  <2> DEFINE q == [r EXCEPT !.pc = "routing", !.todo = @ \ ({a} \union skipped), !.to = a]
  <2>1. q \in RouteStates /\ Follows(q, r)
    BY DEF RouteStates, Follows
  <2>2. route' = [route EXCEPT ![m] = q]
    BY <1>2
  <2>. HIDE DEF q
  <2>. QED  BY <2>1, <2>2
<1>. QED  BY <1>1, <1>2 DEF Proceed

\* A post gives the message its place in one history and its first target.
LEMMA PostInv ==
    ASSUME GroupInv, NEW m \in Messages, NEW s \in Sessions, NEW mentions \in SUBSET Agents,
           NEW t \in Topics \union {Nobody}, Post(m, s, mentions, t)
    PROVE  GroupInv'
<1> DEFINE r == [NotPosted EXCEPT !.session = s, !.targets = mentions, !.todo = mentions,
                                  !.at = now]
<1>1. r \in RouteStates /\ r.session = s /\ r.targets = mentions /\ r.todo = mentions /\ r.at = now
  BY DEF GroupInv, TypeOK, NotPosted, RouteStates
<1>2. /\ route[m].pc = "new" /\ Proceed(m, r)
      /\ history' = [history EXCEPT ![s] = Append(@, m)]
      /\ log' = [log EXCEPT ![s] = Append(@, m)]
      /\ UNCHANGED <<live, registered, topicOf, inbox, now, reader>>
  BY DEF Post, clock
<1>. HIDE DEF r
<1>3. PICK q \in RouteStates : route' = [route EXCEPT ![m] = q] /\ Follows(q, r)
  BY <1>1, <1>2, ProceedFollows
<1>4. /\ route'[m] = q /\ q.pc # "new" /\ q.session = s /\ q.at = now
      /\ q.todo \subseteq mentions /\ q.targets = mentions
      /\ q.pc = "routing" => q.to \in mentions \ q.todo
      /\ \A k \in Messages \ {m} : route'[k] = route[k]
  BY <1>1, <1>3 DEF Follows, GroupInv, TypeOK
<1>5. /\ Range(history'[s]) = Range(history[s]) \union {m}
      /\ \A u \in Sessions \ {s} : history'[u] = history[u]
      /\ history' \in [Sessions -> Seq(Messages)]
  BY <1>2, RangeAppend DEF GroupInv, TypeOK
<1>6. TypeOK'
  <2>1. thread' \in [Topics -> Seq(Messages)]
    BY DEF Post, GroupInv, TypeOK
  <2>. QED  BY <1>2, <1>3, <1>5, <2>1 DEF GroupInv, TypeOK
<1>7. \A a \in Agents : m \notin Range(inbox[a])
  BY <1>2 DEF GroupInv, NewIsNowhere
<1>8. \A u \in Sessions : m \notin Range(history[u])
  BY <1>2 DEF GroupInv, NewIsNowhere
<1>9. NewIsNowhere'
  BY <1>2, <1>4, <1>5 DEF GroupInv, NewIsNowhere
<1>10. RoutesInOrder'
  <2>. SUFFICES ASSUME NEW k \in Messages
                PROVE  /\ route'[k].todo \subseteq route'[k].targets
                       /\ Routed(k)' => /\ route'[k].session \in Sessions
                                        /\ k \in Range(history'[route'[k].session])
                       /\ route'[k].pc = "routing" => /\ route'[k].to \in route'[k].targets
                                                      /\ route'[k].to \notin route'[k].todo
    BY DEF RoutesInOrder
  <2>1. CASE k = m
    BY <1>4, <1>5, <2>1
  <2>2. CASE k # m
    BY <1>4, <1>5, <2>2 DEF GroupInv, RoutesInOrder, Routed
  <2>. QED  BY <2>1, <2>2
<1>11. ReachedInTurn'
  BY <1>2, <1>4, <1>5, <1>7 DEF GroupInv, ReachedInTurn
<1>12. HistoryIsFetched'
  <2>1. \A u \in Sessions : ~(now < reader[u].since)
    BY MaxTimeAssumption DEF GroupInv, FetchedBefore, TypeOK
  <2>2. \A u \in Sessions : Range(history[u]) \subseteq Messages
    BY DEF GroupInv, TypeOK, Range
  <2>3. ASSUME NEW u \in Sessions, NEW k \in Range(history'[u]), route'[k].at < reader[u].since
        PROVE  k \in reader[u].got
    <3>1. k # m
      BY <1>4, <2>1, <2>3
    <3>2. k \in Range(history[u]) /\ k \in Messages
      BY <1>5, <2>2, <3>1
    <3>. QED  BY <1>4, <2>3, <3>1, <3>2 DEF GroupInv, HistoryIsFetched
  <2>. QED  BY <1>2, <2>3 DEF HistoryIsFetched
<1>. QED  BY <1>2, <1>6, <1>9, <1>10, <1>11, <1>12
          DEF GroupInv, InboxesInjective, FetchedBefore

\* A message from the WebSocket is in no history and under way to nobody.
LEMMA PostViaSocketInv ==
    ASSUME GroupInv, NEW m \in Messages, NEW s \in Sessions, PostViaSocket(m, s)
    PROVE  GroupInv'
<1> DEFINE q == [NotPosted EXCEPT !.pc = "stored", !.session = s, !.at = now]
<1>1. q \in RouteStates /\ q.pc = "stored" /\ q.todo = {}
  BY DEF GroupInv, TypeOK, NotPosted, RouteStates
<1>2. /\ route[m].pc = "new" /\ route' = [route EXCEPT ![m] = q]
      /\ log' = [log EXCEPT ![s] = Append(@, m)]
      /\ UNCHANGED <<live, registered, topicOf, history, thread, inbox, now, reader>>
  BY DEF PostViaSocket, clock
<1>. HIDE DEF q
<1>3. route'[m] = q /\ \A k \in Messages \ {m} : route'[k] = route[k]
  BY <1>2 DEF GroupInv, TypeOK
<1>4. TypeOK'
  BY <1>1, <1>2 DEF GroupInv, TypeOK
<1>5. /\ \A a \in Agents : m \notin Range(inbox[a])
      /\ \A u \in Sessions : m \notin Range(history[u])
  BY <1>2 DEF GroupInv, NewIsNowhere
<1>6. NewIsNowhere' /\ RoutesInOrder' /\ ReachedInTurn'
  BY <1>1, <1>2, <1>3, <1>5 DEF GroupInv, NewIsNowhere, RoutesInOrder, Routed, ReachedInTurn, Routed
<1>7. HistoryIsFetched'
  <2>1. \A u \in Sessions : Range(history[u]) \subseteq Messages \ {m}
    BY <1>5 DEF GroupInv, TypeOK, Range
  <2>2. ASSUME NEW u \in Sessions, NEW k \in Range(history[u]) PROVE route'[k] = route[k]
    BY <1>3, <2>1
  <2>. QED  BY <1>2, <2>2 DEF GroupInv, HistoryIsFetched
<1>. QED  BY <1>2, <1>4, <1>6, <1>7 DEF GroupInv, InboxesInjective, FetchedBefore

\* The end of a POST may put the message before the agent awaited, who has not
\* had it; the handler then turns to another one.
LEMMA PushInv ==
    ASSUME GroupInv, NEW m \in Messages, NEW reached \in BOOLEAN, Push(m, reached)
    PROVE  GroupInv'
<1> DEFINE r == route[m]
           a == r.to
<1>1. /\ r.pc = "routing" /\ Proceed(m, r)
      /\ inbox' = IF reached THEN [inbox EXCEPT ![a] = Append(@, m)] ELSE inbox
      /\ UNCHANGED <<live, registered, topicOf, log, history, thread, now, reader>>
  BY DEF Push, clock
<1>2. /\ r \in RouteStates /\ r.session \in Sessions /\ m \in Range(history[r.session])
      /\ a \in r.targets /\ a \notin r.todo /\ r.todo \subseteq r.targets /\ a \in Agents
  BY <1>1 DEF GroupInv, TypeOK, RoutesInOrder, RouteStates, Routed
<1>3. PICK q \in RouteStates : route' = [route EXCEPT ![m] = q] /\ Follows(q, r)
  BY <1>1, <1>2, ProceedFollows
<1>4. /\ route'[m] = q /\ q.pc # "new" /\ q.session = r.session /\ q.at = r.at
      /\ q.todo \subseteq r.todo /\ q.targets = r.targets
      /\ q.pc = "routing" => q.to \in r.todo \ q.todo
      /\ \A k \in Messages \ {m} : route'[k] = route[k]
  BY <1>3 DEF Follows, GroupInv, TypeOK
<1>5. m \notin Range(inbox[a])
  BY <1>1, <1>2 DEF GroupInv, ReachedInTurn
<1>6. /\ inbox' \in [Agents -> Seq(Messages)] /\ IsInjective(inbox'[a])
      /\ Range(inbox'[a]) \subseteq Range(inbox[a]) \union {m}
      /\ \A b \in Agents \ {a} : inbox'[b] = inbox[b]
  <2>1. inbox[a] \in Seq(Messages) /\ IsInjective(inbox[a])
    BY <1>2 DEF GroupInv, TypeOK, InboxesInjective
  <2>2. /\ IsInjective(Append(inbox[a], m))
        /\ Range(Append(inbox[a], m)) = Range(inbox[a]) \union {m}
    BY <1>5, <2>1, RangeAppend, InjectiveAppend
  <2>. QED  BY <1>1, <1>2, <2>1, <2>2 DEF GroupInv, TypeOK
<1>. HIDE DEF a, r
<1>7. TypeOK'
  BY <1>1, <1>3, <1>6 DEF GroupInv, TypeOK
<1>8. NewIsNowhere'
  BY <1>1, <1>2, <1>4, <1>6 DEF GroupInv, NewIsNowhere
<1>9. RoutesInOrder'
  BY <1>1, <1>2, <1>4 DEF GroupInv, RoutesInOrder, Routed
<1>10. ReachedInTurn'
  <2>. SUFFICES ASSUME NEW k \in Messages, NEW b \in Agents, k \in Range(inbox'[b])
                PROVE  /\ route'[k].session \in Sessions
                       /\ k \in Range(history'[route'[k].session])
                       /\ b \in route'[k].targets /\ b \notin route'[k].todo
                       /\ route'[k].pc = "routing" => b # route'[k].to
    BY DEF ReachedInTurn
  <2>1. CASE k = m /\ b = a
    BY <1>1, <1>2, <1>4, <2>1
  <2>2. CASE ~(k = m /\ b = a)
    <3>1. k \in Range(inbox[b])
      BY <1>6, <2>2
    <3>2. CASE k = m
      BY <1>1, <1>2, <1>4, <3>1, <3>2 DEF GroupInv, ReachedInTurn, r
    <3>3. CASE k # m
      BY <1>1, <1>4, <3>1, <3>3 DEF GroupInv, ReachedInTurn
    <3>. QED  BY <3>2, <3>3
  <2>. QED  BY <2>1, <2>2
<1>11. InboxesInjective'
  BY <1>6 DEF GroupInv, InboxesInjective
<1>12. HistoryIsFetched'
  <2>1. \A k \in Messages : route'[k].at = route[k].at
    BY <1>4 DEF r
  <2>2. \A s \in Sessions : Range(history[s]) \subseteq Messages
    BY DEF GroupInv, TypeOK, Range
  <2>. QED  BY <1>1, <2>1, <2>2 DEF GroupInv, HistoryIsFetched
<1>. QED  BY <1>1, <1>7, <1>8, <1>9, <1>10, <1>11, <1>12 DEF GroupInv, FetchedBefore

-----------------------------------------------------------------------------
(* Everything else                                                         *)

\* Registrations, topics and deletions leave messages alone.
LEMMA WorldInv ==
    ASSUME GroupInv, UNCHANGED <<log, history, thread, route, inbox, clock>>,
           live' \subseteq Sessions, registered' \subseteq Agents,
           topicOf' \in [Topics -> Sessions \union {Nobody}]
    PROVE  GroupInv'
<1>. QED  BY DEF GroupInv, TypeOK, NewIsNowhere, RoutesInOrder, Routed, ReachedInTurn,
                 InboxesInjective, FetchedBefore, HistoryIsFetched, clock

\* Time passes only for later fetches.
LEMMA TickInv == GroupInv /\ Tick => GroupInv'
<1>. SUFFICES ASSUME GroupInv, Tick PROVE GroupInv'
  OBVIOUS
<1>1. /\ now \in Nat /\ now' = now + 1 /\ now' \in 0 .. MaxTime
      /\ UNCHANGED <<live, registered, topicOf, log, history, thread, route, inbox, reader>>
  BY MaxTimeAssumption DEF GroupInv, TypeOK, Tick
<1>2. FetchedBefore'
  BY <1>1 DEF GroupInv, TypeOK, FetchedBefore
<1>. QED  BY <1>1, <1>2 DEF GroupInv, TypeOK, NewIsNowhere, RoutesInOrder, Routed, ReachedInTurn,
                            InboxesInjective, HistoryIsFetched

\* What came before the last fetch was got then; what came since is got now.
LEMMA FetchInv == ASSUME GroupInv, NEW s \in Sessions, Fetch(s) PROVE GroupInv'
<1> DEFINE f == [since |-> now, got |-> reader[s].got \union Since(s, reader[s].since)]
<1>1. /\ reader' = [reader EXCEPT ![s] = f]
      /\ UNCHANGED <<live, registered, topicOf, log, history, thread, route, inbox, now>>
  BY DEF Fetch
<1>2. Range(history[s]) \subseteq Messages
  BY DEF GroupInv, TypeOK, Range
<1>3. f \in [since : 0 .. MaxTime, got : SUBSET Messages]
  BY <1>2 DEF GroupInv, TypeOK, Since
<1>4. TypeOK'
  <2>. HIDE DEF f
  <2>. QED  BY <1>1, <1>3 DEF GroupInv, TypeOK
<1>5. reader'[s] = f /\ \A u \in Sessions \ {s} : reader'[u] = reader[u]
  BY <1>1 DEF GroupInv, TypeOK
<1>6. FetchedBefore'
  BY <1>1, <1>5 DEF GroupInv, TypeOK, FetchedBefore
<1>7. ASSUME NEW m \in Range(history[s]) PROVE m \in f.got
  <2>1. route[m].at \in Nat /\ reader[s].since \in Nat
    BY <1>2, MaxTimeAssumption DEF GroupInv, TypeOK, RouteStates
  <2>. QED  BY <2>1 DEF GroupInv, HistoryIsFetched, Since
<1>8. HistoryIsFetched'
  <2>. HIDE DEF f
  <2>. QED  BY <1>1, <1>5, <1>7 DEF GroupInv, HistoryIsFetched
<1>. QED  BY <1>1, <1>4, <1>6, <1>8 DEF GroupInv, NewIsNowhere, RoutesInOrder, Routed, ReachedInTurn,
                                        InboxesInjective

\* Every step preserves the invariant.
LEMMA GroupNext == GroupInv /\ [Next]_vars => GroupInv'
<1>. SUFFICES ASSUME GroupInv, [Next]_vars PROVE GroupInv'
  OBVIOUS
<1>1. ASSUME NEW a \in Agents, RegisterAgent(a) \/ DisconnectAgent(a) PROVE GroupInv'
  BY <1>1, WorldInv DEF RegisterAgent, DisconnectAgent, GroupInv, TypeOK
<1>2. ASSUME NEW s \in Sessions, NEW t \in Topics, CreateTopic(s, t) PROVE GroupInv'
  BY <1>2, WorldInv DEF CreateTopic, GroupInv, TypeOK
<1>3. ASSUME NEW s \in Sessions, Delete(s) PROVE GroupInv'
  BY <1>3, WorldInv DEF Delete, GroupInv, TypeOK
<1>4. CASE UNCHANGED vars
  BY <1>4, WorldInv DEF vars, clock, GroupInv, TypeOK
<1>. QED  BY TickInv, FetchInv, PostInv, PostViaSocketInv, PushInv, <1>1, <1>2, <1>3, <1>4 DEF Next

-----------------------------------------------------------------------------
(* The order of the history                                                *)

\* A list that grows keeps the order it has; what it had comes before what is new.
LEMMA BeforeAppend ==
    ASSUME NEW S, NEW q \in Seq(S), NEW e \in S
    PROVE  /\ \A m, k : Before(q, m, k) => Before(Append(q, e), m, k)
           /\ \A m \in Range(q) : Before(Append(q, e), m, e)
<1>1. /\ \A i \in 1 .. Len(q) : Append(q, e)[i] = q[i]
      /\ Append(q, e)[Len(q) + 1] = e
      /\ DOMAIN q = 1 .. Len(q) /\ DOMAIN Append(q, e) = 1 .. Len(q) + 1 /\ Len(q) \in Nat
  OBVIOUS
<1>2. \A i \in DOMAIN q : i \in DOMAIN Append(q, e) /\ i < Len(q) + 1
  BY <1>1
<1>3. Len(q) + 1 \in DOMAIN Append(q, e)
  BY <1>1
<1>. QED  BY <1>1, <1>2, <1>3 DEF Before, Range

\* What is retold stays retold when the original grows.
LEMMA RetellsOfLonger ==
    ASSUME NEW M, NEW q, NEW p \in Seq(M), NEW e \in M, NEW S, Retells(q, p, S)
    PROVE  Retells(q, Append(p, e), S)
<1>. QED  BY RangeAppend, BeforeAppend DEF Retells

\* A new message at the end of both, or one that is not to be retold.
LEMMA RetellsAppend ==
    ASSUME NEW M, NEW q \in Seq(M), NEW p \in Seq(M), NEW e \in M, NEW S, Retells(q, p, S)
    PROVE  /\ Retells(Append(q, e), Append(p, e), S)
           /\ e \notin S => Retells(Append(q, e), p, S)
<1>1. /\ \A i \in 1 .. Len(q) : Append(q, e)[i] = q[i]
      /\ Append(q, e)[Len(q) + 1] = e
      /\ DOMAIN q = 1 .. Len(q) /\ DOMAIN Append(q, e) = 1 .. Len(q) + 1 /\ Len(q) \in Nat
  OBVIOUS
<1>2. \A i \in DOMAIN Append(q, e) : i = Len(q) + 1 \/ (i \in DOMAIN q /\ i < Len(q) + 1)
  BY <1>1
<1>3. \A j \in DOMAIN Append(q, e) : ~(Len(q) + 1 < j)
  BY <1>1
<1>4. Retells(Append(q, e), Append(p, e), S)
  <2>1. Retells(q, Append(p, e), S)
    BY RetellsOfLonger
  <2>2. Range(Append(p, e)) = Range(p) \union {e}
    BY RangeAppend
  <2>3. \A m \in Range(p) : Before(Append(p, e), m, e)
    BY BeforeAppend
  <2>. SUFFICES ASSUME NEW i \in DOMAIN Append(q, e), Append(q, e)[i] \in S
                PROVE  /\ Append(q, e)[i] \in Range(Append(p, e))
                       /\ \A j \in DOMAIN Append(q, e) : i < j /\ Append(q, e)[j] \in S
                            => Before(Append(p, e), Append(q, e)[i], Append(q, e)[j])
    BY DEF Retells
  <2>4. CASE i = Len(q) + 1
    BY <1>1, <1>3, <2>2, <2>4
  <2>5. CASE i \in DOMAIN q
    <3>1. Append(q, e)[i] = q[i] /\ q[i] \in Range(p)
      BY <1>1, <2>5 DEF Retells
    <3>2. ASSUME NEW j \in DOMAIN Append(q, e), i < j, Append(q, e)[j] \in S
          PROVE  Before(Append(p, e), q[i], Append(q, e)[j])
      <4>1. CASE j = Len(q) + 1
        BY <1>1, <2>3, <3>1, <4>1
      <4>2. CASE j \in DOMAIN q
        BY <1>1, <2>1, <2>5, <3>1, <3>2, <4>2 DEF Retells
      <4>. QED  BY <1>2, <4>1, <4>2
    <3>. QED  BY <2>2, <3>1, <3>2
  <2>. QED  BY <1>2, <2>4, <2>5
<1>5. ASSUME e \notin S PROVE Retells(Append(q, e), p, S)
  <2>1. \A i \in DOMAIN Append(q, e) : Append(q, e)[i] \in S =>
            i \in DOMAIN q /\ Append(q, e)[i] = q[i]
    BY <1>1, <1>2, <1>5
  <2>. QED  BY <2>1 DEF Retells
<1>. QED  BY <1>4, <1>5

\* Only whether the members of the retelling are meant matters.
LEMMA RetellsAgree ==
    ASSUME NEW q, NEW p, NEW S, NEW T, \A m \in Range(q) : m \in T <=> m \in S, Retells(q, p, S)
    PROVE  Retells(q, p, T)
<1>. QED  BY DEF Retells, Range

\* A message not posted yet is in no session and in no topic.
NewIsUntold ==
    \A m \in Messages : route[m].pc = "new" =>
        /\ \A s \in Sessions : m \notin Range(log[s])
        /\ \A t \in Topics : m \notin Range(thread[t])

\* The order alone is not inductive: a message posted twice would break it.
HistoryInv == NewIsUntold /\ HistoryInOrder

\* Nothing is told at first.
LEMMA HistoryInit == Init => HistoryInv
<1>1. \A p, S : Retells(<<>>, p, S)
  BY DEF Retells
<1>. QED  BY <1>1, EmptyQueue DEF Init, HistoryInv, NewIsUntold, HistoryInOrder

\* Nothing moves in the lists, and no message changes its session.
LEMMA HistoryKept ==
    ASSUME HistoryInv, UNCHANGED <<log, history, thread>>,
           \A m \in Messages : /\ route'[m].session = route[m].session
                               /\ route'[m].pc = "new" => route[m].pc = "new"
    PROVE  HistoryInv'
<1>1. \A s \in Sessions :
        {m \in Messages : route'[m].session = s} = {m \in Messages : route[m].session = s}
  OBVIOUS
<1>2. NewIsUntold'
  BY DEF HistoryInv, NewIsUntold
<1>3. HistoryInOrder'
  BY <1>1 DEF HistoryInv, HistoryInOrder
<1>. QED  BY <1>2, <1>3 DEF HistoryInv

\* A new message is at the end of its session, and if the history has it at
\* the end of the history and perhaps of one topic.
LEMMA HistoryPost ==
    ASSUME GroupInv, HistoryInv, NEW m \in Messages, NEW s \in Sessions,
           route[m].pc = "new",
           log' = [log EXCEPT ![s] = Append(@, m)],
           route'[m].pc # "new", route'[m].session = s,
           \A k \in Messages \ {m} : route'[k] = route[k],
           \/ UNCHANGED <<history, thread>>
           \/ /\ history' = [history EXCEPT ![s] = Append(@, m)]
              /\ \/ thread' = thread
                 \/ \E t \in Topics : thread' = [thread EXCEPT ![t] = Append(@, m)]
    PROVE  HistoryInv'
<1>1. /\ log \in [Sessions -> Seq(Messages)] /\ history \in [Sessions -> Seq(Messages)]
      /\ thread \in [Topics -> Seq(Messages)]
  BY DEF GroupInv, TypeOK
<1>2. /\ \A u \in Sessions : m \notin Range(log[u])
      /\ \A t \in Topics : m \notin Range(thread[t])
  BY DEF HistoryInv, NewIsUntold
<1>3. /\ log'[s] = Append(log[s], m)
      /\ \A u \in Sessions \ {s} : log'[u] = log[u]
  BY <1>1
<1>4. \/ history'[s] = history[s]
      \/ history'[s] = Append(history[s], m)
  BY <1>1
<1>5. \A u \in Sessions \ {s} : history'[u] = history[u]
  BY <1>1
<1>6. \A t \in Topics :
        \/ thread'[t] = thread[t]
        \/ thread'[t] = Append(thread[t], m) /\ history'[s] = Append(history[s], m)
  BY <1>1
<1> DEFINE Of(u) == {k \in Messages : route[k].session = u}
           OfNext(u) == {k \in Messages : route'[k].session = u}
<1>7. \A u \in Sessions : \A k \in Messages \ {m} : k \in OfNext(u) <=> k \in Of(u)
  OBVIOUS
<1>8. m \in OfNext(s) /\ \A u \in Sessions \ {s} : m \notin OfNext(u)
  OBVIOUS
<1>9. \A t \in Topics : Range(thread[t]) \subseteq Messages \ {m}
  BY <1>1, <1>2 DEF Range
<1>. HIDE DEF Of, OfNext
<1>10. NewIsUntold'
  <2>1. \A u \in Sessions : Range(log'[u]) \subseteq Range(log[u]) \union {m}
    BY <1>1, <1>3, RangeAppend
  <2>2. \A t \in Topics : Range(thread'[t]) \subseteq Range(thread[t]) \union {m}
    <3>1. ASSUME NEW t \in Topics PROVE Range(Append(thread[t], m)) = Range(thread[t]) \union {m}
      BY <1>1, RangeAppend
    <3>. QED  BY <1>6, <3>1
  <2>. QED  BY <2>1, <2>2 DEF HistoryInv, NewIsUntold
<1>11. ASSUME NEW u \in Sessions PROVE IsInjective(log'[u])
  <2>1. IsInjective(log[u])
    BY DEF HistoryInv, HistoryInOrder
  <2>2. CASE u = s
    BY <1>1, <1>2, <1>3, <2>1, <2>2, InjectiveAppend
  <2>. QED  BY <1>3, <2>1, <2>2
<1>12. ASSUME NEW u \in Sessions PROVE Retells(history'[u], log'[u], Messages)
  <2>1. Retells(history[u], log[u], Messages)
    BY DEF HistoryInv, HistoryInOrder
  <2>2. CASE u = s
    <3>1. history[s] \in Seq(Messages) /\ log[s] \in Seq(Messages)
      BY <1>1
    <3>2. Retells(history[s], Append(log[s], m), Messages)
      BY <2>1, <2>2, <3>1, RetellsOfLonger
    <3>3. Retells(Append(history[s], m), Append(log[s], m), Messages)
      BY <2>1, <2>2, <3>1, RetellsAppend
    <3>. QED  BY <1>3, <1>4, <2>2, <3>2, <3>3
  <2>. QED  BY <1>3, <1>5, <2>1, <2>2
<1>13. ASSUME NEW u \in Sessions, NEW t \in Topics
       PROVE  Retells(thread'[t], history'[u], OfNext(u))
  <2>1. Retells(thread[t], history[u], OfNext(u))
    <3>1. Retells(thread[t], history[u], Of(u))
      BY DEF HistoryInv, HistoryInOrder, Of
    <3>. QED  BY <1>7, <1>9, <3>1, RetellsAgree
  <2>2. thread[t] \in Seq(Messages) /\ history[u] \in Seq(Messages)
    BY <1>1
  <2>3. CASE u = s
    <3>1. CASE thread'[t] = thread[t]
      <4>1. Retells(thread[t], Append(history[u], m), OfNext(u))
        BY <2>1, <2>2, RetellsOfLonger
      <4>. QED  BY <1>4, <2>1, <2>3, <3>1, <4>1
    <3>2. CASE thread'[t] = Append(thread[t], m) /\ history'[s] = Append(history[s], m)
      BY <2>1, <2>2, <2>3, <3>2, RetellsAppend
    <3>. QED  BY <1>6, <3>1, <3>2
  <2>4. CASE u # s
    <3>1. m \notin OfNext(u) /\ history'[u] = history[u]
      BY <1>5, <1>8, <2>4
    <3>2. Retells(Append(thread[t], m), history[u], OfNext(u))
      BY <2>1, <2>2, <3>1, RetellsAppend
    <3>. QED  BY <1>6, <2>1, <3>1, <3>2
  <2>. QED  BY <2>3, <2>4
<1>. QED  BY <1>10, <1>11, <1>12, <1>13 DEF HistoryInv, HistoryInOrder, OfNext

\* Every step keeps the order, given what GroupInv says of the routes.
LEMMA HistoryNext == GroupInv /\ HistoryInv /\ [Next]_vars => HistoryInv'
<1>. SUFFICES ASSUME GroupInv, HistoryInv, [Next]_vars PROVE HistoryInv'
  OBVIOUS
<1>1. ASSUME NEW m \in Messages, NEW s \in Sessions, NEW mentions \in SUBSET Agents,
             NEW t \in Topics \union {Nobody}, Post(m, s, mentions, t)
      PROVE  HistoryInv'
  <2> DEFINE r == [NotPosted EXCEPT !.session = s, !.targets = mentions, !.todo = mentions,
                                    !.at = now]
  <2>1. r \in RouteStates /\ r.session = s
    BY DEF GroupInv, TypeOK, NotPosted, RouteStates
  <2>2. /\ route[m].pc = "new" /\ Proceed(m, r)
        /\ history' = [history EXCEPT ![s] = Append(@, m)]
        /\ log' = [log EXCEPT ![s] = Append(@, m)]
        /\ thread' = IF t # Nobody /\ topicOf[t] # Nobody
                     THEN [thread EXCEPT ![t] = Append(@, m)] ELSE thread
    BY <1>1 DEF Post
  <2>. HIDE DEF r
  <2>3. PICK q \in RouteStates : route' = [route EXCEPT ![m] = q] /\ Follows(q, r)
    BY <2>1, <2>2, ProceedFollows
  <2>4. /\ route'[m].pc # "new" /\ route'[m].session = s
        /\ \A k \in Messages \ {m} : route'[k] = route[k]
    BY <2>1, <2>3 DEF Follows, GroupInv, TypeOK
  <2>5. \/ thread' = thread
        \/ \E u \in Topics : thread' = [thread EXCEPT ![u] = Append(@, m)]
    BY <2>2
  <2>. QED  BY <2>2, <2>4, <2>5, HistoryPost
<1>2. ASSUME NEW m \in Messages, NEW s \in Sessions, PostViaSocket(m, s) PROVE HistoryInv'
  <2>1. /\ route[m].pc = "new" /\ log' = [log EXCEPT ![s] = Append(@, m)]
        /\ UNCHANGED <<history, thread>>
        /\ route'[m].pc # "new" /\ route'[m].session = s
        /\ \A k \in Messages \ {m} : route'[k] = route[k]
    BY <1>2 DEF PostViaSocket, NotPosted, GroupInv, TypeOK
  <2>. QED  BY <2>1, HistoryPost
<1>3. ASSUME NEW m \in Messages, NEW reached \in BOOLEAN, Push(m, reached) PROVE HistoryInv'
  <2>1. /\ route[m] \in RouteStates /\ Proceed(m, route[m])
        /\ UNCHANGED <<log, history, thread>>
    BY <1>3 DEF Push, GroupInv, TypeOK
  <2>2. PICK q \in RouteStates : route' = [route EXCEPT ![m] = q] /\ Follows(q, route[m])
    BY <2>1, ProceedFollows
  <2>3. \A k \in Messages : /\ route'[k].session = route[k].session
                            /\ route'[k].pc = "new" => route[k].pc = "new"
    BY <2>2 DEF Follows, GroupInv, TypeOK
  <2>. QED  BY <2>1, <2>3, HistoryKept
<1>4. CASE UNCHANGED <<log, history, thread, route>>
  BY <1>4, HistoryKept
<1>5. ASSUME \/ Tick \/ UNCHANGED vars
             \/ \E s \in Sessions : Fetch(s) \/ Delete(s)
             \/ \E a \in Agents : RegisterAgent(a) \/ DisconnectAgent(a)
             \/ \E s \in Sessions, t \in Topics : CreateTopic(s, t)
      PROVE  UNCHANGED <<log, history, thread, route>>
  BY <1>5 DEF Tick, Fetch, Delete, RegisterAgent, DisconnectAgent, CreateTopic, vars
<1>. QED  BY <1>1, <1>2, <1>3, <1>4, <1>5 DEF Next

-----------------------------------------------------------------------------
(* The theorems                                                            *)

\* The invariant holds in every reachable state.
THEOREM GroupInvariant == Spec => []GroupInv
<1>. QED  BY GroupInit, GroupNext, PTL DEF Spec

\* Sessions, topics, histories, routes and clocks keep their types.
THEOREM GroupTypes == Spec => []TypeOK
<1>1. GroupInv => TypeOK
  BY DEF GroupInv
<1>. QED  BY <1>1, GroupInvariant, PTL

\* Whatever calls route messages together, an agent is pushed a message once,
\* if it is mentioned, and finds it in the history.
THEOREM PushesAreSound == Spec => []PushesAreBacked
<1>1. GroupInv => PushesAreBacked
  <2>. SUFFICES ASSUME GroupInv, NEW a \in Agents
                PROVE  /\ IsInjective(inbox[a])
                       /\ \A m \in Range(inbox[a]) :
                            a \in route[m].targets /\ m \in Range(history[route[m].session])
    BY DEF PushesAreBacked
  <2>1. Range(inbox[a]) \subseteq Messages
    BY DEF GroupInv, TypeOK, Range
  <2>. QED  BY <2>1 DEF GroupInv, InboxesInjective, ReachedInTurn
<1>. QED  BY <1>1, GroupInvariant, PTL

\* Who asks for what came since its last fetch gets every message that was
\* posted over HTTP before, whatever routes, deletions and fetches interleave.
THEOREM PollingIsComplete == Spec => []PollingGetsPosted
<1>1. GroupInv => PollingGetsPosted
  BY DEF GroupInv, RoutesInOrder, HistoryIsFetched, PollingGetsPosted
<1>. QED  BY <1>1, GroupInvariant, PTL

\* The history and the topics tell what was said in the order it was said.
THEOREM HistoryKeepsOrder == Spec => []HistoryInOrder
<1>1. HistoryInv => HistoryInOrder
  BY DEF HistoryInv
<1>. QED  BY <1>1, HistoryInit, HistoryNext, GroupInvariant, PTL DEF Spec
=============================================================================
