--------------------------- MODULE BroadcastProofs ---------------------------
(***************************************************************************)
(* Proofs about Broadcast, for any number of connections and broadcasts:   *)
(* what the shifting of the subscriber list under the iterators of the     *)
(* broadcasts can do to the events that clients get, and what it cannot.   *)
(***************************************************************************)
EXTENDS Broadcast, DataFacts

-----------------------------------------------------------------------------
(* The list of subscribers                                                 *)

\* What list.remove() leaves of the list.
LEMMA Leaving ==
    ASSUME TypeOK, NEW S
    PROVE  /\ Without(S) \in Seq(Sockets)
           /\ \E h : Keeps(h, Without(S), sockets, Len(sockets), S)
           /\ Range(Without(S)) = Range(sockets) \ S
           /\ IsInjective(sockets) => IsInjective(Without(S))
<1>1. sockets \in Seq(Sockets) /\ Len(sockets) \in Nat
  BY DEF TypeOK
<1> DEFINE f == CHOOSE g : IsFilter(g, sockets, S)
<1>2. Without(S) = f[Len(sockets)]
  BY DEF Without, IsFilter
<1>3. IsFilter(f, sockets, S)
  <2>1. \E g : IsFilter(g, sockets, S)
    BY <1>1, FilterExists
  <2>. QED  BY <2>1
<1>4. Without(S) \in Seq(Sockets) /\ \E h : Keeps(h, Without(S), sockets, Len(sockets), S)
  <2>. HIDE DEF f
  <2>. QED  BY <1>1, <1>2, <1>3, FilterKeeps
<1>. QED  BY <1>1, <1>4, KeepsRange

\* Finitely many are subscribed, so that departures can be counted.
LEMMA Departures ==
    ASSUME TypeOK, NEW S
    PROVE  /\ IsFiniteSet(Range(sockets)) /\ IsFiniteSet(S \intersect Range(sockets))
           /\ Cardinality(S \intersect Range(sockets)) \in Nat
<1> DEFINE I == 1 .. Len(sockets)
<1>1. sockets \in Surjection(I, Range(sockets)) /\ IsFiniteSet(I)
  <2>1. sockets \in Seq(Sockets) /\ DOMAIN sockets = I /\ Len(sockets) \in Int
    BY DEF TypeOK
  <2>2. sockets \in [I -> Range(sockets)] /\ \A x \in Range(sockets) : \E i \in I : sockets[i] = x
    BY <2>1 DEF Range
  <2>3. IsFiniteSet(I)
    <3>1. 1 \in Int
      OBVIOUS
    <3>. QED  BY <2>1, <3>1, FS_Interval
  <2>. HIDE DEF I
  <2>. QED  BY <2>2, <2>3 DEF Surjection
<1>. HIDE DEF I
<1>. QED  BY <1>1, FS_Surjection, FS_Intersection, FS_CardinalityType

-----------------------------------------------------------------------------
(* What the steps do to the broadcasts                                     *)

\* The broadcast goes on as before.
Same(c) ==
    /\ cast'[c].pc = cast[c].pc /\ cast'[c].owner = cast[c].owner
    /\ cast'[c].index = cast[c].index /\ cast'[c].to = cast[c].to
    /\ cast'[c].dead = cast[c].dead /\ cast'[c].audience = cast[c].audience

\* It counts those of S that leave the list.
Counts(c, S) ==
    /\ Same(c)
    /\ cast'[c].departed = IF Sending(c)
                           THEN cast[c].departed + Cardinality(S \intersect Range(sockets))
                           ELSE cast[c].departed

\* What a send that ended tells the broadcast of its receiver.
Learns(b) ==
    /\ Sending(b) /\ cast'[b].owner = cast[b].owner
    /\ cast'[b].audience = cast[b].audience /\ cast'[b].departed = cast[b].departed
    /\ \/ cast'[b].dead = cast[b].dead
       \/ /\ cast'[b].dead = Append(cast[b].dead, cast[b].to)
          /\ peer[cast[b].to] \in {"closed", "ended"}
    /\ sent' = [sent EXCEPT ![cast[b].to] = Append(@, b)]

Advances(b) ==
    /\ Learns(b)
    /\ cast[b].index < Len(sockets)
    /\ cast'[b].pc = "sending" /\ cast'[b].index = cast[b].index + 1
    /\ cast'[b].to = sockets[cast[b].index + 1]
    /\ \A c \in Casts \ {b} : cast'[c] = cast[c]
    /\ UNCHANGED <<sockets, peer>>

\* The broadcast ends; the members of gone leave, the handlers in ended end.
Ends(b) ==
    /\ Learns(b)
    /\ cast[b].index >= Len(sockets)
    /\ cast'[b].pc \in {"done", "raised"} /\ cast'[b].index = cast[b].index
    /\ cast'[b].to = cast[b].to
    /\ \E gone, ended \in SUBSET Sockets :
        /\ gone = Removable(cast'[b].dead) \union ended
        /\ sockets' = Without(gone)
        /\ peer' = [s \in Sockets |-> IF s \in ended THEN "ended" ELSE peer[s]]
        /\ \A c \in Casts \ {b} : Counts(c, gone)

Starts(b, owner) ==
    /\ cast[b].pc = "idle" /\ \A c \in 1 .. b - 1 : cast[c].pc # "idle"
    /\ cast'[b].pc = IF sockets = <<>> THEN "done" ELSE "sending"
    /\ cast'[b].owner = owner /\ cast'[b].index = 1
    /\ cast'[b].to = IF sockets = <<>> THEN Http ELSE Head(sockets)
    /\ cast'[b].dead = <<>> /\ cast'[b].audience = Range(sockets) /\ cast'[b].departed = 0
    /\ \A c \in Casts \ {b} : cast'[c] = cast[c]
    /\ UNCHANGED <<sockets, peer, sent>>

\* The counting of departures changes nothing else of a broadcast.
LEMMA DeparturesCounted ==
    ASSUME TypeOK, NEW S
    PROVE  /\ CountDepartures(S) \in [Casts -> CastStates]
           /\ \A c \in Casts :
                /\ \A f \in {"pc", "owner", "index", "to", "dead", "audience"} :
                        CountDepartures(S)[c][f] = cast[c][f]
                /\ CountDepartures(S)[c].departed =
                        IF Sending(c) THEN cast[c].departed + Cardinality(S \intersect Range(sockets))
                        ELSE cast[c].departed
<1> DEFINE k == Cardinality(S \intersect Range(sockets))
<1>1. k \in Nat
  BY Departures
<1>2. ASSUME NEW c \in Casts
      PROVE  /\ CountDepartures(S)[c] \in CastStates
             /\ \A f \in {"pc", "owner", "index", "to", "dead", "audience"} :
                        CountDepartures(S)[c][f] = cast[c][f]
             /\ CountDepartures(S)[c].departed =
                        IF Sending(c) THEN cast[c].departed + k ELSE cast[c].departed
  <2> DEFINE r == [cast[c] EXCEPT !.departed = @ + k]
  <2>1. CountDepartures(S)[c] = IF Sending(c) THEN r ELSE cast[c]
    BY DEF CountDepartures
  <2>2. cast[c] \in CastStates
    BY DEF TypeOK
  <2>. HIDE DEF k
  <2>3. r \in CastStates /\ r.departed = cast[c].departed + k
        /\ \A f \in {"pc", "owner", "index", "to", "dead", "audience"} : r[f] = cast[c][f]
    BY <1>1, <2>2 DEF CastStates
  <2>. HIDE DEF r
  <2>. QED  BY <2>1, <2>2, <2>3
<1>3. CountDepartures(S) = [c \in Casts |-> CountDepartures(S)[c]]
  BY DEF CountDepartures
<1>. QED  BY <1>2, <1>3

\* How a broadcast starts.
LEMMA StartEffect ==
    ASSUME TypeOK, NEW b \in Casts, NEW owner \in Owners, Start(b, owner)
    PROVE  TypeOK' /\ Starts(b, owner)
<1> DEFINE r == [NotStarted EXCEPT
            !.pc = IF sockets = <<>> THEN "done" ELSE "sending",
            !.owner = owner,
            !.index = 1,
            !.to = IF sockets = <<>> THEN Http ELSE Head(sockets),
            !.audience = Range(sockets)]
<1>1. cast' = [cast EXCEPT ![b] = r] /\ UNCHANGED <<sockets, peer, sent>>
  BY DEF Start
<1>2. /\ sockets \in Seq(Sockets) /\ cast \in [Casts -> CastStates]
      /\ owner \in Sockets \union {Http}
      /\ Range(sockets) \in SUBSET Sockets
      /\ sockets # <<>> => Head(sockets) \in Sockets
  BY DEF TypeOK, Owners, Range
<1>3. /\ r.pc = (IF sockets = <<>> THEN "done" ELSE "sending")
      /\ r.owner = owner /\ r.index = 1 /\ r.departed = 0 /\ r.dead = <<>>
      /\ r.to = (IF sockets = <<>> THEN Http ELSE Head(sockets)) /\ r.audience = Range(sockets)
      /\ r \in CastStates
  <2>1. <<>> \in Seq(Sockets)
    OBVIOUS
  <2>. QED  BY <1>2, <2>1 DEF NotStarted, CastStates
<1>. HIDE DEF r
<1>4. cast' \in [Casts -> CastStates] /\ cast'[b] = r /\ \A c \in Casts \ {b} : cast'[c] = cast[c]
  BY <1>1, <1>2, <1>3
<1>5. Starts(b, owner)
  BY <1>1, <1>3, <1>4 DEF Start, Starts
<1>6. \A c \in Casts : Sending(c)' => cast'[c].to \in Sockets
  BY <1>2, <1>3, <1>4 DEF TypeOK, Sending
<1>. QED  BY <1>1, <1>4, <1>5, <1>6 DEF TypeOK

\* A send that ends takes the broadcast one step further, or ends it.
LEMMA SendEffect ==
    ASSUME TypeOK, NEW b \in Casts, NEW raised \in BOOLEAN, Send(b, raised)
    PROVE  TypeOK' /\ (Advances(b) \/ Ends(b))
<1> DEFINE c == cast[b]
           d == IF raised THEN Append(c.dead, c.to) ELSE c.dead
           r == [c EXCEPT !.dead = IF raised THEN Append(@, c.to) ELSE @]
<1>1. /\ c \in CastStates /\ c.to \in Sockets /\ Sending(b) /\ c.pc = "sending"
      /\ c.dead \in Seq(Sockets) /\ c.index \in Nat
      /\ raised => peer[c.to] \in {"closed", "ended"}
      /\ sent' = [sent EXCEPT ![c.to] = Append(@, b)]
      /\ cast \in [Casts -> CastStates] /\ sockets \in Seq(Sockets)
  <2>1. c \in CastStates /\ c.to \in Sockets
    BY DEF TypeOK, Send
  <2>2. c.dead \in Seq(Sockets) /\ c.index \in Nat
    <3>. HIDE DEF c
    <3>. QED  BY <2>1 DEF CastStates
  <2>. QED  BY <2>1, <2>2 DEF TypeOK, Send, Sending
<1>2. d \in Seq(Sockets)
  <2>. HIDE DEF c
  <2>. QED  BY <1>1
<1>3. /\ r \in CastStates /\ r.dead = d
      /\ \A f \in {"pc", "owner", "index", "to", "audience", "departed"} : r[f] = c[f]
  <2>. HIDE DEF c
  <2>1. r = [c EXCEPT !.dead = d]
    OBVIOUS
  <2>. HIDE DEF d, r
  <2>. QED  BY <1>1, <1>2, <2>1 DEF CastStates
<1>4. sent' \in [Sockets -> Seq(Casts)]
  <2>1. sent[c.to] \in Seq(Casts) /\ Append(sent[c.to], b) \in Seq(Casts)
    BY <1>1 DEF TypeOK
  <2>. HIDE DEF c
  <2>. QED  BY <1>1, <2>1 DEF TypeOK
<1>5. ASSUME cast'[b].dead = d, cast'[b].owner = c.owner, cast'[b].audience = c.audience,
             cast'[b].departed = c.departed
      PROVE  Learns(b)
  BY <1>1, <1>5 DEF Learns
<1>6. CASE /\ c.index < Len(sockets)
           /\ cast' = [cast EXCEPT ![b] = [r EXCEPT !.index = @ + 1, !.to = sockets[c.index + 1]]]
           /\ UNCHANGED <<sockets, peer>>
  <2> DEFINE r2 == [r EXCEPT !.index = @ + 1, !.to = sockets[c.index + 1]]
  <2>1. sockets[c.index + 1] \in Sockets
    <3>. HIDE DEF c
    <3>. QED  BY <1>1, <1>6
  <2>2. /\ r2 \in CastStates /\ r2.dead = d /\ r2.index = c.index + 1 /\ r2.to = sockets[c.index + 1]
        /\ \A f \in {"pc", "owner", "audience", "departed"} : r2[f] = c[f]
    <3>1. r.index = c.index /\ r.index \in Nat
      BY <1>1, <1>3
    <3>. HIDE DEF r, c, d
    <3>2. /\ r2 \in CastStates /\ r2.dead = r.dead /\ r2.index = r.index + 1
          /\ r2.to = sockets[c.index + 1] /\ r2.pc = r.pc /\ r2.owner = r.owner
          /\ r2.audience = r.audience /\ r2.departed = r.departed
      <4> DEFINE x == sockets[c.index + 1]
                 n == r.index + 1
      <4>1. r \in CastStates /\ x \in Sockets /\ n \in Nat /\ r2 = [r EXCEPT !.index = n, !.to = x]
        BY <1>3, <2>1, <3>1
      <4>. HIDE DEF r2, x, n
      <4>2. /\ r2 \in CastStates /\ r2.dead = r.dead /\ r2.index = n
            /\ r2.to = x /\ r2.pc = r.pc /\ r2.owner = r.owner
            /\ r2.audience = r.audience /\ r2.departed = r.departed
        BY <4>1 DEF CastStates
      <4>. QED  BY <4>2 DEF x, n
    <3>. HIDE DEF r2
    <3>. QED  BY <1>3, <3>1, <3>2
  <2>. HIDE DEF r2
  <2>3. cast'[b] = r2 /\ cast' \in [Casts -> CastStates]
        /\ \A k \in Casts \ {b} : cast'[k] = cast[k]
    BY <1>1, <1>6, <2>2 DEF r2
  <2>4. Advances(b)
    BY <1>1, <1>5, <1>6, <2>2, <2>3 DEF Advances
  <2>5. TypeOK'
    BY <1>1, <1>4, <1>6, <2>1, <2>2, <2>3 DEF TypeOK, Sending
  <2>. QED  BY <2>4, <2>5
<1>7. CASE c.index >= Len(sockets) /\ Finish(b, r)
  <2> DEFINE ended == IF Raises(r.dead) THEN {r.owner} \ {Http} ELSE {}
             gone  == Removable(r.dead) \union ended
             r3 == [r EXCEPT !.pc = IF Raises(r.dead) THEN "raised" ELSE "done"]
  <2>1. /\ sockets' = Without(gone)
        /\ peer' = [s \in Sockets |-> IF s \in ended THEN "ended" ELSE peer[s]]
        /\ cast' = [CountDepartures(gone) EXCEPT ![b] = r3]
    BY <1>7 DEF Finish
  <2>2. ended \in SUBSET Sockets /\ gone \in SUBSET Sockets
    <3>1. r.owner \in Sockets \union {Http}
      BY <1>3 DEF CastStates
    <3>2. Removable(d) \subseteq Sockets
      <4>. HIDE DEF d
      <4>. QED  BY <1>2 DEF Removable
    <3>. QED  BY <1>3, <3>1, <3>2
  <2>3. /\ r3 \in CastStates /\ r3.dead = d /\ r3.pc \in {"done", "raised"}
        /\ \A f \in {"owner", "index", "to", "audience", "departed"} : r3[f] = c[f]
    <3>. HIDE DEF r, c, d
    <3>. QED  BY <1>3 DEF CastStates
  <2>. HIDE DEF r3
  <2>4. /\ CountDepartures(gone) \in [Casts -> CastStates]
        /\ \A k \in Casts :
                /\ \A f \in {"pc", "owner", "index", "to", "dead", "audience"} :
                        CountDepartures(gone)[k][f] = cast[k][f]
                /\ CountDepartures(gone)[k].departed =
                        IF Sending(k) THEN cast[k].departed + Cardinality(gone \intersect Range(sockets))
                        ELSE cast[k].departed
    <3>. HIDE DEF gone
    <3>. QED  BY DeparturesCounted
  <2>5. /\ cast' \in [Casts -> CastStates] /\ cast'[b] = r3
        /\ \A k \in Casts \ {b} : cast'[k] = CountDepartures(gone)[k]
    <3>. HIDE DEF gone
    <3>. QED  BY <2>1, <2>3, <2>4
  <2>6. \A k \in Casts \ {b} : Counts(k, gone)
    <3>. HIDE DEF gone
    <3>. QED  BY <2>4, <2>5 DEF Counts, Same
  <2>7. gone = Removable(cast'[b].dead) \union ended
    BY <1>3, <2>3, <2>5
  <2>8. Ends(b)
    <3>. HIDE DEF gone, ended, d, r, c
    <3>1. Learns(b) /\ c.index >= Len(sockets)
      BY <1>5, <1>7, <2>3, <2>5
    <3>. QED  BY <2>1, <2>2, <2>3, <2>5, <2>6, <2>7, <3>1 DEF Ends, c
  <2>9. sockets' \in Seq(Sockets)
    <3>. HIDE DEF gone
    <3>. QED  BY <2>1, Leaving
  <2>10. \A k \in Casts : Sending(k)' => cast'[k].to \in Sockets
    <3>. HIDE DEF gone
    <3>. QED  BY <2>3, <2>5, <2>6 DEF Counts, Same, Sending, TypeOK
  <2>11. peer' \in [Sockets -> {"new", "open", "closed", "ended"}]
    <3>. HIDE DEF ended
    <3>. QED  BY <2>1 DEF TypeOK
  <2>. QED  BY <1>4, <2>5, <2>8, <2>9, <2>10, <2>11 DEF TypeOK
<1>. QED  BY <1>6, <1>7 DEF Send

\* The finally clause of a handler unsubscribes its connection.
LEMMA HandlerEndsEffect ==
    ASSUME TypeOK, NEW s \in Sockets, HandlerEnds(s)
    PROVE  /\ sockets' = Without({s}) /\ sockets' \in Seq(Sockets)
           /\ peer' = [peer EXCEPT ![s] = "ended"] /\ peer[s] \in {"open", "closed"} /\ sent' = sent
           /\ cast' \in [Casts -> CastStates]
           /\ \A c \in Casts : Counts(c, {s})
<1> DEFINE S == {s}
<1>1. /\ sockets' = Without(S) /\ cast' = CountDepartures(S) /\ sent' = sent
      /\ peer' = [peer EXCEPT ![s] = "ended"] /\ peer[s] \in {"open", "closed"}
  BY DEF HandlerEnds
<1>. HIDE DEF S
<1>2. \A c \in Casts : Counts(c, S)
  BY <1>1, DeparturesCounted DEF Counts, Same
<1>3. sockets' \in Seq(Sockets) /\ cast' \in [Casts -> CastStates]
  BY <1>1, Leaving, DeparturesCounted
<1>. QED  BY <1>1, <1>2, <1>3 DEF S

\* The initial values have their types.
LEMMA TypeInit == Init => TypeOK
<1>. SUFFICES ASSUME Init PROVE TypeOK
  OBVIOUS
<1>1. NotStarted \in CastStates /\ NotStarted.pc = "idle"
  <2>1. <<>> \in Seq(Sockets)
    OBVIOUS
  <2>. QED  BY <2>1 DEF NotStarted, CastStates
<1>2. cast \in [Casts -> CastStates] /\ \A b \in Casts : cast[b] = NotStarted
  BY <1>1 DEF Init
<1>3. \A b \in Casts : ~Sending(b)
  BY <1>1, <1>2 DEF Sending
<1>4. sockets \in Seq(Sockets) /\ sent \in [Sockets -> Seq(Casts)]
  BY DEF Init
<1>. QED  BY <1>2, <1>3, <1>4 DEF Init, TypeOK

\* Every step keeps the types.
LEMMA TypeNext == TypeOK /\ [Next]_vars => TypeOK'
<1>. SUFFICES ASSUME TypeOK, [Next]_vars PROVE TypeOK'
  OBVIOUS
<1>1. ASSUME NEW s \in Sockets, Connect(s) PROVE TypeOK'
  <2>1. Append(sockets, s) \in Seq(Sockets)
    BY DEF TypeOK
  <2>. QED  BY <1>1, <2>1 DEF Connect, TypeOK, Sending
<1>2. ASSUME NEW s \in Sockets, Close(s) PROVE TypeOK'
  BY <1>2 DEF Close, TypeOK, Sending
<1>3. ASSUME NEW s \in Sockets, HandlerEnds(s) PROVE TypeOK'
  <2>1. /\ sockets' \in Seq(Sockets) /\ cast' \in [Casts -> CastStates] /\ sent' = sent
        /\ peer' = [peer EXCEPT ![s] = "ended"] /\ \A c \in Casts : Same(c)
    BY <1>3, HandlerEndsEffect DEF Counts
  <2>2. \A c \in Casts : Sending(c)' => cast'[c].to \in Sockets
    BY <2>1 DEF Same, Sending, TypeOK
  <2>. QED  BY <2>1, <2>2 DEF TypeOK
<1>4. CASE UNCHANGED vars
  BY <1>4 DEF vars, TypeOK, Sending
<1>. QED  BY <1>1, <1>2, <1>3, <1>4, StartEffect, SendEffect DEF Next

-----------------------------------------------------------------------------
(* Who is subscribed                                                       *)

\* A send fails only when its receiver is gone.
DeadAreGone ==
    \A b \in Casts : \A s \in Range(cast[b].dead) : peer[s] \in {"closed", "ended"}

\* Those to be removed at the end of a broadcast are gone.
LEMMA LearnsDead ==
    ASSUME TypeOK, NEW b \in Casts, Learns(b), DeadAreGone
    PROVE  \A s \in Range(cast'[b].dead) : s \in Sockets /\ peer[s] \in {"closed", "ended"}
<1>1. cast[b].dead \in Seq(Sockets) /\ cast[b].to \in Sockets /\ cast[b] \in CastStates
  BY DEF TypeOK, Learns, CastStates
<1>2. \A s \in Range(cast[b].dead) : s \in Sockets
  BY <1>1 DEF Range
<1>3. CASE cast'[b].dead = cast[b].dead
  BY <1>2, <1>3 DEF DeadAreGone
<1>4. CASE cast'[b].dead # cast[b].dead
  <2>1. Range(cast'[b].dead) = Range(cast[b].dead) \union {cast[b].to}
    <3> DEFINE q == cast[b].dead
               e == cast[b].to
    <3>1. q \in Seq(Sockets) /\ e \in Sockets /\ cast'[b].dead = Append(q, e)
      BY <1>1, <1>4 DEF Learns
    <3>2. Range(Append(q, e)) = Range(q) \union {e}
      <4>. HIDE DEF q, e
      <4>. QED  BY <3>1, RangeAppend
    <3>. QED  BY <3>1, <3>2
  <2>. QED  BY <1>1, <1>2, <1>4, <2>1 DEF DeadAreGone, Learns
<1>. QED  BY <1>3, <1>4

\* Whoever leaves the list has left the session, whoever takes it off the list.
LEMMA SubscribersNext ==
    TypeOK /\ SubscribersAreConnected /\ DeadAreGone /\ [Next]_vars
        => SubscribersAreConnected' /\ DeadAreGone'
<1>. SUFFICES ASSUME TypeOK, SubscribersAreConnected, DeadAreGone, [Next]_vars
              PROVE  SubscribersAreConnected' /\ DeadAreGone'
  OBVIOUS
<1>1. ASSUME NEW s \in Sockets, Connect(s) PROVE SubscribersAreConnected' /\ DeadAreGone'
  <2>1. /\ sockets \in Seq(Sockets) /\ peer[s] = "new" /\ s \notin Range(sockets)
        /\ sockets' = Append(sockets, s) /\ cast' = cast
        /\ peer' = [peer EXCEPT ![s] = "open"]
    BY <1>1 DEF Connect, TypeOK, SubscribersAreConnected
  <2>2. Range(sockets') = Range(sockets) \union {s} /\ IsInjective(sockets')
    BY <2>1, RangeAppend, InjectiveAppend DEF SubscribersAreConnected
  <2>3. SubscribersAreConnected'
    BY <2>1, <2>2 DEF SubscribersAreConnected, TypeOK
  <2>4. DeadAreGone'
    BY <2>1 DEF DeadAreGone, TypeOK
  <2>. QED  BY <2>3, <2>4
<1>2. ASSUME NEW s \in Sockets, Close(s) PROVE SubscribersAreConnected' /\ DeadAreGone'
  BY <1>2 DEF Close, TypeOK, SubscribersAreConnected, DeadAreGone
<1>3. ASSUME NEW s \in Sockets, HandlerEnds(s) PROVE SubscribersAreConnected' /\ DeadAreGone'
  <2> DEFINE S == {s}
  <2>1. /\ sockets' = Without(S) /\ peer' = [peer EXCEPT ![s] = "ended"]
        /\ \A c \in Casts : cast'[c].dead = cast[c].dead
    BY <1>3, HandlerEndsEffect DEF Counts, Same
  <2>2. Range(sockets') = Range(sockets) \ S /\ IsInjective(sockets')
    <3>. HIDE DEF S
    <3>. QED  BY <2>1, Leaving DEF SubscribersAreConnected
  <2>3. SubscribersAreConnected'
    BY <2>1, <2>2 DEF SubscribersAreConnected, TypeOK
  <2>4. DeadAreGone'
    BY <2>1 DEF DeadAreGone, TypeOK
  <2>. QED  BY <2>3, <2>4
<1>4. ASSUME NEW b \in Casts, NEW owner \in Owners, Start(b, owner)
      PROVE  SubscribersAreConnected' /\ DeadAreGone'
  <2>1. Starts(b, owner)
    BY <1>4, StartEffect
  <2>2. \A c \in Casts : c # b => cast'[c].dead = cast[c].dead
    BY <2>1 DEF Starts
  <2>3. Range(cast'[b].dead) = {}
    BY <2>1, EmptyQueue DEF Starts
  <2>. QED  BY <2>1, <2>2, <2>3 DEF Starts, SubscribersAreConnected, DeadAreGone
<1>5. ASSUME NEW b \in Casts, Advances(b) PROVE SubscribersAreConnected' /\ DeadAreGone'
  <2>1. \A s \in Range(cast'[b].dead) : peer[s] \in {"closed", "ended"}
    BY <1>5, LearnsDead DEF Advances
  <2>2. UNCHANGED <<sockets, peer>> /\ \A c \in Casts \ {b} : cast'[c].dead = cast[c].dead
    BY <1>5 DEF Advances
  <2>. QED  BY <2>1, <2>2 DEF SubscribersAreConnected, DeadAreGone
<1>6. ASSUME NEW b \in Casts, Ends(b) PROVE SubscribersAreConnected' /\ DeadAreGone'
  <2>1. \A s \in Range(cast'[b].dead) : peer[s] \in {"closed", "ended"}
    BY <1>6, LearnsDead DEF Ends
  <2>2. PICK gone, ended \in SUBSET Sockets :
        /\ gone = Removable(cast'[b].dead) \union ended
        /\ sockets' = Without(gone)
        /\ peer' = [s \in Sockets |-> IF s \in ended THEN "ended" ELSE peer[s]]
        /\ \A c \in Casts \ {b} : Counts(c, gone)
    BY <1>6 DEF Ends
  <2>3. Range(sockets') = Range(sockets) \ gone /\ IsInjective(sockets')
    BY <2>2, Leaving DEF SubscribersAreConnected
  <2>4. \A s \in gone : s \in ended \/ peer[s] \in {"closed", "ended"}
    BY <2>1, <2>2 DEF Removable, Range
  <2>5. SubscribersAreConnected'
    <3>1. ASSUME NEW s \in Sockets, peer'[s] = "open" PROVE s \in Range(sockets')
      BY <2>2, <2>3, <2>4, <3>1 DEF SubscribersAreConnected
    <3>2. ASSUME NEW s \in Sockets, peer'[s] \in {"new", "ended"} PROVE s \notin Range(sockets')
      BY <2>2, <2>3, <3>2 DEF SubscribersAreConnected
    <3>. QED  BY <2>3, <3>1, <3>2 DEF SubscribersAreConnected
  <2>6. DeadAreGone'
    <3>1. \A c \in Casts : cast'[c].dead \in Seq(Sockets)
      <4>1. TypeOK'
        BY TypeNext
      <4>. QED  BY <4>1 DEF TypeOK, CastStates
    <3>2. \A c \in Casts : \A s \in Range(cast'[c].dead) : s \in Sockets
      BY <3>1 DEF Range
    <3>3. \A c \in Casts : \A s \in Range(cast'[c].dead) : peer[s] \in {"closed", "ended"}
      BY <2>1, <2>2 DEF Counts, Same, DeadAreGone
    <3>. QED  BY <2>2, <3>2, <3>3 DEF DeadAreGone
  <2>. QED  BY <2>5, <2>6
<1>7. ASSUME NEW b \in Casts, NEW raised \in BOOLEAN, Send(b, raised)
      PROVE  SubscribersAreConnected' /\ DeadAreGone'
  BY <1>5, <1>6, <1>7, SendEffect
<1>8. CASE UNCHANGED vars
  BY <1>8 DEF vars, SubscribersAreConnected, DeadAreGone
<1>. QED  BY <1>1, <1>2, <1>3, <1>4, <1>7, <1>8 DEF Next

-----------------------------------------------------------------------------
(* Who hears what                                                          *)

\* The subscribers that the iterator of a broadcast has still to reach.
Ahead(b) == Beyond(sockets, cast[b].index)

\* Those still to be reached, and the one the broadcast is sending to, have not
\* got the event; whoever got one was connected.
Unheard(b) ==
    /\ \A s \in Sockets : b \in Range(sent[s]) => cast[b].pc # "idle" /\ peer[s] # "new"
    /\ Sending(b) =>
        /\ peer[cast[b].to] # "new" /\ cast[b].to \notin Ahead(b)
        /\ \A s \in {cast[b].to} \union Ahead(b) : b \notin Range(sent[s])

AudienceInv ==
    TypeOK /\ SubscribersAreConnected /\ DeadAreGone /\ \A b \in Casts : Unheard(b)

\* A broadcast that goes on while others subscribe, leave or get other events.
LEMMA UnheardKept ==
    ASSUME AudienceInv, NEW c \in Casts, Same(c),
           \A s \in Sockets : c \in Range(sent'[s]) <=> c \in Range(sent[s]),
           \A s \in Sockets : peer'[s] = "new" => peer[s] = "new",
           Ahead(c)' \subseteq Ahead(c) \union {s \in Sockets : peer[s] = "new"}
    PROVE  Unheard(c)'
<1>1. Unheard(c) /\ (Sending(c) => cast[c].to \in Sockets)
  BY DEF AudienceInv, TypeOK
<1>2. Ahead(c) \subseteq Sockets
  <2>1. sockets \in Seq(Sockets)
    BY DEF AudienceInv, TypeOK
  <2>. QED  BY <2>1 DEF Ahead, Beyond
<1>3. cast'[c].pc = cast[c].pc /\ cast'[c].to = cast[c].to /\ Sending(c)' = Sending(c)
  BY DEF Same, Sending
<1>4. \A s \in Sockets : c \in Range(sent'[s]) => cast'[c].pc # "idle" /\ peer'[s] # "new"
  BY <1>1, <1>3 DEF Unheard
<1>5. ASSUME Sending(c)
      PROVE  /\ peer'[cast[c].to] # "new" /\ cast[c].to \notin Ahead(c)'
             /\ \A s \in {cast[c].to} \union Ahead(c)' : c \notin Range(sent'[s])
  <2>1. /\ peer[cast[c].to] # "new" /\ cast[c].to \notin Ahead(c) /\ cast[c].to \in Sockets
        /\ \A s \in {cast[c].to} \union Ahead(c) : c \notin Range(sent[s])
    BY <1>1, <1>5 DEF Unheard
  <2>2. \A s \in Sockets : peer[s] = "new" => c \notin Range(sent[s])
    BY <1>1 DEF Unheard
  <2>. HIDE DEF Ahead
  <2>. QED  BY <1>2, <2>1, <2>2
<1>. HIDE DEF Ahead
<1>. QED  BY <1>3, <1>4, <1>5 DEF Unheard

\* What the end of a send adds to what was sent.
LEMMA LearnsSent ==
    ASSUME TypeOK, NEW b \in Casts, Learns(b)
    PROVE  /\ cast[b].to \in Sockets
           /\ \A s \in Sockets : Range(sent'[s]) =
                IF s = cast[b].to THEN Range(sent[s]) \union {b} ELSE Range(sent[s])
<1> DEFINE s == cast[b].to
           q == sent[s]
<1>1. s \in Sockets /\ q \in Seq(Casts) /\ sent' = [sent EXCEPT ![s] = Append(q, b)]
      /\ sent \in [Sockets -> Seq(Casts)]
  BY DEF TypeOK, Learns
<1>2. Range(Append(q, b)) = Range(q) \union {b}
  <2>. HIDE DEF q, s
  <2>. QED  BY <1>1, RangeAppend
<1>3. ASSUME NEW x \in Sockets
      PROVE  Range(sent'[x]) = IF x = s THEN Range(sent[x]) \union {b} ELSE Range(sent[x])
  <2>. HIDE DEF s
  <2>1. sent'[x] = IF x = s THEN Append(q, b) ELSE sent[x]
    BY <1>1
  <2>. QED  BY <1>2, <2>1
<1>. QED  BY <1>1, <1>3

\* Subscribers that leave are not ahead any more.
LEMMA AheadLeaving ==
    ASSUME TypeOK, SubscribersAreConnected, NEW S, sockets' = Without(S),
           NEW c \in Casts, cast'[c].index = cast[c].index
    PROVE  /\ Ahead(c)' \subseteq Ahead(c)
           /\ IsFiniteSet(Ahead(c) \ Ahead(c)')
           /\ Cardinality(Ahead(c) \ Ahead(c)') <= Cardinality(S \intersect Range(sockets))
<1> DEFINE n == cast[c].index
<1>1. sockets \in Seq(Sockets) /\ IsInjective(sockets) /\ n \in Nat
  BY DEF TypeOK, SubscribersAreConnected, CastStates
<1>2. sockets' \in Seq(Sockets) /\ \E h : Keeps(h, sockets', sockets, Len(sockets), S)
  BY Leaving
<1>3. Ahead(c) = Beyond(sockets, n) /\ Ahead(c)' = Beyond(sockets', n)
  BY DEF Ahead, Beyond
<1>4. PICK h : Keeps(h, sockets', sockets, Len(sockets), S)
  BY <1>2
<1>. HIDE DEF n, Ahead
<1>5. /\ Beyond(sockets', n) \subseteq Beyond(sockets, n)
      /\ IsFiniteSet(Beyond(sockets, n) \ Beyond(sockets', n))
      /\ Cardinality(Beyond(sockets, n) \ Beyond(sockets', n)) <= Cardinality(S \intersect Range(sockets))
  BY <1>1, <1>2, <1>4, LeaversBound
<1>. QED  BY <1>3, <1>5

\* No step puts in front of an iterator who has got the event.
LEMMA UnheardNext ==
    ASSUME AudienceInv, [Next]_vars
    PROVE  \A c \in Casts : Unheard(c)'
<1>. USE DEF AudienceInv
<1>0. /\ sockets \in Seq(Sockets) /\ IsInjective(sockets) /\ TypeOK
      /\ \A c \in Casts : cast[c].index \in Nat /\ cast[c] \in CastStates
  BY DEF TypeOK, SubscribersAreConnected, CastStates
<1>1. ASSUME NEW s \in Sockets, Connect(s), NEW c \in Casts PROVE Unheard(c)'
  <2>1. Same(c) /\ sent' = sent /\ peer[s] = "new" /\ sockets' = Append(sockets, s)
        /\ \A x \in Sockets : peer'[x] = "new" => peer[x] = "new"
    BY <1>1 DEF Connect, Same, TypeOK
  <2>2. Ahead(c)' \subseteq Ahead(c) \union {s}
    <3>1. cast'[c].index = cast[c].index
      BY <2>1 DEF Same
    <3>. QED  BY <1>0, <2>1, <3>1, BeyondAppend DEF Ahead
  <2>3. Ahead(c)' \subseteq Ahead(c) \union {x \in Sockets : peer[x] = "new"}
    BY <2>1, <2>2
  <2>. QED  BY <2>1, <2>3, UnheardKept
<1>2. ASSUME NEW s \in Sockets, Close(s), NEW c \in Casts PROVE Unheard(c)'
  <2>1. Same(c) /\ sent' = sent /\ Ahead(c)' = Ahead(c)
        /\ \A x \in Sockets : peer'[x] = "new" => peer[x] = "new"
    BY <1>2 DEF Close, Same, TypeOK, Ahead, Beyond
  <2>. QED  BY <2>1, UnheardKept
<1>3. ASSUME NEW s \in Sockets, HandlerEnds(s), NEW c \in Casts PROVE Unheard(c)'
  <2>1. Same(c) /\ sent' = sent /\ sockets' = Without({s})
        /\ \A x \in Sockets : peer'[x] = "new" => peer[x] = "new"
    BY <1>3, HandlerEndsEffect DEF Counts, TypeOK
  <2>2. Ahead(c)' \subseteq Ahead(c)
    BY <2>1, AheadLeaving DEF Same
  <2>. QED  BY <2>1, <2>2, UnheardKept
<1>4. ASSUME NEW b \in Casts, NEW owner \in Owners, Start(b, owner), NEW c \in Casts
      PROVE  Unheard(c)'
  <2>1. Starts(b, owner)
    BY <1>4, StartEffect
  <2>2. CASE c # b
    <3>1. Same(c) /\ sent' = sent /\ peer' = peer /\ Ahead(c)' = Ahead(c)
      BY <2>1, <2>2 DEF Starts, Same, Ahead, Beyond
    <3>. QED  BY <3>1, UnheardKept
  <2>3. CASE c = b
    <3>1. \A s \in Sockets : b \notin Range(sent'[s])
      BY <2>1, <2>3 DEF Starts, Unheard
    <3>2. CASE sockets = <<>>
      <4>1. ~Sending(b)'
        BY <2>1, <3>2 DEF Starts, Sending
      <4>. QED  BY <2>3, <3>1, <4>1 DEF Unheard
    <3>3. CASE sockets # <<>>
      <4>1. /\ cast'[b].to = sockets[1] /\ Ahead(b)' = Beyond(sockets, 1)
            /\ 0 < Len(sockets) /\ 0 \in Nat
        BY <1>0, <2>1, <3>3 DEF Starts, Ahead, Beyond
      <4>2. /\ Range(sockets) = {sockets[0 + 1]} \union Beyond(sockets, 0 + 1)
            /\ sockets[0 + 1] \notin Beyond(sockets, 0 + 1)
        BY <1>0, <4>1, BeyondStep
      <4>3. /\ {cast'[b].to} \union Ahead(b)' = Range(sockets)
            /\ cast'[b].to \notin Ahead(b)'
        BY <4>1, <4>2
      <4>4. Range(sockets) \subseteq Sockets /\ cast'[b].to \in Range(sockets)
        BY <1>0, <4>3 DEF Range
      <4>5. peer'[cast'[b].to] # "new"
        BY <2>1, <4>4 DEF Starts, SubscribersAreConnected
      <4>. QED  BY <2>3, <3>1, <4>3, <4>4, <4>5 DEF Unheard
    <3>. QED  BY <3>2, <3>3
  <2>. QED  BY <2>2, <2>3
<1>5. ASSUME NEW b \in Casts, Learns(b), NEW c \in Casts \ {b}, NEW s \in Sockets
      PROVE  c \in Range(sent'[s]) <=> c \in Range(sent[s])
  BY <1>5, LearnsSent
<1>6. ASSUME NEW b \in Casts, Advances(b), NEW c \in Casts PROVE Unheard(c)'
  <2>1. CASE c # b
    <3>1. Same(c) /\ peer' = peer /\ Ahead(c)' = Ahead(c) /\ Learns(b)
      BY <1>6, <2>1 DEF Advances, Same, Ahead, Beyond
    <3>. QED  BY <1>5, <2>1, <3>1, UnheardKept
  <2>2. CASE c = b
    <3> DEFINE n == cast[b].index
               t == cast[b].to
    <3>1. /\ n \in Nat /\ n < Len(sockets) /\ Learns(b) /\ Sending(b) /\ Unheard(b)
          /\ cast'[b].pc = "sending" /\ cast'[b].to = sockets[n + 1] /\ peer' = peer
          /\ Ahead(b) = Beyond(sockets, n) /\ Ahead(b)' = Beyond(sockets, n + 1)
      BY <1>0, <1>6 DEF Advances, Learns, Ahead, Beyond
    <3>2. /\ Ahead(b) = {cast'[b].to} \union Ahead(b)' /\ cast'[b].to \notin Ahead(b)'
      <4>. HIDE DEF n
      <4>. QED  BY <1>0, <3>1, BeyondStep
    <3>3. Ahead(b) \subseteq Range(sockets) /\ Range(sockets) \subseteq Sockets
      BY <1>0 DEF Ahead, Beyond, Range
    <3>4. t \notin Ahead(b) /\ \A s \in Ahead(b) : b \notin Range(sent[s])
      BY <3>1 DEF Unheard
    <3>5. \A s \in Sockets : Range(sent'[s]) =
                IF s = t THEN Range(sent[s]) \union {b} ELSE Range(sent[s])
      BY <3>1, LearnsSent
    <3>6. \A s \in Ahead(b) : b \notin Range(sent'[s]) /\ peer'[s] # "new"
      <4>. HIDE DEF Ahead, t
      <4>. QED  BY <3>1, <3>3, <3>4, <3>5 DEF SubscribersAreConnected
    <3>7. \A s \in Sockets : b \in Range(sent'[s]) => cast'[b].pc # "idle" /\ peer'[s] # "new"
      <4>1. \A s \in Sockets : b \in Range(sent[s]) => peer[s] # "new"
        BY <3>1 DEF Unheard
      <4>2. peer[t] # "new"
        BY <3>1 DEF Unheard
      <4>. HIDE DEF t
      <4>. QED  BY <3>1, <3>5, <4>1, <4>2
    <3>. HIDE DEF Ahead
    <3>. QED  BY <2>2, <3>2, <3>6, <3>7 DEF Unheard
  <2>. QED  BY <2>1, <2>2
<1>7. ASSUME NEW b \in Casts, Ends(b), NEW c \in Casts PROVE Unheard(c)'
  <2>1. PICK gone, ended \in SUBSET Sockets :
        /\ sockets' = Without(gone)
        /\ peer' = [s \in Sockets |-> IF s \in ended THEN "ended" ELSE peer[s]]
        /\ \A k \in Casts \ {b} : Counts(k, gone)
    BY <1>7 DEF Ends
  <2>2. Learns(b) /\ \A s \in Sockets : peer'[s] = "new" => peer[s] = "new"
    BY <1>7, <2>1 DEF Ends
  <2>3. CASE c # b
    <3>1. Same(c) /\ cast'[c].index = cast[c].index
      BY <2>1, <2>3 DEF Counts, Same
    <3>2. Ahead(c)' \subseteq Ahead(c)
      BY <2>1, <3>1, AheadLeaving
    <3>. QED  BY <1>5, <2>2, <2>3, <3>1, <3>2, UnheardKept
  <2>4. CASE c = b
    <3>1. ~Sending(b)' /\ cast'[b].pc # "idle"
      BY <1>7 DEF Ends, Sending
    <3>2. \A s \in Sockets : b \in Range(sent'[s]) => peer'[s] # "new"
      <4>1. \A s \in Sockets : b \in Range(sent[s]) => peer[s] # "new"
        BY DEF Unheard
      <4>2. peer[cast[b].to] # "new"
        BY <2>2 DEF Unheard, Learns
      <4>. QED  BY <2>2, <4>1, <4>2, LearnsSent
    <3>. QED  BY <2>4, <3>1, <3>2 DEF Unheard
  <2>. QED  BY <2>3, <2>4
<1>8. ASSUME NEW b \in Casts, NEW raised \in BOOLEAN, Send(b, raised), NEW c \in Casts
      PROVE  Unheard(c)'
  BY <1>6, <1>7, <1>8, SendEffect
<1>9. ASSUME UNCHANGED vars, NEW c \in Casts PROVE Unheard(c)'
  BY <1>9 DEF vars, Unheard, Sending, Ahead, Beyond
<1>. QED  BY <1>1, <1>2, <1>3, <1>4, <1>8, <1>9 DEF Next

\* Nobody is connected and nothing is broadcast at first.
LEMMA AudienceInit == Init => AudienceInv
<1>. SUFFICES ASSUME Init PROVE AudienceInv
  OBVIOUS
<1>1. \A b \in Casts : cast[b].pc = "idle" /\ cast[b].dead = <<>>
  BY DEF Init, NotStarted
<1>2. \A s \in Sockets : sent[s] = <<>> /\ peer[s] = "new"
  BY DEF Init
<1>3. SubscribersAreConnected /\ DeadAreGone
  BY <1>1, <1>2, EmptyQueue DEF Init, SubscribersAreConnected, DeadAreGone
<1>4. \A b \in Casts : Unheard(b)
  BY <1>1, <1>2, EmptyQueue DEF Unheard, Sending
<1>. QED  BY <1>3, <1>4, TypeInit DEF AudienceInv

\* The parts of the invariant are preserved together.
LEMMA AudienceNext == AudienceInv /\ [Next]_vars => AudienceInv'
<1>. SUFFICES ASSUME AudienceInv, [Next]_vars PROVE AudienceInv'
  OBVIOUS
<1>1. TypeOK' /\ SubscribersAreConnected' /\ DeadAreGone'
  BY TypeNext, SubscribersNext DEF AudienceInv
<1>2. \A c \in Casts : Unheard(c)'
  BY UnheardNext
<1>. QED  BY <1>1, <1>2 DEF AudienceInv

\* A step changes what was sent only by the end of the send of one broadcast.
LEMMA SentChange ==
    ASSUME TypeOK, [Next]_vars
    PROVE  sent' = sent \/ \E b \in Casts : Learns(b)
<1>1. ASSUME NEW s \in Sockets, Connect(s) \/ Close(s) \/ HandlerEnds(s) PROVE sent' = sent
  BY <1>1 DEF Connect, Close, HandlerEnds
<1>2. ASSUME NEW b \in Casts, NEW owner \in Owners, Start(b, owner) PROVE sent' = sent
  BY <1>2 DEF Start
<1>3. ASSUME NEW b \in Casts, NEW raised \in BOOLEAN, Send(b, raised) PROVE Learns(b)
  BY <1>3, SendEffect DEF Advances, Ends
<1>. QED  BY <1>1, <1>2, <1>3 DEF Next, vars

\* The event that is being sent is new to its receiver.
LEMMA NoEventTwiceNext == AudienceInv /\ NoEventTwice /\ [Next]_vars => NoEventTwice'
<1>. SUFFICES ASSUME AudienceInv, NoEventTwice, [Next]_vars PROVE NoEventTwice'
  OBVIOUS
<1>1. CASE sent' = sent
  BY <1>1 DEF NoEventTwice
<1>2. ASSUME NEW b \in Casts, Learns(b) PROVE NoEventTwice'
  <2> DEFINE s == cast[b].to
             q == sent[s]
  <2>1. /\ s \in Sockets /\ q \in Seq(Casts) /\ IsInjective(q) /\ b \notin Range(q)
        /\ sent' = [sent EXCEPT ![s] = Append(q, b)] /\ sent \in [Sockets -> Seq(Casts)]
    BY <1>2 DEF AudienceInv, TypeOK, Learns, Unheard, NoEventTwice
  <2>. HIDE DEF s
  <2>2. IsInjective(Append(q, b))
    <3>. HIDE DEF q
    <3>. QED  BY <2>1, InjectiveAppend
  <2>. QED  BY <2>1, <2>2 DEF NoEventTwice
<1>. QED  BY <1>1, <1>2, SentChange DEF AudienceInv

-----------------------------------------------------------------------------
(* The order of the events of one sender                                   *)

\* Broadcasts start in order, and the handler of a connection has one at a time.
OneAtATime ==
    \A b \in Casts : cast[b].pc # "idle" =>
        \A c \in 1 .. b - 1 :
            /\ cast[c].pc # "idle"
            /\ cast[c].owner = cast[b].owner /\ cast[c].owner # Http => ~Sending(c)

\* But for a start, a step leaves the owners alone and only ends broadcasts.
LEMMA StartedStay ==
    ASSUME TypeOK, [Next]_vars
    PROVE  \/ \E b \in Casts : \E owner \in Owners : Starts(b, owner)
           \/ \A c \in Casts : /\ cast'[c].owner = cast[c].owner
                               /\ cast'[c].pc = "idle" <=> cast[c].pc = "idle"
                               /\ Sending(c)' => Sending(c)
<1> DEFINE Stay(c) == /\ cast'[c].owner = cast[c].owner
                      /\ cast'[c].pc = "idle" <=> cast[c].pc = "idle"
                      /\ Sending(c)' => Sending(c)
<1>1. \A c \in Casts : Same(c) => Stay(c)
  BY DEF Same, Sending
<1>2. ASSUME NEW s \in Sockets, Connect(s) \/ Close(s) \/ HandlerEnds(s), NEW c \in Casts
      PROVE  Same(c)
  BY <1>2, HandlerEndsEffect DEF Connect, Close, Same, Counts
<1>3. ASSUME NEW b \in Casts, NEW raised \in BOOLEAN, Send(b, raised), NEW c \in Casts
      PROVE  Stay(c)
  <2>1. CASE c = b
    <3>1. /\ cast[b].pc = "sending" /\ cast'[b].pc # "idle"
          /\ cast'[b].owner = cast[b].owner
      BY <1>3, SendEffect DEF Advances, Ends, Learns, Sending
    <3>. QED  BY <2>1, <3>1 DEF Sending
  <2>2. CASE c # b
    <3>1. Advances(b) => Same(c)
      BY <2>2 DEF Advances, Same
    <3>2. Ends(b) => Same(c)
      BY <2>2 DEF Ends, Counts
    <3>. QED  BY <1>1, <1>3, <3>1, <3>2, SendEffect
  <2>. QED  BY <2>1, <2>2
<1>4. UNCHANGED vars => \A c \in Casts : Same(c)
  BY DEF vars, Same
<1>. HIDE DEF Stay
<1>5. (\E b \in Casts : \E owner \in Owners : Starts(b, owner)) \/ \A c \in Casts : Stay(c)
  BY <1>1, <1>2, <1>3, <1>4, StartEffect DEF Next
<1>. QED  BY <1>5 DEF Stay

\* A handler that awaits its broadcast starts no other one.
LEMMA OneAtATimeNext == TypeOK /\ OneAtATime /\ [Next]_vars => OneAtATime'
<1>. SUFFICES ASSUME TypeOK, OneAtATime, [Next]_vars PROVE OneAtATime'
  OBVIOUS
<1>1. \A b \in Casts : 1 .. b - 1 \subseteq Casts
  BY NumCastsAssumption DEF Casts
<1>2. CASE \A c \in Casts : /\ cast'[c].owner = cast[c].owner
                            /\ cast'[c].pc = "idle" <=> cast[c].pc = "idle"
                            /\ Sending(c)' => Sending(c)
  BY <1>1, <1>2 DEF OneAtATime
<1>3. ASSUME NEW b \in Casts, NEW owner \in Owners, Starts(b, owner) PROVE OneAtATime'
  <2>1. /\ cast[b].pc = "idle" /\ cast'[b].pc # "idle" /\ cast'[b].owner = owner
        /\ \A c \in 1 .. b - 1 : cast[c].pc # "idle"
        /\ \A c \in Casts \ {b} : cast'[c] = cast[c]
    BY <1>3 DEF Starts
  <2>2. \A c \in Casts \ {b} : Sending(c)' = Sending(c)
    BY <2>1 DEF Sending
  <2>3. \A c \in Casts : Sending(c) /\ cast[c].owner = owner => owner = Http
    BY DEF Owners, Busy
  <2>. SUFFICES ASSUME NEW k \in Casts, cast'[k].pc # "idle", NEW c \in 1 .. k - 1
                PROVE  /\ cast'[c].pc # "idle"
                       /\ cast'[c].owner = cast'[k].owner /\ cast'[c].owner # Http => ~Sending(c)'
    BY DEF OneAtATime
  <2>4. c \in Casts /\ c # k
    BY <1>1, NumCastsAssumption DEF Casts
  <2>5. CASE k = b
    BY <2>1, <2>2, <2>3, <2>4, <2>5
  <2>6. CASE k # b
    <3>1. cast[k].pc # "idle" /\ c # b
      BY <2>1, <2>4, <2>6 DEF OneAtATime
    <3>. QED  BY <2>1, <2>2, <2>4, <2>6, <3>1 DEF OneAtATime
  <2>. QED  BY <2>5, <2>6
<1>. QED  BY <1>2, <1>3, StartedStay

\* What is sent to a client comes after all it got from the same sender.
LEMMA SendersOrderNext ==
    AudienceInv /\ NoEventTwice /\ OneAtATime /\ EventsInSendersOrder /\ [Next]_vars
        => EventsInSendersOrder'
<1>. SUFFICES ASSUME AudienceInv, NoEventTwice, OneAtATime, EventsInSendersOrder, [Next]_vars
              PROVE  EventsInSendersOrder'
  OBVIOUS
<1>1. TypeOK /\ sent \in [Sockets -> Seq(Casts)]
  BY DEF AudienceInv, TypeOK
<1>2. \A s \in Sockets : \A i \in DOMAIN sent[s] : sent[s][i] \in Casts /\ cast[sent[s][i]].pc # "idle"
  BY <1>1 DEF AudienceInv, Unheard, Range
<1>3. \A b \in Casts : cast[b].pc # "idle" => cast'[b].owner = cast[b].owner
  BY <1>1, StartedStay DEF Starts
<1>4. CASE sent' = sent
  BY <1>2, <1>3, <1>4 DEF EventsInSendersOrder
<1>5. ASSUME NEW c \in Casts, Learns(c) PROVE EventsInSendersOrder'
  <2> DEFINE t == cast[c].to
  <2>1. /\ t \in Sockets /\ sent[t] \in Seq(Casts) /\ sent' = [sent EXCEPT ![t] = Append(sent[t], c)]
        /\ Sending(c) /\ c \notin Range(sent[t]) /\ cast[c].pc # "idle"
    BY <1>1, <1>5 DEF Learns, AudienceInv, TypeOK, Unheard, Sending
  <2>2. ASSUME NEW i \in DOMAIN sent[t],
               cast[sent[t][i]].owner = cast[c].owner, cast[c].owner # Http
        PROVE  sent[t][i] < c
    <3> DEFINE b == sent[t][i]
    <3>1. b \in Casts /\ cast[b].pc # "idle" /\ b # c
      BY <1>2, <2>1 DEF Range
    <3>2. ~(c \in 1 .. b - 1)
      BY <2>1, <2>2, <3>1 DEF OneAtATime
    <3>. HIDE DEF b
    <3>3. b < c
      BY <3>1, <3>2, NumCastsAssumption DEF Casts
    <3>. QED  BY <3>3 DEF b
  <2>. HIDE DEF t
  <2>. SUFFICES ASSUME NEW s \in Sockets, NEW i \in DOMAIN sent'[s], NEW j \in DOMAIN sent'[s],
                       i < j, cast'[sent'[s][i]].owner = cast'[sent'[s][j]].owner,
                       cast'[sent'[s][i]].owner # Http
                PROVE  sent'[s][i] < sent'[s][j]
    BY DEF EventsInSendersOrder
  <2>3. CASE s # t
    <3>1. sent'[s] = sent[s]
      BY <1>1, <2>1, <2>3
    <3>. QED  BY <1>2, <1>3, <3>1 DEF EventsInSendersOrder
  <2>4. CASE s = t
    <3> DEFINE q == sent[t]
    <3>1. /\ sent'[s] = Append(q, c) /\ q \in Seq(Casts) /\ DOMAIN q = 1 .. Len(q) /\ Len(q) \in Nat
          /\ DOMAIN sent'[s] = 1 .. Len(q) + 1
          /\ sent'[s][Len(q) + 1] = c
          /\ \A k \in 1 .. Len(q) : sent'[s][k] = q[k]
      BY <1>1, <2>1, <2>4
    <3>2. i \in 1 .. Len(q) /\ (j \in 1 .. Len(q) \/ j = Len(q) + 1)
      BY <3>1
    <3>3. CASE j \in 1 .. Len(q)
      <4>1. /\ i \in DOMAIN sent[t] /\ sent'[s][i] = sent[t][i]
            /\ j \in DOMAIN sent[t] /\ sent'[s][j] = sent[t][j]
        BY <3>1, <3>2, <3>3
      <4>2. /\ cast'[sent[t][i]].owner = cast[sent[t][i]].owner
            /\ cast'[sent[t][j]].owner = cast[sent[t][j]].owner
        BY <1>2, <1>3, <2>1, <4>1
      <4>. QED  BY <2>1, <4>1, <4>2 DEF EventsInSendersOrder
    <3>4. CASE j = Len(q) + 1
      <4>1. i \in DOMAIN sent[t] /\ sent'[s][i] = sent[t][i] /\ sent'[s][j] = c
        BY <3>1, <3>2, <3>4
      <4>2. /\ cast'[c].owner = cast[c].owner
            /\ cast'[sent[t][i]].owner = cast[sent[t][i]].owner
        BY <1>2, <1>3, <2>1, <4>1
      <4>. QED  BY <2>2, <4>1, <4>2
    <3>. QED  BY <3>2, <3>3, <3>4
  <2>. QED  BY <2>3, <2>4
<1>. QED  BY <1>1, <1>4, <1>5, SentChange

-----------------------------------------------------------------------------
(* Who misses an event                                                     *)

Missing(b) == {s \in cast[b].audience : b \notin Range(sent[s])}
PassedOver(b) == Missing(b) \ ({cast[b].to} \union Ahead(b))

\* While a broadcast is under way, those of its audience that it has passed
\* over are at most as many as have left since it began.
FewMissed(b) ==
    /\ IsFiniteSet(cast[b].audience)
    /\ Sending(b) => Cardinality(PassedOver(b)) <= cast[b].departed
    /\ Finished(b) => Cardinality(Missing(b)) <= cast[b].departed

\* A broadcast that goes on while S leaves, or while others subscribe.
LEMMA FewMissedKept ==
    ASSUME TypeOK, TypeOK', SubscribersAreConnected, NEW c \in Casts, FewMissed(c),
           \A s \in Sockets : c \in Range(sent'[s]) <=> c \in Range(sent[s]),
           \/ /\ Same(c) /\ cast'[c].departed = cast[c].departed
              /\ Ahead(c) \subseteq Ahead(c)'
           \/ \E S : Counts(c, S) /\ sockets' = Without(S)
    PROVE  FewMissed(c)'
<1>1. /\ Same(c) /\ cast'[c].audience = cast[c].audience /\ cast[c].audience \subseteq Sockets
      /\ cast'[c].to = cast[c].to /\ Sending(c)' = Sending(c) /\ Finished(c)' = Finished(c)
      /\ cast[c].departed \in Nat
  <2>1. cast[c] \in CastStates
    BY DEF TypeOK
  <2>. QED  BY <2>1 DEF Counts, Same, Sending, Finished, CastStates
<1>2. Missing(c)' = Missing(c)
  BY <1>1 DEF Missing
<1>3. /\ IsFiniteSet(cast[c].audience) /\ IsFiniteSet(Missing(c)) /\ IsFiniteSet(PassedOver(c))
      /\ Cardinality(PassedOver(c)) \in Nat
  <2>1. Missing(c) \subseteq cast[c].audience /\ PassedOver(c) \subseteq cast[c].audience
    BY DEF Missing, PassedOver
  <2>2. IsFiniteSet(cast[c].audience)
    BY DEF FewMissed
  <2>. QED  BY <2>1, <2>2, FS_Subset, FS_CardinalityType
<1>4. Finished(c) => cast'[c].departed = cast[c].departed
  BY DEF Counts, Sending, Finished
<1>5. Sending(c) => Cardinality(PassedOver(c)') <= cast'[c].departed
  <2>. SUFFICES ASSUME Sending(c) PROVE Cardinality(PassedOver(c)') <= cast'[c].departed
    OBVIOUS
  <2>0. Cardinality(PassedOver(c)) <= cast[c].departed
    BY DEF FewMissed
  <2>1. CASE cast'[c].departed = cast[c].departed /\ Ahead(c) \subseteq Ahead(c)'
    <3>1. PassedOver(c)' \subseteq PassedOver(c)
      BY <1>1, <1>2, <2>1 DEF PassedOver
    <3>2. Cardinality(PassedOver(c)') <= Cardinality(PassedOver(c)) /\ Cardinality(PassedOver(c)') \in Nat
      BY <1>3, <3>1, FS_Subset, FS_CardinalityType
    <3>. QED  BY <1>1, <1>3, <2>0, <2>1, <3>2
  <2>2. ASSUME NEW S, Counts(c, S), sockets' = Without(S)
        PROVE  Cardinality(PassedOver(c)') <= cast'[c].departed
    <3> DEFINE gone == Ahead(c) \ Ahead(c)'
               k == Cardinality(S \intersect Range(sockets))
    <3>1. IsFiniteSet(gone) /\ Cardinality(gone) <= k /\ k \in Nat
      <4>1. cast'[c].index = cast[c].index
        BY <1>1 DEF Same
      <4>. QED  BY <2>2, <4>1, AheadLeaving, Departures
    <3>2. cast'[c].departed = cast[c].departed + k
      BY <2>2 DEF Counts
    <3>3. PassedOver(c)' \subseteq PassedOver(c) \union gone
      BY <1>1, <1>2 DEF PassedOver
    <3>. HIDE DEF gone, k
    <3>4. /\ IsFiniteSet(PassedOver(c) \union gone)
          /\ Cardinality(PassedOver(c) \union gone)
                = Cardinality(PassedOver(c)) + Cardinality(gone)
                    - Cardinality(PassedOver(c) \intersect gone)
          /\ Cardinality(gone) \in Nat
          /\ Cardinality(PassedOver(c) \intersect gone) \in Nat
      BY <1>3, <3>1, FS_Union, FS_Intersection, FS_CardinalityType
    <3>5. Cardinality(PassedOver(c)') <= Cardinality(PassedOver(c) \union gone)
      BY <3>3, <3>4, FS_Subset
    <3>6. Cardinality(PassedOver(c)') \in Nat
      BY <3>3, <3>4, FS_Subset, FS_CardinalityType
    <3>. QED  BY <1>1, <1>3, <2>0, <3>1, <3>2, <3>4, <3>5, <3>6
  <2>. QED  BY <2>1, <2>2
<1>. QED  BY <1>1, <1>2, <1>3, <1>4, <1>5 DEF FewMissed

\* Only departures make a broadcast pass subscribers over.
LEMMA FewMissedNext ==
    ASSUME AudienceInv, TypeOK', [Next]_vars, \A b \in Casts : FewMissed(b)
    PROVE  \A c \in Casts : FewMissed(c)'
<1>0. /\ TypeOK /\ SubscribersAreConnected /\ sockets \in Seq(Sockets) /\ IsInjective(sockets)
      /\ \A c \in Casts : cast[c].index \in Nat /\ cast[c] \in CastStates
      /\ \A c \in Casts : cast[c].departed \in Nat
  BY DEF AudienceInv, TypeOK, SubscribersAreConnected, CastStates
<1>1. ASSUME NEW s \in Sockets, Connect(s), NEW c \in Casts PROVE FewMissed(c)'
  <2>1. /\ Same(c) /\ cast'[c].departed = cast[c].departed /\ sent' = sent
        /\ sockets' = Append(sockets, s) /\ cast'[c].index = cast[c].index
    BY <1>1 DEF Connect, Same
  <2>2. Ahead(c) \subseteq Ahead(c)'
    BY <1>0, <2>1, BeyondAppend DEF Ahead
  <2>. QED  BY <1>0, <2>1, <2>2, FewMissedKept
<1>2. ASSUME NEW s \in Sockets, Close(s), NEW c \in Casts PROVE FewMissed(c)'
  <2>1. Same(c) /\ cast'[c].departed = cast[c].departed /\ sent' = sent /\ Ahead(c)' = Ahead(c)
    BY <1>2 DEF Close, Same, Ahead, Beyond
  <2>. QED  BY <1>0, <2>1, FewMissedKept
<1>3. ASSUME NEW s \in Sockets, HandlerEnds(s), NEW c \in Casts PROVE FewMissed(c)'
  <2>1. Counts(c, {s}) /\ sent' = sent /\ sockets' = Without({s})
    BY <1>0, <1>3, HandlerEndsEffect
  <2>. QED  BY <1>0, <2>1, FewMissedKept
<1>4. ASSUME NEW b \in Casts, NEW owner \in Owners, Start(b, owner), NEW c \in Casts
      PROVE  FewMissed(c)'
  <2>1. Starts(b, owner)
    BY <1>0, <1>4, StartEffect
  <2>2. CASE c # b
    <3>1. Same(c) /\ cast'[c].departed = cast[c].departed /\ sent' = sent /\ Ahead(c)' = Ahead(c)
      BY <2>1, <2>2 DEF Starts, Same, Ahead, Beyond
    <3>. QED  BY <1>0, <3>1, FewMissedKept
  <2>3. CASE c = b
    <3>1. /\ cast'[b].audience = Range(sockets) /\ cast'[b].departed = 0
          /\ cast'[b].index = 1 /\ sockets' = sockets
      BY <2>1 DEF Starts
    <3>2. IsFiniteSet(Range(sockets))
      BY <1>0, Departures
    <3>3. CASE sockets = <<>>
      <4>1. ~Sending(b)' /\ Missing(b)' = {}
        BY <2>1, <3>1, <3>3, EmptyQueue DEF Starts, Sending, Missing
      <4>2. Cardinality(Missing(b)') <= 0
        BY <4>1, FS_EmptySet
      <4>. QED  BY <2>3, <3>1, <3>2, <4>1, <4>2 DEF FewMissed
    <3>4. CASE sockets # <<>>
      <4>1. /\ cast'[b].to = sockets[1] /\ Ahead(b)' = Beyond(sockets, 1)
            /\ 0 < Len(sockets) /\ 0 \in Nat /\ cast'[b].pc = "sending"
        BY <1>0, <2>1, <3>4 DEF Starts, Ahead, Beyond
      <4>2. /\ Range(sockets) = {sockets[0 + 1]} \union Beyond(sockets, 0 + 1)
        BY <1>0, <4>1, BeyondStep
      <4>3. PassedOver(b)' = {}
        BY <3>1, <4>1, <4>2 DEF PassedOver, Missing
      <4>4. Cardinality(PassedOver(b)') <= 0 /\ ~Finished(b)'
        BY <4>1, <4>3, FS_EmptySet DEF Finished
      <4>. QED  BY <2>3, <3>1, <3>2, <4>4 DEF FewMissed
    <3>. QED  BY <3>3, <3>4
  <2>. QED  BY <2>2, <2>3
<1>5. ASSUME NEW b \in Casts, Learns(b), NEW c \in Casts \ {b}, NEW s \in Sockets
      PROVE  c \in Range(sent'[s]) <=> c \in Range(sent[s])
  BY <1>0, <1>5, LearnsSent
<1>6. ASSUME NEW b \in Casts, Learns(b)
      PROVE  /\ cast'[b].audience = cast[b].audience /\ cast'[b].departed = cast[b].departed
             /\ Missing(b)' \subseteq Missing(b) \ {cast[b].to}
             /\ IsFiniteSet(cast[b].audience) /\ Sending(b)
             /\ IsFiniteSet(PassedOver(b)) /\ Cardinality(PassedOver(b)) \in Nat
             /\ Cardinality(PassedOver(b)) <= cast[b].departed
  <2>1. /\ cast'[b].audience = cast[b].audience /\ cast'[b].departed = cast[b].departed
        /\ cast[b].audience \subseteq Sockets /\ Sending(b) /\ IsFiniteSet(cast[b].audience)
        /\ Cardinality(PassedOver(b)) <= cast[b].departed
    BY <1>0, <1>6 DEF Learns, FewMissed, CastStates
  <2>2. Missing(b)' \subseteq Missing(b) \ {cast[b].to}
    BY <1>0, <1>6, <2>1, LearnsSent DEF Missing
  <2>3. PassedOver(b) \subseteq cast[b].audience
    BY DEF PassedOver, Missing
  <2>. QED  BY <2>1, <2>2, <2>3, FS_Subset, FS_CardinalityType
<1>7. ASSUME NEW b \in Casts, Advances(b), NEW c \in Casts PROVE FewMissed(c)'
  <2>1. CASE c # b
    <3>1. /\ Same(c) /\ cast'[c].departed = cast[c].departed /\ Ahead(c)' = Ahead(c) /\ Learns(b)
      BY <1>7, <2>1 DEF Advances, Same, Ahead, Beyond
    <3>. QED  BY <1>0, <1>5, <2>1, <3>1, FewMissedKept
  <2>2. CASE c = b
    <3> DEFINE n == cast[b].index
    <3>1. /\ n \in Nat /\ n < Len(sockets) /\ Learns(b)
          /\ cast'[b].pc = "sending" /\ cast'[b].to = sockets[n + 1]
          /\ Ahead(b) = Beyond(sockets, n) /\ Ahead(b)' = Beyond(sockets, n + 1)
      BY <1>0, <1>7 DEF Advances, Learns, Ahead, Beyond
    <3>2. Ahead(b) = {cast'[b].to} \union Ahead(b)'
      <4>. HIDE DEF n
      <4>. QED  BY <1>0, <3>1, BeyondStep
    <3>3. PassedOver(b)' \subseteq PassedOver(b)
      <4>. HIDE DEF Ahead, Missing
      <4>. QED  BY <1>6, <3>1, <3>2 DEF PassedOver
    <3>4. Cardinality(PassedOver(b)') <= Cardinality(PassedOver(b)) /\ Cardinality(PassedOver(b)') \in Nat
      BY <1>6, <3>1, <3>3, FS_Subset, FS_CardinalityType
    <3>5. Cardinality(PassedOver(b)') <= cast'[b].departed /\ ~Finished(b)' /\ IsFiniteSet(cast'[b].audience)
      BY <1>0, <1>6, <3>1, <3>4 DEF Finished
    <3>. QED  BY <2>2, <3>5 DEF FewMissed
  <2>. QED  BY <2>1, <2>2
<1>8. ASSUME NEW b \in Casts, Ends(b), NEW c \in Casts PROVE FewMissed(c)'
  <2>1. PICK gone, ended \in SUBSET Sockets :
        sockets' = Without(gone) /\ \A k \in Casts \ {b} : Counts(k, gone)
    BY <1>8 DEF Ends
  <2>2. Learns(b) /\ cast[b].index >= Len(sockets) /\ ~Sending(b)'
    BY <1>8 DEF Ends, Sending
  <2>3. CASE c # b
    BY <1>0, <1>5, <2>1, <2>2, <2>3, FewMissedKept
  <2>4. CASE c = b
    <3>1. Ahead(b) = {}
      BY <1>0, <2>2, BeyondStep DEF Ahead
    <3>2. Missing(b)' \subseteq PassedOver(b)
      BY <1>6, <2>2, <3>1 DEF PassedOver
    <3>3. Cardinality(Missing(b)') <= Cardinality(PassedOver(b)) /\ Cardinality(Missing(b)') \in Nat
      BY <1>6, <2>2, <3>2, FS_Subset, FS_CardinalityType
    <3>4. Cardinality(Missing(b)') <= cast'[b].departed /\ IsFiniteSet(cast'[b].audience)
      BY <1>0, <1>6, <2>2, <3>3
    <3>. QED  BY <2>2, <2>4, <3>4 DEF FewMissed
  <2>. QED  BY <2>3, <2>4
<1>9. ASSUME NEW b \in Casts, NEW raised \in BOOLEAN, Send(b, raised), NEW c \in Casts
      PROVE  FewMissed(c)'
  BY <1>0, <1>7, <1>8, <1>9, SendEffect
<1>10. ASSUME UNCHANGED vars, NEW c \in Casts PROVE FewMissed(c)'
  BY <1>10 DEF vars, FewMissed, Sending, Finished, PassedOver, Missing, Ahead, Beyond
<1>. QED  BY <1>1, <1>2, <1>3, <1>4, <1>9, <1>10 DEF Next

-----------------------------------------------------------------------------
(* The theorems                                                            *)

\* The subscriber lists, connections, broadcasts and deliveries keep their types.
THEOREM BroadcastTypes == Spec => []TypeOK
<1>. QED  BY TypeInit, TypeNext, PTL DEF Spec

\* Whoever joins, leaves or fails during a broadcast, the broadcast has still
\* to reach only subscribers that have not had its event.
THEOREM AudienceInvariant == Spec => []AudienceInv
<1>. QED  BY AudienceInit, AudienceNext, PTL DEF Spec

\* A connection that is up is subscribed once; one whose handler ended is not.
THEOREM ConnectedAreSubscribed == Spec => []SubscribersAreConnected
<1>1. AudienceInv => SubscribersAreConnected
  BY DEF AudienceInv
<1>. QED  BY <1>1, AudienceInvariant, PTL

\* However the subscriber list shifts under the iterators of any number of
\* broadcasts, no client is sent the same event twice.
THEOREM EventsAreSentOnce == Spec => []NoEventTwice
<1>1. Init => NoEventTwice
  BY EmptyQueue DEF Init, NoEventTwice
<1>. QED  BY <1>1, NoEventTwiceNext, AudienceInvariant, PTL DEF Spec

\* What the messages of one client cause is told to every client in order.
THEOREM SendersOrderKept == Spec => []EventsInSendersOrder
<1>1. Init => OneAtATime /\ EventsInSendersOrder
  BY DEF Init, NotStarted, OneAtATime, EventsInSendersOrder
<1>2. AudienceInv => TypeOK
  BY DEF AudienceInv
<1>. QED  BY <1>1, <1>2, OneAtATimeNext, SendersOrderNext, EventsAreSentOnce, AudienceInvariant,
             PTL DEF Spec

\* Each departure during a broadcast hides the event from at most one of those
\* subscribed when it began, with any number of clients and broadcasts.
THEOREM DeparturesBoundLoss == Spec => []MissedAtMostDepartures
<1> DEFINE Few == \A b \in Casts : FewMissed(b)
<1>1. Init => Few
  <2>. SUFFICES ASSUME Init, NEW b \in Casts PROVE FewMissed(b)
    OBVIOUS
  <2>1. cast[b].pc = "idle" /\ cast[b].audience = {}
    BY DEF Init, NotStarted
  <2>. QED  BY <2>1, FS_EmptySet DEF FewMissed, Sending, Finished
<1>2. AudienceInv /\ AudienceInv' /\ Few /\ [Next]_vars => Few'
  BY FewMissedNext DEF AudienceInv
<1>3. Few => MissedAtMostDepartures
  BY DEF FewMissed, MissedAtMostDepartures, Missing
<1>. QED  BY <1>1, <1>2, <1>3, AudienceInvariant, PTL DEF Spec
=============================================================================
