------------------------------ MODULE Pairing ------------------------------
(***************************************************************************)
(* PairingService (clawlink_router/auth.py), the /pair endpoints and POST  *)
(* /connect with a code: codes expire, a completed pairing consumes them,  *)
(* and a connection only looks at them.  Expired codes are removed only    *)
(* when somebody presents them (cleanup_expired() has no caller), and a    *)
(* code that left the table may be drawn again.                            *)
(***************************************************************************)
EXTENDS Registry, Integers

CONSTANTS
    Codes,     \* the strings a code can be
    TTL,       \* how long a code is valid
    MaxTime,   \* bound of the model on the clock
    MaxIssued  \* bound of the model on the codes generated

ASSUME TTLAssumption == TTL \in Nat
ASSUME BoundsAssumption == MaxTime \in Nat /\ MaxIssued \in Nat

Pairings == 1 .. MaxIssued
PairingCode == [issuedAt : 0 .. MaxTime, pairing : Pairings]

ASSUME NoneIsNoCode == None \notin PairingCode

VARIABLES
    now,      \* the clock
    codes,    \* _codes: code -> [issuedAt, pairing], or None
    issued,   \* the number of codes generated; each names one pairing
    paired,   \* the completed pairings: [pairing, id, endpoint, age]
    admitted  \* what _codes said of the codes that POST /connect accepted

vars == <<agents, now, codes, issued, paired, admitted>>

Init ==
    /\ agents = [i \in Ids |-> None]
    /\ now = 0
    /\ codes = [c \in Codes |-> None]
    /\ issued = 0
    /\ paired = {}
    /\ admitted = {}

-----------------------------------------------------------------------------
Tick ==
    /\ now < MaxTime
    /\ now' = now + 1
    /\ UNCHANGED <<agents, codes, issued, paired, admitted>>

\* POST /pair/generate draws until the code is not in the table.
Generate(c) ==
    /\ codes[c] = None /\ issued < MaxIssued
    /\ issued' = issued + 1
    /\ codes' = [codes EXCEPT ![c] = [issuedAt |-> now, pairing |-> issued']]
    /\ UNCHANGED <<agents, now, paired, admitted>>

\* Mutant of Age: the difference the wrong way round.
AgeSwapped(c) == codes[c].issuedAt - now

Age(c) == now - codes[c].issuedAt

\* The code is valid up to and including its expires_at.
Expired(c) == Age(c) > TTL

\* validate_pairing_code(), which every endpoint calls first, removes the code
\* when it has expired and changes nothing otherwise.
Validate(c) ==
    /\ codes[c] # None
    /\ Expired(c)
    /\ codes' = [codes EXCEPT ![c] = None]
    /\ UNCHANGED <<agents, now, issued, paired, admitted>>

\* Mutant of Connect: the connection consumes the code.
ConnectConsuming(c) ==
    /\ codes[c] # None /\ ~Expired(c)
    /\ admitted' = admitted \union {codes[c]}
    /\ codes' = [codes EXCEPT ![c] = None]
    /\ UNCHANGED <<agents, now, issued, paired>>

\* POST /connect with a pairing code.  (The other methods only look at the
\* credentials; no API key is ever registered.)
Connect(c) ==
    /\ codes[c] # None /\ ~Expired(c)
    /\ admitted' = admitted \union {codes[c]}
    /\ UNCHANGED <<agents, now, codes, issued, paired>>

\* Mutant of Complete: the code is not consumed.
CompleteKeepsCode(c, i, e) ==
    /\ codes[c] # None /\ ~Expired(c)
    /\ Register(i, e)
    /\ paired' = paired \union
            {[pairing |-> codes[c].pairing, id |-> i, endpoint |-> e, age |-> Age(c)]}
    /\ UNCHANGED <<now, codes, issued, admitted>>

\* POST /pair/complete: an expired code is Validate(c) and the answer 400.
\* The result of register() is not looked at: the answer is 200 either way.
Complete(c, i, e) ==
    /\ codes[c] # None /\ ~Expired(c)
    /\ codes' = [codes EXCEPT ![c] = None]
    /\ Register(i, e)
    /\ paired' = paired \union
            {[pairing |-> codes[c].pairing, id |-> i, endpoint |-> e, age |-> Age(c)]}
    /\ UNCHANGED <<now, issued, admitted>>

RegisterAgent(i, e) == Upsert(i, e) /\ UNCHANGED <<now, codes, issued, paired, admitted>>

DisconnectAgent(i) == Unregister(i) /\ UNCHANGED <<now, codes, issued, paired, admitted>>

-----------------------------------------------------------------------------
Next ==
    \/ Tick
    \/ \E c \in Codes : Generate(c)
    \/ \E c \in Codes : Validate(c)
    \/ \E c \in Codes : Connect(c)
    \/ \E c \in Codes, i \in Ids, e \in Endpoints : Complete(c, i, e)
    \/ \E i \in Ids, e \in Endpoints : RegisterAgent(i, e)
    \/ \E i \in Ids : DisconnectAgent(i)

Spec == Init /\ [][Next]_vars

-----------------------------------------------------------------------------
(* Properties                                                              *)

TypeOK ==
    /\ AgentsType
    /\ now \in 0 .. MaxTime
    /\ codes \in [Codes -> PairingCode \union {None}]
    /\ admitted \subseteq PairingCode
    /\ issued \in 0 .. MaxIssued
    /\ paired \subseteq [pairing : Pairings, id : Ids, endpoint : Endpoints, age : Nat]

\* A generated code completes one pairing at most, and in time, however often
\* it is presented and although the string may be drawn for a later pairing.
CodesSpentOnce ==
    /\ \A r \in paired : r.age <= TTL
    /\ \A r, q \in paired : r.pairing = q.pairing => r = q
    /\ \A c \in Codes : codes[c] # None =>
         \A r \in paired : r.pairing # codes[c].pairing

\* A connection does not spend the code: as long as it is valid, the agent that
\* connected with it can still complete the pairing, unless it has done so.
ConnectionSparesCode ==
    \A p \in admitted :
        \/ now - p.issuedAt > TTL
        \/ \E r \in paired : r.pairing = p.pairing
        \/ \E c \in Codes : codes[c] = p
=============================================================================
