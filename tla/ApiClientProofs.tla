---------------------------- MODULE ApiClientProofs ----------------------------
(***************************************************************************)
(* Theorems about ApiClient for any number of calls, any limit, burst,     *)
(* retries, threshold and cooldown, with and without a cookie session.     *)
(***************************************************************************)
EXTENDS ApiClient, FiniteSetTheorems, SequenceTheorems, TLAPS

(* What joining a queue and leaving it at its head do to its members.       *)
LEMMA AppendMember ==
  ASSUME NEW S, NEW seq \in Seq(S), NEW x \in S
  PROVE  /\ Append(seq, x) \in Seq(S)
         /\ Append(seq, x) # <<>>
         /\ Members(Append(seq, x)) = Members(seq) \cup {x}
         /\ Distinct(seq) /\ x \notin Members(seq) => Distinct(Append(seq, x))
<1>1. /\ Len(seq) \in Nat /\ DOMAIN seq = 1..Len(seq)
      /\ DOMAIN Append(seq, x) = 1..(Len(seq) + 1)
      /\ Append(seq, x)[Len(seq) + 1] = x
      /\ \A i \in 1..Len(seq) : Append(seq, x)[i] = seq[i]
      /\ Append(seq, x) \in Seq(S)
  OBVIOUS
<1>2. Append(seq, x) # <<>>
  BY <1>1
<1>3. Members(Append(seq, x)) = Members(seq) \cup {x}
  <2>1. ASSUME NEW y \in Members(Append(seq, x)) PROVE y \in Members(seq) \cup {x}
    BY <1>1 DEF Members
  <2>2. ASSUME NEW y \in Members(seq) PROVE y \in Members(Append(seq, x))
    <3>1. PICK i \in 1..Len(seq) : y = seq[i]
      BY <1>1 DEF Members
    <3>2. i \in 1..(Len(seq) + 1) /\ Append(seq, x)[i] = y
      BY <1>1, <3>1
    <3> QED BY <1>1, <3>2 DEF Members
  <2>3. x \in Members(Append(seq, x))
    <3>1. Len(seq) + 1 \in 1..(Len(seq) + 1)
      BY <1>1
    <3> QED BY <1>1, <3>1 DEF Members
  <2> QED BY <2>1, <2>2, <2>3
<1>4. ASSUME Distinct(seq), x \notin Members(seq) PROVE Distinct(Append(seq, x))
  BY <1>1, <1>4 DEF Distinct, Members
<1> QED BY <1>1, <1>2, <1>3, <1>4

LEMMA HeadLeaves ==
  ASSUME NEW S, NEW seq \in Seq(S), seq # <<>>
  PROVE  /\ Head(seq) \in S /\ Tail(seq) \in Seq(S)
         /\ Members(seq) = Members(Tail(seq)) \cup {Head(seq)}
         /\ Distinct(seq) => Distinct(Tail(seq)) /\ Head(seq) \notin Members(Tail(seq))
<1>1. /\ Len(seq) \in Nat /\ Len(seq) > 0 /\ DOMAIN seq = 1..Len(seq)
      /\ Head(seq) = seq[1] /\ Head(seq) \in S /\ Tail(seq) \in Seq(S)
      /\ DOMAIN Tail(seq) = 1..(Len(seq) - 1)
      /\ \A i \in 1..(Len(seq) - 1) : Tail(seq)[i] = seq[i + 1]
  OBVIOUS
<1>2. Members(seq) = Members(Tail(seq)) \cup {Head(seq)}
  <2>1. ASSUME NEW y \in Members(seq) PROVE y \in Members(Tail(seq)) \cup {Head(seq)}
    <3>1. PICK i \in 1..Len(seq) : y = seq[i]
      BY <1>1 DEF Members
    <3>2. CASE i = 1
      BY <1>1, <3>1, <3>2
    <3>3. CASE i # 1
      <4>1. i - 1 \in 1..(Len(seq) - 1) /\ Tail(seq)[i - 1] = y
        BY <1>1, <3>1, <3>3
      <4> QED BY <1>1, <4>1 DEF Members
    <3> QED BY <3>2, <3>3
  <2>2. ASSUME NEW y \in Members(Tail(seq)) PROVE y \in Members(seq)
    <3>1. PICK i \in 1..(Len(seq) - 1) : y = seq[i + 1]
      BY <1>1 DEF Members
    <3>2. i + 1 \in 1..Len(seq)
      BY <1>1
    <3> QED BY <1>1, <3>1, <3>2 DEF Members
  <2>3. Head(seq) \in Members(seq)
    <3>1. 1 \in 1..Len(seq)
      BY <1>1
    <3> QED BY <1>1, <3>1 DEF Members
  <2> QED BY <2>1, <2>2, <2>3
<1>3. ASSUME Distinct(seq)
      PROVE  Distinct(Tail(seq)) /\ Head(seq) \notin Members(Tail(seq))
  <2>1. \A i \in 1..(Len(seq) - 1) : i + 1 \in 1..Len(seq) /\ i + 1 # 1
    BY <1>1
  <2>2. 1 \in 1..Len(seq)
    BY <1>1
  <2>3. Head(seq) \notin Members(Tail(seq))
    BY <1>1, <1>3, <2>1, <2>2 DEF Distinct, Members
  <2>4. Distinct(Tail(seq))
    <3> SUFFICES ASSUME NEW i \in 1..(Len(seq) - 1), NEW j \in 1..(Len(seq) - 1),
                        Tail(seq)[i] = Tail(seq)[j]
                 PROVE  i = j
      BY <1>1 DEF Distinct
    <3>1. i + 1 = j + 1
      BY <1>1, <1>3, <2>1 DEF Distinct
    <3> QED BY <3>1
  <2> QED BY <2>3, <2>4
<1> QED BY <1>1, <1>2, <1>3

LEMMA EmptyQueue ==
  /\ Members(<<>>) = {}
  /\ Distinct(<<>>)
BY DEF Members, Distinct

-----------------------------------------------------------------------------
(* Types.                                                                   *)
LEMMA ConstantTypes ==
  /\ Limit \in Nat \ {0} /\ Capacity \in Nat \ {0} /\ LongestWait \in Nat \ {0}
  /\ Threshold \in Nat \ {0} /\ Cooldown \in Nat \ {0} /\ MaxRetries \in Nat
  /\ Login \notin Calls /\ Login \in Requests /\ Calls \subseteq Requests
BY ThrottleAssumption, ClientAssumption

LEMMA ClosedIsCircuit == Closed \in Circuit
BY ConstantTypes DEF Closed, Circuit, NotOpen

LEMMA TickedIsCircuit ==
  ASSUME NEW state \in Circuit
  PROVE  OneTick(state) \in Circuit
<1>1. state.failures \in 0..Threshold /\ state.until \in NotOpen..Cooldown
  BY DEF Circuit
<1> DEFINE left == IF state.until > 0 THEN state.until - 1 ELSE state.until
<1>2. left \in NotOpen..Cooldown
  BY <1>1, ConstantTypes DEF NotOpen
<1>3. OneTick(state) = [state EXCEPT !.until = left]
  BY DEF OneTick
<1> HIDE DEF left
<1> QED BY <1>1, <1>2, <1>3 DEF Circuit

LEMMA CheckedIsCircuit ==
  ASSUME NEW state \in Circuit
  PROVE  [state EXCEPT !.until = NotOpen] \in Circuit
<1>1. NotOpen \in NotOpen..Cooldown
  BY ConstantTypes DEF NotOpen
<1> QED BY <1>1 DEF Circuit

LEMMA AfterFailureIsCircuit ==
  ASSUME circuit \in Circuit
  PROVE  AfterFailure \in Circuit
<1>1. circuit.failures \in 0..Threshold
  BY DEF Circuit
<1> DEFINE failures == IF circuit.failures < Threshold THEN circuit.failures + 1
                                                       ELSE Threshold
           until == IF failures = Threshold THEN Cooldown ELSE NotOpen
<1>2. failures \in 0..Threshold
  BY <1>1, ConstantTypes
<1>3. until \in NotOpen..Cooldown
  BY ConstantTypes DEF NotOpen
<1>4. AfterFailure = [failures |-> failures, until |-> until]
  BY DEF AfterFailure
<1> HIDE DEF failures, until
<1> QED BY <1>2, <1>3, <1>4 DEF Circuit

LEMMA ReleaseTypes ==
  ASSUME ThrottleTypeOK, NEW r, Release(r)
  PROVE  waiting' \in Seq(Requests) /\ holders' \subseteq Requests
<1>1. waiting \in Seq(Requests) /\ holders \subseteq Requests
  BY DEF ThrottleTypeOK
<1>2. waiting # <<>> => Head(waiting) \in Requests /\ Tail(waiting) \in Seq(Requests)
  BY <1>1, HeadLeaves
<1> QED BY <1>1, <1>2 DEF Release

LEMMA JoinTypes ==
  ASSUME ThrottleTypeOK, NEW r \in Requests, JoinLine(r)
  PROVE  line' \in Seq(Requests)
BY AppendMember DEF ThrottleTypeOK, JoinLine

LEMMA PenaliseTypes ==
  ASSUME ThrottleTypeOK, NEW wait \in 1..LongestWait, Penalise(wait)
  PROVE  penalty' \in 0..LongestWait
BY ConstantTypes DEF ThrottleTypeOK, Penalise

(* Every step but a stutter brings the licences up to date.                 *)
LEMMA LicenceStep ==
  ASSUME TypeOK, [Next]_vars
  PROVE  Licence \/ UNCHANGED vars
BY DEF Next, Enter, CallStep, Admit, LoginEnds, Tick, Flip, SessionLapses, ResetCircuit,
       Restart

LEMMA TakeTokenTypes ==
  ASSUME ThrottleTypeOK, TakeToken
  PROVE  ThrottleTypeOK'
<1>1. tokens' \in 0..Capacity
  BY ConstantTypes DEF ThrottleTypeOK, TakeToken
<1>2. Head(line) \in Requests /\ line' \in Seq(Requests)
  BY HeadLeaves DEF ThrottleTypeOK, TakeToken
<1>3. waiting' \in Seq(Requests) /\ holders' \subseteq Requests
  <2>1. Append(waiting, Head(line)) \in Seq(Requests)
    BY <1>2, AppendMember DEF ThrottleTypeOK
  <2> QED BY <1>2, <2>1 DEF ThrottleTypeOK, TakeToken
<1> QED BY <1>1, <1>2, <1>3 DEF ThrottleTypeOK, TakeToken

LEMMA RefillTypes ==
  ASSUME ThrottleTypeOK, Refill
  PROVE  tokens' \in 0..Capacity /\ penalty' \in 0..LongestWait
BY ConstantTypes DEF ThrottleTypeOK, Refill

LEMMA CheckTypes ==
  ASSUME TypeOK, NEW c \in Calls, NEW state \in Circuit, Check(c, state)
  PROVE  /\ circuit' \in Circuit
         /\ line' \in Seq(Requests)
         /\ phase' = [phase EXCEPT ![c] = "idle"]
              \/ phase' = [phase EXCEPT ![c] = "acquiring"]
BY CheckedIsCircuit, JoinTypes, ConstantTypes DEF TypeOK, ThrottleTypeOK, Check, Goes

Phases == {"idle", "loading", "acquiring", "login", "onwire", "answered",
           "failed", "rejected", "backoff", "saving"}

LEMMA TypeStep == TypeOK /\ [Next]_vars => TypeOK'
<1> SUFFICES ASSUME TypeOK, [Next]_vars PROVE TypeOK'
  OBVIOUS
<1>a. /\ ThrottleTypeOK /\ phase \in [Calls -> Phases] /\ tries \in [Calls -> 0..MaxRetries]
      /\ circuit \in Circuit /\ stored \in Circuit /\ saving \in [Calls -> Circuit]
      /\ loaded \in BOOLEAN /\ loggedIn \in BOOLEAN /\ loggingIn \in BOOLEAN
      /\ sick \in BOOLEAN
  BY DEF TypeOK, Phases
<1>h. licensed' \subseteq Requests
  <2>1. Unspent' \subseteq Requests /\ licensed \subseteq Requests
    BY ConstantTypes DEF Unspent, TypeOK
  <2> QED BY <2>1, LicenceStep DEF Licence, vars
<1>b. TypeOK' = ( /\ ThrottleTypeOK' /\ phase' \in [Calls -> Phases]
                  /\ tries' \in [Calls -> 0..MaxRetries]
                  /\ circuit' \in Circuit /\ stored' \in Circuit
                  /\ saving' \in [Calls -> Circuit]
                  /\ loaded' \in BOOLEAN /\ loggedIn' \in BOOLEAN
                  /\ loggingIn' \in BOOLEAN /\ sick' \in BOOLEAN )
  BY <1>h DEF TypeOK, Phases
<1>c. \A c \in Calls : c \in Requests
  BY ConstantTypes
<1>d. UNCHANGED throttle => ThrottleTypeOK'
  BY <1>a DEF throttle, ThrottleTypeOK
<1>e. \A c \in Calls, to \in Phases : Goes(c, to) => phase' \in [Calls -> Phases]
  BY <1>a DEF Goes
<1>f. {"idle", "loading", "acquiring", "login", "onwire", "answered",
       "failed", "rejected", "backoff", "saving"} \subseteq Phases
  BY DEF Phases
<1>g. \A c \in Calls, state \in Circuit :
        saving' = [saving EXCEPT ![c] = state] => saving' \in [Calls -> Circuit]
  BY <1>a
<1>1. CASE UNCHANGED vars
  BY <1>1, <1>a, <1>b, <1>d DEF vars, breaker, session
<1>2. ASSUME NEW c \in Calls, Enter(c) PROVE TypeOK'
  <2>1. circuit' \in Circuit /\ line' \in Seq(Requests) /\ phase' \in [Calls -> Phases]
    BY <1>2, <1>a, <1>f, CheckTypes DEF Enter, Goes, ThrottleTypeOK
  <2>2. tries' \in [Calls -> 0..MaxRetries]
    BY <1>2, <1>a, ConstantTypes DEF Enter
  <2>3. ThrottleTypeOK'
    BY <1>2, <1>a, <2>1 DEF Enter, ThrottleTypeOK
  <2> QED BY <1>2, <1>a, <1>b, <2>1, <2>2, <2>3 DEF Enter, session
<1>3. ASSUME NEW c \in Calls, Load(c) PROVE TypeOK'
  <2>1. circuit' \in Circuit /\ line' \in Seq(Requests) /\ phase' \in [Calls -> Phases]
    BY <1>3, <1>a, <1>f, CheckTypes DEF Load
  <2>2. ThrottleTypeOK'
    BY <1>3, <1>a, <2>1 DEF Load, ThrottleTypeOK
  <2> QED BY <1>3, <1>a, <1>b, <2>1, <2>2 DEF Load, session
<1>4. ASSUME NEW c \in Calls, Send(c) PROVE TypeOK'
  <2>1. line' \in Seq(Requests)
    BY <1>4, <1>a, JoinTypes, ConstantTypes DEF Send, ThrottleTypeOK
  <2>2. ThrottleTypeOK'
    BY <1>4, <1>a, <2>1 DEF Send, ThrottleTypeOK
  <2>3. phase' \in [Calls -> Phases] /\ loggingIn' \in BOOLEAN
    BY <1>4, <1>a, <1>e, <1>f DEF Send
  <2> QED BY <1>4, <1>a, <1>b, <2>2, <2>3 DEF Send, breaker
<1>5. ASSUME LoginEnds PROVE TypeOK'
  <2>1. ThrottleTypeOK'
    BY <1>5, <1>a, ReleaseTypes DEF LoginEnds, ThrottleTypeOK
  <2>2. phase' \in [Calls -> Phases]
    BY <1>5, <1>a, <1>f DEF LoginEnds
  <2> QED BY <1>5, <1>a, <1>b, <2>1, <2>2 DEF LoginEnds, breaker
<1>6. ASSUME NEW c \in Calls, RateLimited(c) PROVE TypeOK'
  <2>1. ThrottleTypeOK'
    BY <1>6, <1>a, ReleaseTypes, PenaliseTypes DEF RateLimited, ThrottleTypeOK
  <2> QED BY <1>6, <1>a, <1>b, <1>e, <1>f, <2>1 DEF RateLimited, breaker, session
<1>7. ASSUME NEW c \in Calls, Answer(c) PROVE TypeOK'
  <2>1. 1 \in 1..LongestWait
    BY ConstantTypes
  <2>2. ThrottleTypeOK'
    BY <1>7, <1>a, <2>1, PenaliseTypes DEF Answer, ThrottleTypeOK
  <2> QED BY <1>7, <1>a, <1>b, <1>e, <1>f, <2>2 DEF Answer, breaker, session
<1>8. ASSUME NEW c \in Calls, FetchFails(c) PROVE TypeOK'
  BY <1>8, <1>a, <1>b, <1>d, <1>e, <1>f DEF FetchFails, breaker, session
<1>9. ASSUME NEW c \in Calls, RecordSuccess(c) PROVE TypeOK'
  <2>1. ThrottleTypeOK'
    BY <1>9, <1>a, ReleaseTypes DEF RecordSuccess, ThrottleTypeOK
  <2>2. saving' \in [Calls -> Circuit] /\ phase' \in [Calls -> Phases]
    BY <1>9, <1>a, <1>e, <1>f, <1>g, ClosedIsCircuit DEF RecordSuccess
  <2> QED BY <1>9, <1>a, <1>b, <2>1, <2>2, ClosedIsCircuit DEF RecordSuccess, session
<1>10. ASSUME NEW c \in Calls, RecordFailure(c) PROVE TypeOK'
  <2>1. saving' \in [Calls -> Circuit] /\ phase' \in [Calls -> Phases]
    BY <1>10, <1>a, <1>e, <1>f, <1>g, AfterFailureIsCircuit DEF RecordFailure
  <2> QED BY <1>10, <1>a, <1>b, <1>d, <2>1, AfterFailureIsCircuit DEF RecordFailure, session
<1>11. ASSUME NEW c \in Calls, SaveEnds(c) PROVE TypeOK'
  <2>1. ThrottleTypeOK'
    BY <1>11, <1>a, ReleaseTypes DEF SaveEnds, ThrottleTypeOK
  <2>2. saving' \in [Calls -> Circuit] /\ phase' \in [Calls -> Phases] /\ stored' \in Circuit
    BY <1>11, <1>a, <1>e, <1>f, <1>g, ClosedIsCircuit DEF SaveEnds
  <2> QED BY <1>11, <1>a, <1>b, <2>1, <2>2 DEF SaveEnds, session
<1>12. ASSUME NEW c \in Calls, BackOff(c) PROVE TypeOK'
  <2>1. tries[c] + 1 \in 0..MaxRetries
    BY <1>12, <1>a, ConstantTypes DEF BackOff
  <2>2. tries' \in [Calls -> 0..MaxRetries]
    BY <1>12, <1>a, <2>1 DEF BackOff
  <2> QED BY <1>12, <1>a, <1>b, <1>d, <1>e, <1>f, <2>2 DEF BackOff, breaker, session
<1>13. ASSUME NEW c \in Calls, Retry(c) PROVE TypeOK'
  <2>1. ThrottleTypeOK'
    BY <1>13, <1>a, <1>c, ReleaseTypes, JoinTypes DEF Retry, ThrottleTypeOK
  <2> QED BY <1>13, <1>a, <1>b, <1>e, <1>f, <2>1 DEF Retry, breaker, session
<1>14. ASSUME Tick PROVE TypeOK'
  <2>1. ThrottleTypeOK'
    BY <1>14, <1>a, RefillTypes DEF Tick, ThrottleTypeOK
  <2>2. circuit' \in Circuit /\ stored' \in Circuit
    BY <1>14, <1>a, TickedIsCircuit DEF Tick
  <2>3. saving' \in [Calls -> Circuit]
    BY <1>14, <1>a, TickedIsCircuit DEF Tick
  <2> QED BY <1>14, <1>a, <1>b, <2>1, <2>2, <2>3 DEF Tick, session
<1>15. CASE Flip \/ SessionLapses \/ ResetCircuit
  BY <1>15, <1>a, <1>b, <1>d, ClosedIsCircuit
     DEF Flip, SessionLapses, ResetCircuit, breaker, session
<1>16. CASE Restart
  <2>1. ThrottleTypeOK'
    <3>1. <<>> \in Seq(Requests)
      OBVIOUS
    <3> QED BY <1>16, <3>1, ConstantTypes DEF Restart, ThrottleTypeOK
  <2>2. /\ phase' \in [Calls -> Phases] /\ tries' \in [Calls -> 0..MaxRetries]
        /\ saving' \in [Calls -> Circuit] /\ circuit' \in Circuit
    BY <1>16, <1>f, ClosedIsCircuit, ConstantTypes DEF Restart
  <2> QED BY <1>16, <1>a, <1>b, <2>1, <2>2 DEF Restart
<1>17. CASE Admit
  BY <1>17, <1>a, <1>b, TakeTokenTypes DEF Admit, breaker, session
<1> QED
  BY <1>1, <1>2, <1>3, <1>4, <1>5, <1>6, <1>7, <1>8, <1>9, <1>10, <1>11, <1>12, <1>13,
     <1>14, <1>15, <1>16, <1>17 DEF Next, CallStep

LEMMA TypeInit == Init => TypeOK
<1> SUFFICES ASSUME Init PROVE TypeOK
  OBVIOUS
<1>1. ThrottleTypeOK
  <2>1. <<>> \in Seq(Requests)
    OBVIOUS
  <2> QED BY <2>1, ConstantTypes DEF Init, ThrottleInit, ThrottleTypeOK
<1>2. tries \in [Calls -> 0..MaxRetries]
  BY ConstantTypes DEF Init
<1>3. circuit \in Circuit /\ stored \in Circuit /\ saving \in [Calls -> Circuit]
  BY ClosedIsCircuit DEF Init
<1> QED BY <1>1, <1>2, <1>3 DEF Init, TypeOK

(* Every variable of the client keeps its type: the time an openUntil has   *)
(* left and a penalty never exceed what was set, retries never their bound. *)
THEOREM ClientTypes == Spec => []TypeOK
BY TypeInit, TypeStep, PTL DEF Spec

-----------------------------------------------------------------------------
(* The throttle keeps its own books: requests under way are in the queue,   *)
(* waiting for a slot or holding one, never in two of these places or twice *)
(* in one, and nobody waits while a slot is free.                           *)
Everyone == holders \cup Members(waiting) \cup Members(line)

SlotBooks == /\ IsFiniteSet(holders) /\ Cardinality(holders) <= Limit
             /\ waiting # <<>> => Cardinality(holders) = Limit
             /\ Distinct(waiting) /\ Members(waiting) \cap holders = {}

Books == /\ SlotBooks
         /\ Distinct(line)
         /\ Members(line) \cap (holders \cup Members(waiting)) = {}

LEMMA JoinBooks ==
  ASSUME ThrottleTypeOK, Books, NEW r \in Requests, r \notin Everyone,
         JoinLine(r), UNCHANGED <<holders, waiting>>
  PROVE  Books' /\ Everyone' = Everyone \cup {r}
<1>1. Members(line') = Members(line) \cup {r} /\ Distinct(line')
  BY AppendMember DEF ThrottleTypeOK, JoinLine, Books, Everyone
<1> QED BY <1>1 DEF Books, SlotBooks, Everyone

(* A released slot goes to the first waiter, or becomes free when no one    *)
(* waits.                                                                   *)
LEMMA ReleaseBooks ==
  ASSUME ThrottleTypeOK, SlotBooks, NEW r \in holders, Release(r)
  PROVE  /\ SlotBooks'
         /\ holders' \cup Members(waiting') = (holders \cup Members(waiting)) \ {r}
         /\ holders \ {r} \subseteq holders'
<1>1. /\ IsFiniteSet(holders \ {r})
      /\ Cardinality(holders \ {r}) = Cardinality(holders) - 1
      /\ Cardinality(holders) \in Nat
  BY FS_RemoveElement, FS_CardinalityType DEF SlotBooks
<1>2. CASE waiting = <<>>
  <2>1. holders' = holders \ {r} /\ waiting' = <<>> /\ Members(waiting) = {}
    BY <1>2, EmptyQueue DEF Release
  <2>2. Cardinality(holders') <= Limit
    BY <1>1, <2>1, ConstantTypes DEF SlotBooks
  <2> QED BY <1>1, <1>2, <2>1, <2>2, EmptyQueue DEF SlotBooks
<1>3. CASE waiting # <<>>
  <2> DEFINE h == Head(waiting)
  <2>1. /\ Members(waiting) = Members(Tail(waiting)) \cup {h}
        /\ Distinct(Tail(waiting)) /\ h \notin Members(Tail(waiting))
    BY <1>3, HeadLeaves DEF ThrottleTypeOK, SlotBooks
  <2>2. holders' = (holders \ {r}) \cup {h} /\ waiting' = Tail(waiting)
    BY <1>3 DEF Release
  <2>3. h \notin holders
    BY <2>1 DEF SlotBooks
  <2> HIDE DEF h
  <2>4. IsFiniteSet(holders') /\ Cardinality(holders') = Cardinality(holders)
    <3>1. h \notin holders \ {r}
      BY <2>3
    <3>2. /\ IsFiniteSet(holders')
          /\ Cardinality(holders') = Cardinality(holders \ {r}) + 1
      BY <1>1, <2>2, <3>1, FS_AddElement
    <3> QED BY <1>1, <3>2
  <2>5. Cardinality(holders) = Limit
    BY <1>3 DEF SlotBooks
  <2>6. SlotBooks'
    BY <2>1, <2>2, <2>3, <2>4, <2>5, ConstantTypes DEF SlotBooks
  <2> QED BY <2>1, <2>2, <2>3, <2>6 DEF SlotBooks
<1> QED BY <1>2, <1>3

LEMMA LeaveBooks ==
  ASSUME ThrottleTypeOK, Books, NEW r \in holders, Release(r), UNCHANGED line
  PROVE  Books' /\ Everyone' = Everyone \ {r} /\ holders \ {r} \subseteq holders'
<1>1. /\ SlotBooks'
      /\ holders' \cup Members(waiting') = (holders \cup Members(waiting)) \ {r}
      /\ holders \ {r} \subseteq holders'
  BY ReleaseBooks DEF Books
<1> QED BY <1>1 DEF Books, Everyone

(* A retry gives its slot back and joins the queue again.                   *)
LEMMA RejoinBooks ==
  ASSUME ThrottleTypeOK, Books, NEW r \in holders, Release(r), JoinLine(r)
  PROVE  Books' /\ Everyone' = Everyone /\ holders \ {r} \subseteq holders'
<1>1. /\ SlotBooks'
      /\ holders' \cup Members(waiting') = (holders \cup Members(waiting)) \ {r}
      /\ holders \ {r} \subseteq holders'
  BY ReleaseBooks DEF Books
<1>2. r \in Requests /\ r \notin Members(line)
  BY DEF ThrottleTypeOK, Books
<1>3. Members(line') = Members(line) \cup {r} /\ Distinct(line')
  BY <1>2, AppendMember DEF ThrottleTypeOK, JoinLine, Books
<1> QED BY <1>1, <1>2, <1>3 DEF Books, SlotBooks, Everyone

LEMMA TakeTokenBooks ==
  ASSUME ThrottleTypeOK, Books, TakeToken
  PROVE  Books' /\ Everyone' = Everyone /\ holders \subseteq holders'
<1> DEFINE h == Head(line)
<1>1. /\ h \in Requests /\ Members(line) = Members(Tail(line)) \cup {h}
      /\ Distinct(Tail(line)) /\ h \notin Members(Tail(line))
  BY HeadLeaves DEF ThrottleTypeOK, Books, TakeToken
<1>2. h \notin holders /\ h \notin Members(waiting)
  BY <1>1 DEF Books
<1>3. Cardinality(holders) \in Nat /\ line' = Tail(line)
  BY FS_CardinalityType DEF Books, SlotBooks, TakeToken
<1>4. CASE Cardinality(holders) < Limit
  <2>1. holders' = holders \cup {h} /\ waiting' = waiting /\ waiting = <<>>
    BY <1>3, <1>4, ConstantTypes DEF TakeToken, Books, SlotBooks
  <2> HIDE DEF h
  <2>2. IsFiniteSet(holders') /\ Cardinality(holders') = Cardinality(holders) + 1
    BY <1>2, <2>1, FS_AddElement DEF Books, SlotBooks
  <2>3. SlotBooks'
    BY <1>2, <1>3, <1>4, <2>1, <2>2, EmptyQueue, ConstantTypes DEF Books, SlotBooks
  <2> QED BY <1>1, <1>2, <1>3, <2>1, <2>3 DEF Books, Everyone
<1>5. CASE ~(Cardinality(holders) < Limit)
  <2>1. holders' = holders /\ waiting' = Append(waiting, h)
    BY <1>5 DEF TakeToken
  <2>2. Cardinality(holders) = Limit
    BY <1>3, <1>5, ConstantTypes DEF Books, SlotBooks
  <2>3. Members(waiting') = Members(waiting) \cup {h} /\ Distinct(waiting')
    BY <1>1, <1>2, <2>1, AppendMember DEF ThrottleTypeOK, Books, SlotBooks
  <2> HIDE DEF h
  <2>4. SlotBooks'
    BY <1>2, <2>1, <2>2, <2>3 DEF Books, SlotBooks
  <2> QED BY <1>1, <1>2, <1>3, <2>1, <2>3, <2>4 DEF Books, Everyone
<1> QED BY <1>4, <1>5

(* The client's side of the books: a call is known to the throttle from     *)
(* the moment it asks for a slot until its attempt has ended, and holds one *)
(* from the moment it stops waiting; so does the login.                     *)
Asked == InFlight \cup (IF loggingIn THEN {Login} ELSE {})

ClientBooks == /\ Everyone = Asked
               /\ \A c \in InFlight : phase[c] # "acquiring" => c \in holders

SlotInv == Books /\ ClientBooks

LEMMA CheckBooks ==
  ASSUME TypeOK, SlotInv, NEW c \in Calls, c \notin InFlight, NEW state, Check(c, state),
         UNCHANGED <<holders, waiting, loggingIn>>
  PROVE  SlotInv'
<1>1. phase \in [Calls -> Phases] /\ ThrottleTypeOK
  BY DEF TypeOK, Phases
<1>2. CASE Open(state)
  <2>1. InFlight' = InFlight /\ \A d \in InFlight : phase'[d] = phase[d]
    BY <1>1, <1>2 DEF Check, Goes, InFlight
  <2> QED BY <1>2, <2>1 DEF Check, SlotInv, Books, SlotBooks, ClientBooks, Everyone, Asked
<1>3. CASE ~Open(state)
  <2>1. c \in Requests /\ c \notin Everyone
    BY ConstantTypes DEF SlotInv, ClientBooks, Asked
  <2>2. Books' /\ Everyone' = Everyone \cup {c}
    BY <1>1, <1>3, <2>1, JoinBooks DEF Check, SlotInv
  <2>3. /\ InFlight' = InFlight \cup {c} /\ phase'[c] = "acquiring"
        /\ \A d \in InFlight : phase'[d] = phase[d]
    BY <1>1, <1>3 DEF Check, Goes, InFlight
  <2> QED BY <2>2, <2>3 DEF SlotInv, ClientBooks, Asked
<1> QED BY <1>2, <1>3

(* A call whose attempt ends gives its slot back.                           *)
LEMMA EndBooks ==
  ASSUME TypeOK, SlotInv, NEW c \in InFlight, phase[c] # "acquiring",
         Release(c), Goes(c, "idle"), UNCHANGED <<line, loggingIn>>
  PROVE  SlotInv'
<1>1. phase \in [Calls -> Phases] /\ ThrottleTypeOK /\ c \in Calls /\ c # Login
  BY ConstantTypes DEF TypeOK, Phases, InFlight
<1>2. c \in holders
  BY DEF SlotInv, ClientBooks
<1>3. Books' /\ Everyone' = Everyone \ {c} /\ holders \ {c} \subseteq holders'
  BY <1>1, <1>2, LeaveBooks DEF SlotInv
<1>4. InFlight' = InFlight \ {c} /\ \A d \in InFlight' : phase'[d] = phase[d]
  BY <1>1 DEF Goes, InFlight
<1> QED BY <1>1, <1>3, <1>4 DEF SlotInv, ClientBooks, Asked

(* A call that only moves on, slot in hand.                                 *)
LEMMA MoveBooks ==
  ASSUME TypeOK, SlotInv, NEW c \in InFlight, phase[c] # "acquiring" \/ c \in holders,
         NEW to \in Phases, to \notin {"idle", "loading"}, Goes(c, to),
         UNCHANGED <<line, holders, waiting, loggingIn>>
  PROVE  SlotInv'
<1>1. phase \in [Calls -> Phases] /\ c \in Calls
  BY DEF TypeOK, Phases, InFlight
<1>2. InFlight' = InFlight /\ \A d \in InFlight : d # c => phase'[d] = phase[d]
  BY <1>1 DEF Goes, InFlight
<1>3. c \in holders
  BY DEF SlotInv, ClientBooks
<1> QED BY <1>2, <1>3 DEF SlotInv, Books, SlotBooks, ClientBooks, Everyone, Asked

(* A step that leaves the throttle's queues and the phases alone.           *)
LEMMA IdleBooks ==
  ASSUME SlotInv, UNCHANGED <<line, holders, waiting, phase, loggingIn>>
  PROVE  SlotInv'
BY DEF SlotInv, Books, SlotBooks, ClientBooks, Everyone, Asked, InFlight

LEMMA SlotStep == TypeOK /\ SlotInv /\ [Next]_vars => SlotInv'
<1> SUFFICES ASSUME TypeOK, SlotInv, [Next]_vars PROVE SlotInv'
  OBVIOUS
<1>a. phase \in [Calls -> Phases] /\ ThrottleTypeOK
  BY DEF TypeOK, Phases
<1>b. \A c \in Calls : phase[c] \notin {"idle", "loading"} => c \in InFlight
  BY DEF InFlight
<1>1. CASE UNCHANGED vars
  BY <1>1, IdleBooks DEF vars, throttle, session
<1>2. ASSUME NEW c \in Calls, Enter(c) PROVE SlotInv'
  <2>1. CASE loaded /\ Check(c, circuit)
    BY <1>2, <2>1, CheckBooks DEF Enter, InFlight, session
  <2>2. CASE Goes(c, "loading") /\ UNCHANGED line
    <3>1. InFlight' = InFlight /\ \A d \in InFlight : phase'[d] = phase[d]
      BY <1>2, <1>a, <2>2 DEF Enter, Goes, InFlight
    <3> QED BY <1>2, <2>2, <3>1
            DEF Enter, session, SlotInv, Books, SlotBooks, ClientBooks, Everyone, Asked
  <2> QED BY <1>2, <2>1, <2>2 DEF Enter
<1>3. ASSUME NEW c \in Calls, Load(c) PROVE SlotInv'
  BY <1>3, CheckBooks DEF Load, InFlight, session
<1>4. ASSUME NEW c \in Calls, Send(c) PROVE SlotInv'
  <2>1. c \in InFlight /\ c \in holders
    BY <1>4, <1>b DEF Send
  <2>2. CASE UNCHANGED <<line, loggingIn>>
    BY <1>4, <2>1, <2>2, MoveBooks DEF Send, Phases
  <2>3. CASE ~loggingIn /\ JoinLine(Login) /\ loggingIn' = TRUE /\ Goes(c, "login")
    <3>1. Login \in Requests /\ Login \notin Everyone
      BY <2>3, ConstantTypes DEF SlotInv, ClientBooks, Asked, InFlight
    <3>2. Books' /\ Everyone' = Everyone \cup {Login}
      BY <1>4, <1>a, <2>3, <3>1, JoinBooks DEF Send, SlotInv
    <3>3. InFlight' = InFlight /\ \A d \in InFlight : d # c => phase'[d] = phase[d]
      BY <1>a, <2>1, <2>3 DEF Goes, InFlight
    <3>4. holders' = holders
      BY <1>4 DEF Send
    <3> QED BY <2>1, <2>3, <3>2, <3>3, <3>4 DEF SlotInv, ClientBooks, Asked
  <2>4. CASE loggingIn /\ UNCHANGED line /\ loggingIn' = TRUE /\ Goes(c, "login")
    <3>1. loggingIn' = loggingIn
      BY <2>4 DEF TypeOK
    <3> QED BY <1>4, <2>1, <2>4, <3>1, MoveBooks DEF Send, Phases
  <2> QED BY <1>4, <2>2, <2>3, <2>4 DEF Send
<1>5. CASE LoginEnds
  <2>1. Books' /\ Everyone' = Everyone \ {Login} /\ holders \ {Login} \subseteq holders'
    BY <1>5, <1>a, LeaveBooks DEF LoginEnds, SlotInv
  <2>2. \A c \in Calls : /\ phase[c] # "login" => phase'[c] = phase[c]
                         /\ phase[c] = "login" => phase'[c] \in {"failed", "onwire"}
    BY <1>5 DEF LoginEnds
  <2>3. InFlight' = InFlight
    BY <2>2 DEF InFlight
  <2>4. Login \notin InFlight /\ loggingIn /\ ~loggingIn'
    BY <1>5, ConstantTypes DEF InFlight, LoginEnds
  <2>5. \A c \in InFlight : phase'[c] # "acquiring" => c \in holders'
    BY <2>1, <2>2, <2>4 DEF InFlight, SlotInv, ClientBooks
  <2> QED BY <2>1, <2>3, <2>4, <2>5 DEF SlotInv, ClientBooks, Asked
<1>6. ASSUME NEW c \in Calls, RateLimited(c) PROVE SlotInv'
  BY <1>6, <1>b, EndBooks DEF RateLimited, session
<1>7. ASSUME NEW c \in Calls, Answer(c) PROVE SlotInv'
  BY <1>7, <1>b, MoveBooks DEF Answer, Phases, session
<1>8. ASSUME NEW c \in Calls, FetchFails(c) PROVE SlotInv'
  BY <1>8, <1>b, MoveBooks DEF FetchFails, Phases, session, throttle
<1>9. ASSUME NEW c \in Calls, RecordSuccess(c) PROVE SlotInv'
  BY <1>9, <1>b, EndBooks, MoveBooks DEF RecordSuccess, Phases, session
<1>10. ASSUME NEW c \in Calls, RecordFailure(c) PROVE SlotInv'
  <2>1. c \in InFlight /\ phase[c] # "acquiring"
    BY <1>10, <1>b DEF RecordFailure
  <2> QED BY <1>10, <2>1, MoveBooks DEF RecordFailure, Phases, session, throttle
<1>11. ASSUME NEW c \in Calls, SaveEnds(c) PROVE SlotInv'
  BY <1>11, <1>b, EndBooks DEF SaveEnds, session
<1>12. ASSUME NEW c \in Calls, BackOff(c) PROVE SlotInv'
  BY <1>12, <1>b, MoveBooks DEF BackOff, Phases, session, throttle
<1>13. ASSUME NEW c \in Calls, Retry(c) PROVE SlotInv'
  <2>1. c \in InFlight /\ c \in holders
    BY <1>13, <1>b DEF Retry, SlotInv, ClientBooks
  <2>2. Books' /\ Everyone' = Everyone /\ holders \ {c} \subseteq holders'
    BY <1>13, <1>a, <2>1, RejoinBooks DEF Retry, SlotInv
  <2>3. /\ InFlight' = InFlight /\ phase'[c] = "acquiring"
        /\ \A d \in InFlight : d # c => phase'[d] = phase[d]
    BY <1>13, <1>a, <2>1 DEF Retry, Goes, InFlight
  <2> QED BY <1>13, <2>2, <2>3 DEF Retry, session, SlotInv, ClientBooks, Asked
<1>14. CASE Tick
  BY <1>14, IdleBooks DEF Tick, session
<1>15. CASE Flip \/ SessionLapses \/ ResetCircuit
  BY <1>15, IdleBooks DEF Flip, SessionLapses, ResetCircuit, throttle, session
<1>16. CASE Restart
  <2>1. /\ line' = <<>> /\ holders' = {} /\ waiting' = <<>> /\ ~loggingIn'
        /\ \A c \in Calls : phase'[c] = "idle"
    BY <1>16 DEF Restart
  <2>2. InFlight' = {}
    BY <2>1 DEF InFlight
  <2>3. Books'
    BY <2>1, EmptyQueue, FS_EmptySet, ConstantTypes DEF Books, SlotBooks
  <2> QED BY <2>1, <2>2, <2>3, EmptyQueue DEF SlotInv, ClientBooks, Everyone, Asked
<1>17. CASE Admit
  <2>1. Books' /\ Everyone' = Everyone /\ holders \subseteq holders'
    BY <1>17, <1>a, TakeTokenBooks DEF Admit, SlotInv
  <2> QED BY <1>17, <2>1 DEF Admit, session, SlotInv, ClientBooks, Asked, InFlight
<1> QED
  BY <1>1, <1>2, <1>3, <1>4, <1>5, <1>6, <1>7, <1>8, <1>9, <1>10, <1>11, <1>12, <1>13,
     <1>14, <1>15, <1>16, <1>17 DEF Next, CallStep

LEMMA SlotInit == Init => SlotInv
<1> SUFFICES ASSUME Init PROVE SlotInv
  OBVIOUS
<1>1. InFlight = {} /\ ~loggingIn
  BY DEF Init, InFlight
<1>2. Books /\ Everyone = {}
  BY EmptyQueue, FS_EmptySet, ConstantTypes
     DEF Init, ThrottleInit, Books, SlotBooks, Everyone
<1> QED BY <1>1, <1>2 DEF SlotInv, ClientBooks, Asked

LEMMA SlotInvariance == Spec => [](TypeOK /\ SlotInv)
BY TypeInit, TypeStep, SlotInit, SlotStep, PTL DEF Spec

(* However an attempt ends - answered, failed, retried, rate limited, login *)
(* failed, process restarted - the throttle holds exactly the requests      *)
(* under way: no slot is lost or taken twice, and none idles while someone  *)
(* waits.                                                                   *)
THEOREM SlotsAreAccountedFor == Spec => []SlotsAccountedFor
<1>1. SlotInv => SlotsAccountedFor
  BY DEF SlotInv, Books, SlotBooks, ClientBooks, Everyone, Asked, SlotsAccountedFor
<1> QED BY <1>1, SlotInvariance, PTL

-----------------------------------------------------------------------------
(* While a penalty is in force, whoever has a token it has not used had it  *)
(* when the penalty was imposed: the bucket gives out no other.             *)
PenaltyInv == penalty > 0 => Unspent \subseteq licensed

TokenHolders == holders \cup Members(waiting)

(* Giving a slot back gives nobody a token.                                 *)
LEMMA ReleaseGivesNoToken ==
  ASSUME ThrottleTypeOK, NEW r, Release(r)
  PROVE  TokenHolders' \subseteq TokenHolders /\ Members(waiting') \subseteq Members(waiting)
<1>1. CASE waiting = <<>>
  BY <1>1 DEF Release, TokenHolders
<1>2. CASE waiting # <<>>
  <2>1. Members(waiting) = Members(Tail(waiting)) \cup {Head(waiting)}
    BY <1>2, HeadLeaves DEF ThrottleTypeOK
  <2> QED BY <1>2, <2>1 DEF Release, TokenHolders
<1> QED BY <1>1, <1>2

(* Nor does any other step while a penalty lasts.                           *)
LEMMA NoTokenGiven ==
  ASSUME TypeOK, [Next]_vars, penalty > 0
  PROVE  TokenHolders' \subseteq TokenHolders /\ Members(waiting') \subseteq Members(waiting)
<1>a. ThrottleTypeOK
  BY DEF TypeOK
<1>1. CASE UNCHANGED <<holders, waiting>>
  BY <1>1 DEF TokenHolders
<1>2. ASSUME NEW r, Release(r)
      PROVE  /\ TokenHolders' \subseteq TokenHolders
             /\ Members(waiting') \subseteq Members(waiting)
  BY <1>2, <1>a, ReleaseGivesNoToken
<1>3. CASE Restart
  BY <1>3, EmptyQueue DEF Restart, TokenHolders
<1>4. CASE \E c \in Calls : CallStep(c)
  BY <1>1, <1>2, <1>4 DEF CallStep, Load, Send, RateLimited, Answer, FetchFails,
     RecordSuccess, RecordFailure, SaveEnds, BackOff, Retry, throttle
<1>5. ~Admit
  BY DEF Admit, TakeToken
<1>6. CASE UNCHANGED vars
  BY <1>1, <1>6 DEF vars, throttle
<1>7. CASE \/ LoginEnds \/ Tick \/ Flip \/ SessionLapses \/ ResetCircuit
           \/ \E c \in Calls : Enter(c)
  BY <1>1, <1>2, <1>7
     DEF LoginEnds, Tick, Flip, SessionLapses, ResetCircuit, Enter, throttle
<1> QED BY <1>3, <1>4, <1>5, <1>6, <1>7 DEF Next

(* A call that takes up its next attempt queues for a token of its own.     *)
LEMMA NewAttemptsQueue ==
  ASSUME TypeOK, SlotInv, [Next]_vars, NEW c \in Calls, c \in TokenHolders',
         phase'[c] \in {"acquiring", "login"}
  PROVE  phase[c] \in {"acquiring", "login"}
<1>1. phase \in [Calls -> Phases] /\ ThrottleTypeOK /\ c # Login
  BY ConstantTypes DEF TypeOK, Phases
<1>2. SlotInv'
  BY SlotStep
<1>3. c \notin Members(line')
  BY <1>2 DEF SlotInv, Books, TokenHolders
<1>4. CASE phase'[c] = phase[c]
  BY <1>4
<1>5. \A to : \A d \in Calls : Goes(d, to) /\ d # c => phase'[c] = phase[c]
  BY <1>1 DEF Goes
<1>6. \A to : Goes(c, to) => phase'[c] = to
  BY <1>1 DEF Goes
<1>7. ASSUME NEW d \in Calls, Enter(d) \/ CallStep(d), d # c PROVE phase'[c] = phase[c]
  BY <1>5, <1>7 DEF CallStep, Enter, Load, Check, Send, RateLimited, Answer, FetchFails,
       RecordSuccess, RecordFailure, SaveEnds, BackOff, Retry
<1>8. ASSUME JoinLine(c) PROVE FALSE
  BY <1>1, <1>3, <1>8, AppendMember, ConstantTypes DEF JoinLine, ThrottleTypeOK
<1>9. CASE CallStep(c)
  BY <1>6, <1>8, <1>9 DEF CallStep, Load, Check, Send, RateLimited, Answer, FetchFails,
     RecordSuccess, RecordFailure, SaveEnds, BackOff, Retry
<1>10. CASE Enter(c)
  BY <1>6, <1>8, <1>10 DEF Enter, Check
<1>11. CASE LoginEnds
  BY <1>11 DEF LoginEnds
<1>12. CASE Restart
  BY <1>12 DEF Restart
<1>13. CASE Admit \/ Tick \/ Flip \/ SessionLapses \/ ResetCircuit \/ UNCHANGED vars
  BY <1>13 DEF Admit, Tick, Flip, SessionLapses, ResetCircuit, vars
<1> QED BY <1>4, <1>7, <1>9, <1>10, <1>11, <1>12, <1>13 DEF Next

LEMMA PenaltyStep == TypeOK /\ SlotInv /\ PenaltyInv /\ [Next]_vars => PenaltyInv'
<1> SUFFICES ASSUME TypeOK, SlotInv, PenaltyInv, [Next]_vars, ~UNCHANGED vars
             PROVE  PenaltyInv'
  BY DEF PenaltyInv, Unspent, vars, throttle
<1>1. Licence
  BY LicenceStep
<1>2. CASE penalty = 0
  BY <1>1, <1>2 DEF Licence, PenaltyInv
<1>3. CASE penalty > 0
  <2>1. Unspent' \subseteq Unspent
    BY <1>3, NoTokenGiven, NewAttemptsQueue DEF Unspent, TokenHolders
  <2> QED BY <1>1, <1>3, <2>1 DEF Licence, PenaltyInv
<1> QED BY <1>2, <1>3 DEF TypeOK, ThrottleTypeOK

LEMMA PenaltyInit == Init => PenaltyInv
BY DEF Init, ThrottleInit, PenaltyInv

(* Only a token that was not used yet takes a request onto the wire: the    *)
(* callers' through Send or with the login they waited for, the login's     *)
(* when a slot is passed on to it.                                          *)
LEMMA OnlyTokensGoOut ==
  ASSUME TypeOK, SlotInv, [Next]_vars, penalty > 0, NEW r \in Requests, GoesOut(r)
  PROVE  r \in Unspent
<1>1. CASE r = Login
  BY <1>1, NoTokenGiven DEF GoesOut, Unspent, TokenHolders
<1>2. CASE r # Login
  <2>1. r \in Calls /\ phase[r] # "onwire" /\ phase'[r] = "onwire"
    BY <1>2, ClientAssumption DEF GoesOut
  <2>2. phase \in [Calls -> Phases]
    BY DEF TypeOK, Phases
  <2>3. \A to : \A d \in Calls : Goes(d, to) /\ d # r => phase'[r] = phase[r]
    BY <2>1, <2>2 DEF Goes
  <2>4. \A to : Goes(r, to) => phase'[r] = to
    BY <2>1, <2>2 DEF Goes
  <2>5. ASSUME NEW d \in Calls, Enter(d) \/ CallStep(d), d # r PROVE FALSE
    BY <2>1, <2>3, <2>5 DEF CallStep, Enter, Load, Check, Send, RateLimited, Answer,
       FetchFails, RecordSuccess, RecordFailure, SaveEnds, BackOff, Retry
  <2>6. CASE Enter(r) \/ CallStep(r)
    BY <2>1, <2>4, <2>6 DEF CallStep, Enter, Load, Check, Send, RateLimited, Answer,
       FetchFails, RecordSuccess, RecordFailure, SaveEnds, BackOff, Retry, Unspent
  <2>7. CASE LoginEnds
    <3>1. phase[r] = "login"
      BY <2>1, <2>7 DEF LoginEnds
    <3>2. r \in holders
      BY <2>1, <3>1 DEF SlotInv, ClientBooks, InFlight
    <3> QED BY <2>1, <3>1, <3>2 DEF Unspent
  <2>8. ~Restart
    BY <2>1 DEF Restart
  <2>9. ~(Admit \/ Tick \/ Flip \/ SessionLapses \/ ResetCircuit \/ UNCHANGED vars)
    BY <2>1 DEF Admit, Tick, Flip, SessionLapses, ResetCircuit, vars
  <2> QED BY <2>1, <2>5, <2>6, <2>7, <2>8, <2>9 DEF Next
<1> QED BY <1>1, <1>2

(* A Retry-After is honoured by whoever had no unused token when it came,   *)
(* and by those that had one as soon as it is used: the queue, retries, new *)
(* requests, the call that met the 429 and the login wait it out.           *)
THEOREM PenaltyIsHonoured == Spec => PenaltyHonoured
<1> DEFINE LetsOut == \A r \in Requests : GoesOut(r) => penalty = 0 \/ r \in licensed
<1>1. TypeOK /\ SlotInv /\ PenaltyInv /\ [Next]_vars => [LetsOut]_vars
  <2> SUFFICES ASSUME TypeOK, SlotInv, PenaltyInv, [Next]_vars,
                      NEW r \in Requests, GoesOut(r), penalty # 0
               PROVE  r \in licensed
    OBVIOUS
  <2>1. penalty > 0
    BY DEF TypeOK, ThrottleTypeOK
  <2> QED BY <2>1, OnlyTokensGoOut DEF PenaltyInv
<1>2. Spec => [](TypeOK /\ SlotInv /\ PenaltyInv)
  BY TypeInit, TypeStep, SlotInit, SlotStep, PenaltyInit, PenaltyStep, PTL DEF Spec
<1> QED BY <1>1, <1>2, PTL DEF Spec, PenaltyHonoured
=============================================================================
