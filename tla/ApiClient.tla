------------------------------ MODULE ApiClient ------------------------------
(***************************************************************************)
(* One source's API client (http/client.ts): its circuit breaker, kept in  *)
(* memory and mirrored in source_health, its retries, the throttle every   *)
(* attempt goes through, and the cookie session of the Analytics source,   *)
(* whose login goes through the same throttle.                             *)
(*                                                                         *)
(* A call is a caller that uses the client again and again.  An openUntil  *)
(* is kept as the time left; a tick is the throttle's.                     *)
(***************************************************************************)
EXTENDS Throttle

CONSTANTS Calls, Login,
          Cookies,      (* whether headers() has to log in                  *)
          MaxRetries, Threshold, Cooldown,
          Mishaps       (* how many restarts, changes of the upstream's     *)
                        (* health, penalties, lapses and resets, together   *)

ASSUME ClientAssumption ==
  /\ Requests = Calls \cup {Login} /\ Login \notin Calls /\ Cookies \in BOOLEAN
  /\ {Threshold, Cooldown} \subseteq Nat \ {0}
  /\ {MaxRetries, Mishaps} \subseteq Nat

VARIABLES phase, tries,   (* of each call: where it is, retries so far      *)
          circuit, loaded,     (* the breaker in memory                     *)
          stored,              (* its row in source_health                  *)
          saving,              (* of each call: the state it is writing     *)
          loggedIn, loggingIn, (* the session, and the shared login         *)
          sick,                (* the upstream fails every request          *)
          mishaps,             (* what is left of the budget                *)
          licensed             (* history: of those that held a token they  *)
                               (* had not used when the penalty was         *)
                               (* imposed, the ones that still do           *)

breaker == <<circuit, loaded, stored, saving>>
session == <<loggedIn, loggingIn>>
vars    == <<throttle, phase, tries, breaker, session, sick, mishaps, licensed>>

NotOpen == -1
Circuit == [failures : 0..Threshold, until : NotOpen..Cooldown]
Closed  == [failures |-> 0, until |-> NotOpen]
Open(state) == state.until > 0

Init == /\ ThrottleInit
        /\ phase = [c \in Calls |-> "idle"] /\ tries = [c \in Calls |-> 0]
        /\ circuit = Closed /\ loaded = FALSE
        /\ stored = Closed /\ saving = [c \in Calls |-> Closed]
        /\ loggedIn = FALSE /\ loggingIn = FALSE
        /\ sick \in BOOLEAN
        /\ mishaps = Mishaps /\ licensed = {}

Goes(c, to) == phase' = [phase EXCEPT ![c] = to]
Mishap == mishaps > 0 /\ mishaps' = mishaps - 1

(* Who was given a token and has sent nothing for it yet.  The login's own  *)
(* request goes out with its slot, a caller's when it has its session.      *)
Unspent ==
  {c \in Calls : phase[c] \in {"acquiring", "login"} /\ c \in holders \cup Members(waiting)}
    \cup ({Login} \cap Members(waiting))

(* A request's licence to ignore the penalty in force goes with its token.  *)
Licence == licensed' = IF penalty = 0 THEN Unspent' ELSE licensed \cap Unspent'

-----------------------------------------------------------------------------
(* Entering get().                                                          *)

(* Mutant: a call let in starts counting the failures afresh.               *)
CheckForgetting(c, state) ==
  IF Open(state) THEN circuit' = state /\ Goes(c, "idle") /\ UNCHANGED line
  ELSE /\ circuit' = Closed
       /\ Goes(c, "acquiring") /\ JoinLine(c)

(* An open circuit turns the call away.  One whose cooldown is over lets it *)
(* pass, and all that follow, but still counts the failures so far.         *)
Check(c, state) ==
  IF Open(state) THEN circuit' = state /\ Goes(c, "idle") /\ UNCHANGED line
  ELSE /\ circuit' = [state EXCEPT !.until = NotOpen]
       /\ Goes(c, "acquiring") /\ JoinLine(c)

(* ensureCircuitLoaded says loaded before it has awaited the row, so only   *)
(* the first caller waits for it.                                           *)
Enter(c) ==
  /\ phase[c] = "idle"
  /\ tries' = [tries EXCEPT ![c] = 0]
  /\ \/ ~loaded /\ loaded' = TRUE /\ Goes(c, "loading") /\ UNCHANGED <<line, circuit>>
     \/ loaded /\ Check(c, circuit) /\ UNCHANGED loaded
  /\ UNCHANGED <<tokens, penalty, holders, waiting, stored, saving, session,
                 sick, mishaps>>
  /\ Licence

(* The row replaces the state, or the query fails and changes nothing.      *)
Load(c) ==
  /\ phase[c] = "loading"
  /\ \E state \in {stored, circuit} : Check(c, state)
  /\ UNCHANGED <<tokens, penalty, holders, waiting, tries, loaded, stored,
                 saving, session, sick, mishaps>>

-----------------------------------------------------------------------------
(* One attempt, its slot in hand.                                           *)

(* headers(), then fetch.  Whoever needs a session shares the login under   *)
(* way or starts one, which asks the same throttle for a slot of its own.   *)
Send(c) ==
  /\ phase[c] = "acquiring" /\ c \in holders
  /\ IF Cookies => loggedIn
     THEN Goes(c, "onwire") /\ UNCHANGED <<line, loggingIn>>
     ELSE /\ Goes(c, "login") /\ loggingIn' = TRUE
          /\ IF loggingIn THEN UNCHANGED line ELSE JoinLine(Login)
  /\ UNCHANGED <<tokens, penalty, holders, waiting, tries, breaker, loggedIn,
                 sick, mishaps>>

LoginEnds ==
  /\ loggingIn /\ Login \in holders
  /\ Release(Login)
  /\ loggingIn' = FALSE /\ loggedIn' = ~sick
  /\ phase' = [c \in Calls |-> IF phase[c] # "login" THEN phase[c]
                               ELSE IF sick THEN "failed" ELSE "onwire"]
  /\ UNCHANGED <<tokens, penalty, line, tries, breaker, sick, mishaps>>
  /\ Licence

(* A 429 ends the call at once and counts neither way.                      *)
RateLimited(c) ==
  /\ phase[c] = "onwire" /\ Mishap
  /\ \E wait \in 1..LongestWait : Penalise(wait)
  /\ Release(c) /\ Goes(c, "idle")
  /\ UNCHANGED <<tokens, line, tries, breaker, session, sick>>

(* An answer, a tolerated status or a body of the wrong shape; the quota    *)
(* left may be low.                                                         *)
Answer(c) ==
  /\ phase[c] = "onwire" /\ ~sick
  /\ Goes(c, "answered")
  /\ \/ UNCHANGED <<penalty, mishaps>>
     \/ Mishap /\ Penalise(1)
  /\ UNCHANGED <<tokens, line, holders, waiting, tries, breaker, session, sick>>

(* A transient failure, which may be retried, or a final one.               *)
FetchFails(c) ==
  /\ phase[c] = "onwire" /\ sick
  /\ Goes(c, "failed") \/ Goes(c, "rejected")
  /\ UNCHANGED <<throttle, tries, breaker, session, sick, mishaps>>

(* Mutant: the failures are kept unless they have opened the circuit.       *)
RecordSuccessIfOpen(c) ==
  /\ phase[c] = "answered"
  /\ IF circuit.until = NotOpen
     THEN Release(c) /\ Goes(c, "idle") /\ UNCHANGED <<circuit, saving>>
     ELSE /\ circuit' = Closed /\ saving' = [saving EXCEPT ![c] = Closed]
          /\ Goes(c, "saving") /\ UNCHANGED <<holders, waiting>>
  /\ UNCHANGED <<tokens, penalty, line, tries, loaded, stored, session, sick,
                 mishaps>>

(* Once the request is logged, the outcome is counted; a new state is saved *)
(* with the slot still held.                                                *)
RecordSuccess(c) ==
  /\ phase[c] = "answered"
  /\ circuit' = Closed
  /\ IF circuit = Closed THEN Release(c) /\ Goes(c, "idle") /\ UNCHANGED saving
     ELSE /\ saving' = [saving EXCEPT ![c] = Closed]
          /\ Goes(c, "saving") /\ UNCHANGED <<holders, waiting>>
  /\ UNCHANGED <<tokens, penalty, line, tries, loaded, stored, session, sick,
                 mishaps>>

AfterFailure ==
  LET failures == IF circuit.failures < Threshold THEN circuit.failures + 1 ELSE Threshold
  IN [failures |-> failures, until |-> IF failures = Threshold THEN Cooldown ELSE NotOpen]

RecordFailure(c) ==
  /\ phase[c] \in (IF tries[c] < MaxRetries THEN {"rejected"} ELSE {"rejected", "failed"})
  /\ circuit' = AfterFailure
  /\ saving' = [saving EXCEPT ![c] = AfterFailure]
  /\ Goes(c, "saving")
  /\ UNCHANGED <<throttle, tries, loaded, stored, session, sick, mishaps>>

(* The write lands, in whatever order the pool's connections run them, or   *)
(* fails unnoticed.                                                         *)
SaveEnds(c) ==
  /\ phase[c] = "saving"
  /\ stored' \in {saving[c], stored}
  /\ saving' = [saving EXCEPT ![c] = Closed]
  /\ Release(c) /\ Goes(c, "idle")
  /\ UNCHANGED <<tokens, penalty, line, tries, circuit, loaded, session, sick,
                 mishaps>>

(* Mutant: retries are not counted.                                         *)
BackOffUncounted(c) ==
  /\ phase[c] = "failed" /\ tries[c] < MaxRetries
  /\ Goes(c, "backoff")
  /\ UNCHANGED <<throttle, tries, breaker, session, sick, mishaps>>

(* The backoff is slept through with the slot held.                         *)
BackOff(c) ==
  /\ phase[c] = "failed" /\ tries[c] < MaxRetries
  /\ tries' = [tries EXCEPT ![c] = @ + 1]
  /\ Goes(c, "backoff")
  /\ UNCHANGED <<throttle, breaker, session, sick, mishaps>>

(* Mutant: the attempt does not give its slot back before the next.         *)
RetryHoldingOn(c) ==
  /\ phase[c] = "backoff"
  /\ JoinLine(c) /\ Goes(c, "acquiring")
  /\ UNCHANGED <<tokens, penalty, holders, waiting, tries, breaker, session,
                 sick, mishaps>>

Retry(c) ==
  /\ phase[c] = "backoff"
  /\ Release(c) /\ JoinLine(c) /\ Goes(c, "acquiring")
  /\ UNCHANGED <<tokens, penalty, tries, breaker, session, sick, mishaps>>

-----------------------------------------------------------------------------
(* Around the client.                                                       *)
OneTick(state) == [state EXCEPT !.until = IF @ > 0 THEN @ - 1 ELSE @]

Tick ==
  /\ Refill
  /\ circuit' = OneTick(circuit) /\ stored' = OneTick(stored)
  /\ saving' = [c \in Calls |-> OneTick(saving[c])]
  /\ UNCHANGED <<line, holders, waiting, phase, tries, loaded, session, sick,
                 mishaps>>
  /\ Licence

Flip == /\ Mishap /\ sick' = ~sick
        /\ UNCHANGED <<throttle, phase, tries, breaker, session>>
        /\ Licence

SessionLapses == /\ Mishap /\ loggedIn /\ loggedIn' = FALSE
                 /\ UNCHANGED <<throttle, phase, tries, breaker, loggingIn, sick>>
                 /\ Licence

(* The operator's resetCircuit reaches the row only.                        *)
ResetCircuit == /\ Mishap /\ stored' = Closed
                /\ UNCHANGED <<throttle, phase, tries, circuit, loaded, saving, session, sick>>
                /\ Licence

(* The process ends and another starts.                                     *)
Restart ==
  /\ Mishap
  /\ tokens' = Capacity /\ penalty' = 0 /\ line' = <<>>
  /\ holders' = {} /\ waiting' = <<>>
  /\ phase' = [c \in Calls |-> "idle"] /\ tries' = [c \in Calls |-> 0]
  /\ circuit' = Closed /\ loaded' = FALSE /\ saving' = [c \in Calls |-> Closed]
  /\ loggedIn' = FALSE /\ loggingIn' = FALSE
  /\ UNCHANGED <<stored, sick>>
  /\ Licence

(* The next request in the bucket's queue gets its token.                   *)
Admit == /\ TakeToken
         /\ UNCHANGED <<phase, tries, breaker, session, sick, mishaps>>
         /\ Licence

CallStep(c) == /\ \/ Load(c) \/ Send(c)
                  \/ RateLimited(c) \/ Answer(c) \/ FetchFails(c)
                  \/ RecordSuccess(c) \/ RecordFailure(c) \/ SaveEnds(c)
                  \/ BackOff(c) \/ Retry(c)
               /\ Licence

Next == \/ \E c \in Calls : Enter(c) \/ CallStep(c)
        \/ Admit \/ LoginEnds \/ Tick
        \/ Flip \/ SessionLapses \/ ResetCircuit \/ Restart

Spec == Init /\ [][Next]_vars

(* Fetches time out, queries end, timers fire, and there is always more to  *)
(* ask of a source.                                                         *)
Fairness == /\ \A c \in Calls : WF_vars(Enter(c)) /\ WF_vars(CallStep(c))
            /\ WF_vars(Admit) /\ WF_vars(LoginEnds) /\ WF_vars(Tick)

FairSpec == Spec /\ Fairness

-----------------------------------------------------------------------------
(* Time left is never negative and never more than was set.                 *)
TypeOK ==
  /\ ThrottleTypeOK
  /\ phase \in [Calls -> {"idle", "loading", "acquiring", "login", "onwire", "answered",
                          "failed", "rejected", "backoff", "saving"}]
  /\ tries \in [Calls -> 0..MaxRetries]
  /\ {circuit, stored} \subseteq Circuit /\ saving \in [Calls -> Circuit]
  /\ {loaded, loggedIn, loggingIn, sick} \subseteq BOOLEAN
  /\ licensed \subseteq Requests

InFlight == {c \in Calls : phase[c] \notin {"idle", "loading"}}

(* Whatever way an attempt ends, the throttle holds exactly the requests    *)
(* under way, each once: no slot is lost or held twice, none idles while    *)
(* someone waits, and no more than the limit are ever in flight.            *)
SlotsAccountedFor ==
  /\ Cardinality(holders) <= Limit
  /\ waiting # <<>> => Cardinality(holders) = Limit
  /\ Distinct(line) /\ Distinct(waiting)
  /\ holders \cap Members(line) = {} /\ Members(waiting) \cap (holders \cup Members(line)) = {}
  /\ holders \cup Members(waiting) \cup Members(line) =
       InFlight \cup (IF loggingIn THEN {Login} ELSE {})
  /\ \A c \in InFlight : phase[c] # "acquiring" => c \in holders

GoesOut(r) == IF r = Login THEN Login \notin holders /\ Login \in holders'
              ELSE phase[r] # "onwire" /\ phase'[r] = "onwire"

(* While a penalty lasts the upstream is sent only the requests that held   *)
(* an unused token when it was imposed, each once: nobody in the queue, no  *)
(* retry, no later request, of the call that met the 429 or of another, and *)
(* no login slips through (TokenBucket.take, penalize).                     *)
PenaltyHonoured ==
  [][\A r \in Requests : GoesOut(r) => penalty = 0 \/ r \in licensed]_vars

(* Every slot is held by a call that waits for a login no slot is left for. *)
LoginStarved == Cardinality({c \in Calls : phase[c] = "login"}) = Limit

(* Every call comes to an end, however often it is retried, penalised or    *)
(* overtaken, unless the login is starved.                                  *)
EveryCallEnds == \A c \in Calls : phase[c] # "idle" ~> phase[c] = "idle" \/ LoginStarved

(* A call that needs a session shares a login instead of racing for one,    *)
(* and ends: the header provider's comment, without exception.              *)
SharedLoginEnds == \A c \in Calls : phase[c] = "login" ~> phase[c] # "login"

(* However restarts, stale rows and late successes interfere, an upstream   *)
(* that stays sick is cut off again and again, ...                          *)
BreakerEngages == <>[](sick /\ ~LoginStarved) => []<>Open(circuit)

(* ... and once it stays well the breaker closes for good, in memory and,   *)
(* as far as the worker's gate goes, in the row.                            *)
BreakerRecovers ==
  <>[](~sick /\ ~LoginStarved) => <>[](circuit = Closed /\ ~Open(stored))
=============================================================================
