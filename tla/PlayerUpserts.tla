----------------------------- MODULE PlayerUpserts -----------------------------
(***************************************************************************)
(* The players upsert every source shares (sync/players.ts): one batch is  *)
(* deduplicated, sorted by uuid and cut into statements of CHUNK rows, and *)
(* a statement locks its rows one after the other until it commits.  The   *)
(* handlers of different sources run at the same time (db/dedupe.ts sorts  *)
(* the other batches for the same reason).  Players are numbered in the    *)
(* order of their uuids; their names are left out.                         *)
(***************************************************************************)
EXTENDS Integers, FiniteSets

CONSTANTS Writers, PlayerCount, CHUNK

PlayerRows == 1..PlayerCount
None == 0

ASSUME UpsertAssumption == PlayerCount \in Nat /\ CHUNK \in Nat \ {0}

VARIABLES batch,      (* the rows no statement has begun to write           *)
          statement,  (* the rows the running statement has yet to lock     *)
          held,       (* the rows it has locked                             *)
          wanted      (* the row it asked for last, or None                 *)

upsertVars == <<batch, statement, held, wanted>>

UpsertInit ==
  /\ batch = [w \in Writers |-> {}] /\ statement = [w \in Writers |-> {}]
  /\ held = [w \in Writers |-> {}] /\ wanted = [w \in Writers |-> None]

Committed(w) == statement[w] = {} /\ held[w] = {}

(* upsertPlayers, with whichever players a page or a detail names.          *)
UpsertPlayers(w, rows) ==
  /\ batch[w] = {} /\ Committed(w) /\ rows # {}
  /\ batch' = [batch EXCEPT ![w] = rows]
  /\ UNCHANGED <<statement, held, wanted>>

(* The slice of the sorted rows that is written next.                       *)
NextChunk(rows) == {r \in rows : Cardinality({q \in rows : q <= r}) <= CHUNK}

BeginStatement(w) ==
  /\ batch[w] # {} /\ Committed(w)
  /\ statement' = [statement EXCEPT ![w] = NextChunk(batch[w])]
  /\ batch' = [batch EXCEPT ![w] = @ \ NextChunk(@)]
  /\ UNCHANGED <<held, wanted>>

(* Mutant: the rows stay in the order they were seen in.                    *)
AsSeen(w, r) == r \in statement[w]

InOrder(w, r) == r \in statement[w] /\ \A q \in statement[w] : r <= q

AskForRow(w, r) ==
  /\ wanted[w] = None /\ InOrder(w, r)
  /\ wanted' = [wanted EXCEPT ![w] = r]
  /\ UNCHANGED <<batch, statement, held>>

Free(r) == \A w \in Writers : r \notin held[w]

LockRow(w) ==
  /\ wanted[w] # None /\ Free(wanted[w])
  /\ held' = [held EXCEPT ![w] = @ \cup {wanted[w]}]
  /\ statement' = [statement EXCEPT ![w] = @ \ {wanted[w]}]
  /\ wanted' = [wanted EXCEPT ![w] = None]
  /\ UNCHANGED batch

(* The statement ends, or fails or loses its connection and is rolled back, *)
(* after which the rest of the batch is not written.                        *)
Commit(w) ==
  /\ held[w] # {} /\ statement[w] = {}
  /\ held' = [held EXCEPT ![w] = {}]
  /\ UNCHANGED <<batch, statement, wanted>>

RollBack(w) ==
  /\ ~Committed(w)
  /\ batch' = [batch EXCEPT ![w] = {}] /\ statement' = [statement EXCEPT ![w] = {}]
  /\ held' = [held EXCEPT ![w] = {}] /\ wanted' = [wanted EXCEPT ![w] = None]

UpsertNext ==
  \E w \in Writers :
    \/ \E rows \in SUBSET PlayerRows : UpsertPlayers(w, rows)
    \/ BeginStatement(w) \/ LockRow(w) \/ Commit(w) \/ RollBack(w)
    \/ \E r \in PlayerRows : AskForRow(w, r)

UpsertSpec == UpsertInit /\ [][UpsertNext]_upsertVars

-----------------------------------------------------------------------------
(* Batches, statements and locks are of rows there are.                     *)
UpsertTypeOK ==
  /\ batch \in [Writers -> SUBSET PlayerRows] /\ statement \in [Writers -> SUBSET PlayerRows]
  /\ held \in [Writers -> SUBSET PlayerRows] /\ wanted \in [Writers -> PlayerRows \cup {None}]

(* w cannot go on before v lets go of a row.                                *)
WaitsFor(w, v) == wanted[w] # None /\ wanted[w] \in held[v]

(* However many sources write overlapping players at once: no writers wait  *)
(* for one another in a ring, which Postgres would end by failing one.      *)
NoDeadlock ==
  \A ring \in (SUBSET Writers) \ {{}} : \E w \in ring : \A v \in ring : ~WaitsFor(w, v)
=============================================================================
