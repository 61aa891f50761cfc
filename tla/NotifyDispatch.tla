---------------------------- MODULE NotifyDispatch ----------------------------
(***************************************************************************)
(* One Discord channel (notify/dispatch.ts, notify/discord.ts): what       *)
(* qualifies is looked up, posted message by message and recorded after    *)
(* each.  The first run records the backlog without posting it.            *)
(*                                                                         *)
(* An item is what one embed is about, a set of keys: one punishment or    *)
(* player, or all the new plots of one holder.  The queue runs the job of  *)
(* a channel once at a time; a run the watchdog or the stale reclaim took  *)
(* the job from goes on executing beside the next (see SyncWorker).        *)
(***************************************************************************)
EXTENDS Integers, Sequences, FiniteSets

CONSTANTS Keys,        (* entity keys that may qualify                      *)
          HolderOf,    (* [Keys -> holders]: the item a key belongs to      *)
          Poison,      (* keys whose rendering Discord never accepts        *)
          RunIds,      (* calls of runNotifyChannel that may be alive       *)
          Limits,      (* what DISCORD_MAX_ITEMS_PER_RUN is set to: any of  *)
                       (* these, and another after a restart                *)
          PerMessage,  (* DISCORD_ITEMS_PER_MESSAGE                         *)
          Room,        (* the size of a payload, in keys                    *)
          Mishaps,     (* how many things may go wrong                      *)
          Nobody       (* the job is not held                               *)

ASSUME NotifyAssumption ==
  /\ IsFiniteSet(Keys) /\ Poison \subseteq Keys
  /\ DOMAIN HolderOf = Keys
  /\ {PerMessage, Room} \subseteq Nat \ {0}
  /\ Limits \subseteq Nat \ {0} /\ Limits # {}
  /\ Mishaps \in Nat
  /\ Nobody \notin RunIds

VARIABLES qualifying,  (* keys the channel's views list now                 *)
          deliveries,  (* notification_deliveries: [Keys -> disposition]    *)
          baseline,    (* the watermark seeded.<channel> is "complete"      *)
          runs,        (* [RunIds -> where a run is and what it has left]   *)
          holder,      (* the run that holds the channel's job              *)
          mishaps,     (* what is left of the budget                        *)
          announced,   (* what the room has read: never, once or more       *)
          backlog,     (* history: keys that qualified all along until the  *)
                       (* baseline was complete                             *)
          unsure,      (* history: keys posted, or in hand twice, with no   *)
                       (* record to tell the next run                       *)
          withheld     (* history: keys of refused messages, and of embeds  *)
                       (* that clampMessage dropped                         *)

table   == <<deliveries, baseline>>
history == <<backlog, unsure, withheld>>
vars    == <<qualifying, table, runs, holder, mishaps, announced, history>>

Posting == {"posting", "recording", "refusing"}   (* with items in hand     *)
Phases == {"idle", "seeding", "marking", "finding"} \cup Posting
Items  == (SUBSET Keys) \ {{}}
Idle   == [phase |-> "idle", left |-> <<>>]

Min2(a, b) == IF a < b THEN a ELSE b
KeysOf(items) == UNION {items[i] : i \in DOMAIN items}
Live(r) == runs[r].phase # "idle"
InHand(r) == KeysOf(runs[r].left)

RunsOK ==
  /\ runs \in [RunIds -> [phase : Phases, left : Seq(Items)]]
  /\ \A r \in RunIds : runs[r].phase \in Posting <=> runs[r].left # <<>>

TypeOK ==
  /\ qualifying \subseteq Keys
  /\ deliveries \in [Keys -> {"none", "seeded", "sent"}]
  /\ baseline \in BOOLEAN
  /\ RunsOK
  /\ holder \in RunIds \cup {Nobody}
  /\ mishaps \in 0..Mishaps
  /\ announced \in [Keys -> {"never", "once", "again"}]
  /\ backlog \subseteq Keys /\ unsure \subseteq Keys /\ withheld \subseteq Keys

Init ==
  /\ qualifying \in SUBSET Keys
  /\ deliveries = [k \in Keys |-> "none"]
  /\ baseline = FALSE
  /\ runs = [r \in RunIds |-> Idle]
  /\ holder = Nobody
  /\ mishaps = Mishaps
  /\ announced = [k \in Keys |-> "never"]
  /\ backlog = qualifying
  /\ unsure = {} /\ withheld = {}

-----------------------------------------------------------------------------
(* The views change as the crawls bring news.  A key once delivered is left *)
(* alone: no query looks whether it still qualifies.                        *)
Qualify(k) ==
  /\ k \notin qualifying
  /\ qualifying' = qualifying \cup {k}
  /\ UNCHANGED <<table, runs, holder, mishaps, announced, history>>

Unqualify(k) ==
  /\ k \in qualifying /\ deliveries[k] = "none"
  /\ qualifying' = qualifying \ {k}
  /\ backlog' = IF baseline THEN backlog ELSE backlog \ {k}
  /\ UNCHANGED <<table, runs, holder, mishaps, announced, unsure, withheld>>

-----------------------------------------------------------------------------
(* A run.  Return ends it, which settles the channel's job by its id,       *)
(* whoever holds it now.                                                    *)
Move(r, phase, left) == runs' = [runs EXCEPT ![r] = [phase |-> phase, left |-> left]]
Goto(r, phase, left) == Move(r, phase, left) /\ holder' = holder
Return(r) ==
  /\ runs' = [runs EXCEPT ![r] = Idle]
  /\ holder' = Nobody

(* Mutant: the watermark is not read.                                       *)
BeginSeeding(r) ==
  /\ holder = Nobody
  /\ ~Live(r) /\ r = CHOOSE idle \in RunIds : ~Live(idle)
  /\ Move(r, "seeding", <<>>) /\ holder' = r
  /\ UNCHANGED <<qualifying, table, mishaps, announced, history>>

(* The scheduler's job, or its retry, is claimed, and the run reads the     *)
(* watermark.  Which name the run gets is of no account.                    *)
Begin(r) ==
  /\ holder = Nobody
  /\ ~Live(r) /\ r = CHOOSE idle \in RunIds : ~Live(idle)
  /\ Move(r, IF baseline THEN "finding" ELSE "seeding", <<>>) /\ holder' = r
  /\ UNCHANGED <<qualifying, table, mishaps, announced, history>>

(* INSERT ... ON CONFLICT DO NOTHING.                                       *)
Insert(keys, disposition) ==
  deliveries' = [k \in Keys |-> IF k \in keys /\ deliveries[k] = "none"
                                THEN disposition ELSE deliveries[k]]

ElsewhereInHand(r) == UNION {InHand(o) : o \in RunIds \ {r}}

SeedInsert(r) ==
  /\ runs[r].phase = "seeding"
  /\ Insert(qualifying, "seeded")
  /\ unsure' = unsure \cup (qualifying \cap ElsewhereInHand(r))
  /\ Goto(r, "marking", <<>>)
  /\ UNCHANGED <<qualifying, baseline, mishaps, announced, backlog, withheld>>

SeedComplete(r) ==
  /\ runs[r].phase = "marking"
  /\ baseline' = TRUE
  /\ Return(r)
  /\ UNCHANGED <<qualifying, deliveries, mishaps, announced, history>>

(* Mutant: findNew leaves out only what was sent.                           *)
FreshUnlessSent == {k \in qualifying : deliveries[k] # "sent"}

(* Mutant: the limit holds before what was delivered is left out.           *)
LimitFirst(limit) ==
  LET all == {HolderOf[k] : k \in qualifying}
      new == {{k \in qualifying : deliveries[k] = "none" /\ HolderOf[k] = h} : h \in all} \ {{}}
      old == Cardinality(all) - Cardinality(new)
  IN {s \in UNION {[1..n -> new] : n \in (Min2(limit, Cardinality(all)) - old)
                                         ..Min2(limit, Cardinality(new))} :
        \A i, j \in DOMAIN s : s[i] = s[j] => i = j}

(* findNew: at most limit items, each with all its undelivered keys.  Which *)
(* come first depends on data left out, so any may.                         *)
Fresh == {k \in qualifying : deliveries[k] = "none"}
NewItems == {{k \in Fresh : HolderOf[k] = HolderOf[n]} : n \in Fresh}
Selections(limit) ==
  {s \in [1..Min2(limit, Cardinality(NewItems)) -> NewItems] :
     \A i, j \in DOMAIN s : s[i] = s[j] => i = j}

FindNew(r) ==
  /\ runs[r].phase = "finding"
  /\ IF Fresh = {}
     THEN Return(r) /\ UNCHANGED unsure
     ELSE \E limit \in Limits : \E items \in Selections(limit) :
            /\ Goto(r, "posting", items)
            /\ unsure' = unsure \cup (KeysOf(items) \cap ElsewhereInHand(r))
  /\ UNCHANGED <<qualifying, table, mishaps, announced, backlog, withheld>>

(* The next message, the items after it, and what the room gets to read:    *)
(* clampMessage drops embeds from the end until the rest fits, save the     *)
(* first, so it keeps those up to which everything fits.                    *)
Message(items) == SubSeq(items, 1, Min2(PerMessage, Len(items)))
Rest(items)    == SubSeq(items, Min2(PerMessage, Len(items)) + 1, Len(items))
Fits(items) == Cardinality(KeysOf(items)) <= Room
Clamp(message) == {i \in DOMAIN message : i = 1 \/ Fits(SubSeq(message, 1, i))}
Payload(items) == UNION {Message(items)[i] : i \in Clamp(Message(items))}
Acceptable(items) == Payload(items) \cap Poison = {}
Read(keys) ==
  announced' = [k \in Keys |-> IF k \notin keys THEN announced[k]
                               ELSE IF announced[k] = "never" THEN "once"
                               ELSE "again"]

GoesWrong == mishaps > 0 /\ mishaps' = mishaps - 1

Delivered(r) ==
  /\ runs[r].phase = "posting" /\ Acceptable(runs[r].left)
  /\ Read(Payload(runs[r].left))
  /\ withheld' = withheld \cup
                   (KeysOf(Message(runs[r].left)) \ Payload(runs[r].left))
  /\ Goto(r, "recording", runs[r].left)
  /\ UNCHANGED <<qualifying, table, mishaps, backlog, unsure>>

(* The room has it, but the answer is late, lost or a 5xx: an error.        *)
AnswerLost(r) ==
  /\ runs[r].phase = "posting" /\ Acceptable(runs[r].left) /\ GoesWrong
  /\ Read(Payload(runs[r].left))
  /\ unsure' = unsure \cup Payload(runs[r].left)
  /\ Return(r)
  /\ UNCHANGED <<qualifying, table, backlog, withheld>>

(* Mutant: a 429 counts as permanent.                                       *)
RateLimitIsPermanent(r) ==
  /\ runs[r].phase = "posting" /\ GoesWrong
  /\ Goto(r, "refusing", runs[r].left)
  /\ UNCHANGED <<qualifying, table, announced, history>>

(* A 429, a 5xx or no connection: an error, nothing delivered.              *)
NotDelivered(r) ==
  /\ runs[r].phase = "posting" /\ GoesWrong
  /\ Return(r)
  /\ UNCHANGED <<qualifying, table, announced, history>>

(* A 4xx: the payload is unacceptable, or the webhook is gone.              *)
Rejected(r) ==
  /\ runs[r].phase = "posting"
  /\ IF Acceptable(runs[r].left) THEN GoesWrong ELSE UNCHANGED mishaps
  /\ withheld' = withheld \cup KeysOf(Message(runs[r].left))
  /\ Goto(r, "refusing", runs[r].left)
  /\ UNCHANGED <<qualifying, table, announced, backlog, unsure>>

(* Mutants: record is called once, after the loop; the loop runs once more. *)
RecordAfterLoop(r) ==
  /\ runs[r].phase = "recording"
  /\ IF Rest(runs[r].left) = <<>>
     THEN Insert(KeysOf(Message(runs[r].left)), "sent") /\ Return(r)
     ELSE Goto(r, "posting", Rest(runs[r].left)) /\ UNCHANGED deliveries
  /\ UNCHANGED <<qualifying, baseline, mishaps, announced, history>>
RecordOnceMore(r) ==
  /\ runs[r].phase = "recording"
  /\ Insert(KeysOf(Message(runs[r].left)), "sent")
  /\ Goto(r, "posting", Rest(runs[r].left))
  /\ UNCHANGED <<qualifying, baseline, mishaps, announced, history>>

(* record, after a success: on to the next message.                         *)
Record(r) ==
  /\ runs[r].phase = "recording"
  /\ Insert(KeysOf(Message(runs[r].left)), "sent")
  /\ IF Rest(runs[r].left) = <<>>
     THEN Return(r)
     ELSE Goto(r, "posting", Rest(runs[r].left))
  /\ UNCHANGED <<qualifying, baseline, mishaps, announced, history>>

(* Mutant: a refused message is not recorded.                               *)
RefusedUnrecorded(r) ==
  /\ runs[r].phase = "refusing"
  /\ Return(r)
  /\ UNCHANGED <<qualifying, table, mishaps, announced, history>>

(* record, after a permanent failure: the run ends with the error.          *)
RecordRefused(r) ==
  /\ runs[r].phase = "refusing"
  /\ Insert(KeysOf(Message(runs[r].left)), "sent")
  /\ Return(r)
  /\ UNCHANGED <<qualifying, baseline, mishaps, announced, history>>

(* A statement fails or the process is restarted.                           *)
Cut(r) ==
  /\ Live(r) /\ GoesWrong
  /\ unsure' = IF runs[r].phase = "recording"
               THEN unsure \cup Payload(runs[r].left) ELSE unsure
  /\ Return(r)
  /\ UNCHANGED <<qualifying, table, announced, backlog, withheld>>

(* The job is taken from a run that waits too long, on a penalty say.       *)
Abandon(r) ==
  /\ holder = r /\ GoesWrong
  /\ holder' = Nobody
  /\ UNCHANGED <<qualifying, table, runs, announced, history>>

Post(r) == Delivered(r) \/ AnswerLost(r) \/ NotDelivered(r) \/ Rejected(r)
Step(r) == \/ SeedInsert(r) \/ SeedComplete(r)
           \/ FindNew(r) \/ Post(r) \/ Record(r) \/ RecordRefused(r)

Next == \/ \E k \in Keys : Qualify(k) \/ Unqualify(k)
        \/ \E r \in RunIds : Begin(r) \/ Step(r) \/ Cut(r) \/ Abandon(r)

(* The scheduler queues the job for ever; queries and fetches end.          *)
Fairness == /\ WF_vars(\E r \in RunIds : Begin(r))
            /\ \A r \in RunIds : WF_vars(Step(r))

Spec == Init /\ [][Next]_vars /\ Fairness

-----------------------------------------------------------------------------
(* Enabling a webhook is not an event: what qualified all along until the   *)
(* baseline was complete is never announced, whatever is cut, retried or    *)
(* run twice (dispatch.ts, runNotifyChannel and seed).                      *)
BacklogStaysSilent == \A k \in backlog : announced[k] = "never"

(* Nothing is announced twice, but for a message whose delivery could not   *)
(* be recorded, or that two runs had in hand: a run that fails halfway      *)
(* repeats none of what it recorded (dispatch.ts, the loop and record).     *)
DuplicatesExcused == \A k \in Keys : announced[k] = "again" => k \in unsure

(* What is recorded as sent was read, but for a message refused for good    *)
(* and embeds dropped by the clamp (record follows postWebhook).            *)
LossesExcused ==
  \A k \in Keys : deliveries[k] = "sent" /\ announced[k] = "never"
                    => k \in withheld

(* Once a channel is live, nothing is silenced by seeding any more, unless  *)
(* a run that lost its job is still at it (seed is not repeated).           *)
Stray == \E r \in RunIds : Live(r) /\ holder # r
SeedsOnce ==
  [][baseline /\ ~Stray =>
       \A k \in Keys : deliveries'[k] = "seeded" => deliveries[k] = "seeded"]_vars

(* A burst is bounded, not dropped, and a payload Discord will never accept *)
(* does not wedge the channel: again and again nothing new is left over     *)
(* (dispatch.ts: record after a permanent failure, maxItems).               *)
ChannelDrains == []<>(Fresh = {})

(* docs/alerts.md: nothing is announced twice, and nothing is lost.  Of the *)
(* latter: what is recorded as sent was announced.                          *)
NothingLost == \A k \in Keys : deliveries[k] = "sent" => announced[k] # "never"
=============================================================================
