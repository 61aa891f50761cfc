------------------------- MODULE NotifyDispatchProofs -------------------------
(***************************************************************************)
(* Theorems about NotifyDispatch for every set of keys and holders, every  *)
(* number of runs alive at once, every size of message and of payload.     *)
(***************************************************************************)
EXTENDS NotifyDispatch, SequenceTheorems, FiniteSetTheorems, TLAPS

-----------------------------------------------------------------------------
(* The items a run has in hand share no key.                                *)
Apart(items) == \A i, j \in DOMAIN items : i # j => items[i] \cap items[j] = {}

(* Splitting off a message loses no type, adds no key, and keeps apart what *)
(* was apart; what the room reads is part of the message.                   *)
LEMMA Splitting ==
  ASSUME NEW q \in Seq(Items), q # <<>>
  PROVE  /\ Rest(q) \in Seq(Items)
         /\ KeysOf(q) \subseteq Keys
         /\ KeysOf(Rest(q)) \subseteq KeysOf(q)
         /\ KeysOf(Message(q)) \subseteq KeysOf(q)
         /\ Payload(q) \subseteq KeysOf(Message(q))
         /\ Apart(q) => /\ Apart(Rest(q))
                        /\ KeysOf(Message(q)) \cap KeysOf(Rest(q)) = {}
<1> DEFINE n == Min2(PerMessage, Len(q))
<1>1. n \in 1..Len(q) /\ Len(q) \in Nat /\ Len(q) > 0
  BY EmptySeq, NotifyAssumption, LenProperties DEF Min2
<1>2. \A i \in 1..Len(q) : q[i] \in Items
  BY ElementOfSeq
<1>3. /\ Len(Message(q)) = n /\ DOMAIN Message(q) = 1..n
      /\ \A i \in 1..n : Message(q)[i] = q[i]
  <2> HIDE DEF n
  <2>1. SubSeq(q, 1, n) \in Seq(Items)
        /\ Len(SubSeq(q, 1, n)) = n
        /\ \A i \in 1..n : SubSeq(q, 1, n)[i] = q[i]
    BY <1>1, <1>2, SubSeqProperties
  <2>2. DOMAIN SubSeq(q, 1, n) = 1..n
    BY <2>1, LenProperties
  <2> QED BY <2>1, <2>2 DEF Message, n
<1>4. /\ Rest(q) \in Seq(Items)
      /\ DOMAIN Rest(q) = 1..(Len(q) - n)
      /\ \A i \in 1..(Len(q) - n) : Rest(q)[i] = q[n + i]
  <2> HIDE DEF n
  <2>1. \A i \in (n + 1)..Len(q) : q[i] \in Items
    BY <1>1, <1>2
  <2>2. /\ SubSeq(q, n + 1, Len(q)) \in Seq(Items)
        /\ Len(SubSeq(q, n + 1, Len(q))) = Len(q) - n
        /\ \A i \in 1..(Len(q) - n) : SubSeq(q, n + 1, Len(q))[i] = q[n + i]
    BY <1>1, <2>1, SubSeqProperties
  <2>3. DOMAIN SubSeq(q, n + 1, Len(q)) = 1..(Len(q) - n)
    BY <2>2, LenProperties
  <2> QED BY <2>2, <2>3 DEF Rest, n
<1>5. DOMAIN q = 1..Len(q)
  BY LenProperties
<1> HIDE DEF n
<1>6. KeysOf(q) \subseteq Keys
  BY <1>2, <1>5 DEF KeysOf, Items
<1>7. KeysOf(Message(q)) \subseteq KeysOf(q)
  BY <1>1, <1>3, <1>5 DEF KeysOf
<1>8. KeysOf(Rest(q)) \subseteq KeysOf(q)
  <2>1. \A i \in 1..(Len(q) - n) : n + i \in 1..Len(q)
    BY <1>1
  <2> QED BY <1>4, <1>5, <2>1 DEF KeysOf
<1>9. Payload(q) \subseteq KeysOf(Message(q))
  BY DEF Payload, Clamp, KeysOf
<1>10. ASSUME Apart(q)
       PROVE  Apart(Rest(q)) /\ KeysOf(Message(q)) \cap KeysOf(Rest(q)) = {}
  <2>1. \A i \in 1..(Len(q) - n) : n + i \in 1..Len(q) /\ n + i > n
    BY <1>1
  <2>2. Apart(Rest(q))
    <3>1. \A i, j \in 1..(Len(q) - n) : i # j => n + i # n + j
      BY <1>1
    <3> QED BY <1>4, <1>5, <1>10, <2>1, <3>1 DEF Apart
  <2>3. \A i \in 1..n, j \in 1..(Len(q) - n) : q[i] \cap q[n + j] = {}
    <3>1. \A i \in 1..n, j \in 1..(Len(q) - n) : i \in 1..Len(q) /\ i # n + j
      BY <1>1
    <3> QED BY <1>5, <1>10, <2>1, <3>1 DEF Apart
  <2>4. KeysOf(Message(q)) \cap KeysOf(Rest(q)) = {}
    BY <1>3, <1>4, <2>3 DEF KeysOf
  <2> QED BY <2>2, <2>4
<1> QED BY <1>4, <1>6, <1>7, <1>8, <1>9, <1>10

(* What findNew returns: at least one item, of fresh keys, apart.           *)
LEMMA Selected ==
  ASSUME TypeOK, Fresh # {}, NEW limit \in Limits, NEW s \in Selections(limit)
  PROVE  /\ s \in Seq(Items) /\ s # <<>>
         /\ KeysOf(s) \subseteq Fresh
         /\ Apart(s)
<1>1. Fresh \subseteq Keys /\ IsFiniteSet(Fresh)
  BY NotifyAssumption, FS_Subset DEF TypeOK, Fresh
<1>2. IsFiniteSet(NewItems) /\ NewItems # {} /\ NewItems \subseteq Items
  <2> DEFINE f == [n \in Fresh |-> {k \in Fresh : HolderOf[k] = HolderOf[n]}]
  <2>1. f \in Surjection(Fresh, NewItems)
    BY DEF Surjection, NewItems
  <2>2. IsFiniteSet(NewItems)
    BY <1>1, <2>1, FS_Surjection
  <2>3. NewItems # {}
    <3>1. PICK n \in Fresh : TRUE
      OBVIOUS
    <3>2. {k \in Fresh : HolderOf[k] = HolderOf[n]} \in NewItems
      BY DEF NewItems
    <3> QED BY <3>2
  <2>4. NewItems \subseteq Items
    <3>1. \A n \in Fresh : n \in {k \in Fresh : HolderOf[k] = HolderOf[n]}
      OBVIOUS
    <3> QED BY <1>1, <3>1 DEF NewItems, Items
  <2> QED BY <2>2, <2>3, <2>4
<1> DEFINE n == Min2(limit, Cardinality(NewItems))
<1>3. n \in Nat /\ n >= 1
  BY <1>2, FS_CardinalityType, FS_EmptySet, NotifyAssumption DEF Min2
<1>4. s \in [1..n -> NewItems] /\ \A i, j \in 1..n : s[i] = s[j] => i = j
  BY DEF Selections
<1> HIDE DEF n
<1>5. s \in Seq(Items) /\ s # <<>>
  <2>1. s \in [1..n -> Items]
    BY <1>2, <1>4
  <2>2. s \in Seq(Items) /\ Len(s) = n
    BY <1>3, <2>1
  <2> QED BY <1>3, <2>2, EmptySeq
<1>6. KeysOf(s) \subseteq Fresh
  <2>1. \A i \in 1..n : s[i] \subseteq Fresh
    BY <1>4 DEF NewItems
  <2> QED BY <1>4, <2>1 DEF KeysOf
<1>7. Apart(s)
  <2>1. \A a, b \in NewItems : a # b => a \cap b = {}
    BY DEF NewItems
  <2> QED BY <1>4, <2>1 DEF Apart
<1> QED BY <1>5, <1>6, <1>7

-----------------------------------------------------------------------------
(* What a step does to the runs: it moves one and leaves the others.        *)
LEMMA Moving ==
  ASSUME TypeOK, NEW r \in RunIds, NEW phase, NEW left, Move(r, phase, left)
  PROVE  /\ runs'[r] = [phase |-> phase, left |-> left]
         /\ \A o \in RunIds : o # r => runs'[o] = runs[o]
         /\ phase \in Phases /\ left \in Seq(Items) /\ (phase \in Posting <=> left # <<>>)
              => RunsOK'
<1>1. /\ runs'[r] = [phase |-> phase, left |-> left]
      /\ \A o \in RunIds : o # r => runs'[o] = runs[o]
  BY DEF TypeOK, RunsOK, Move
<1>2. ASSUME phase \in Phases, left \in Seq(Items)
      PROVE  runs' \in [RunIds -> [phase : Phases, left : Seq(Items)]]
  BY <1>2 DEF TypeOK, RunsOK, Move
<1>3. ASSUME phase \in Posting <=> left # <<>>, NEW o \in RunIds
      PROVE  runs'[o].phase \in Posting <=> runs'[o].left # <<>>
  <2>1. CASE o = r
    <3>1. runs'[o].phase = phase /\ runs'[o].left = left
      BY <1>1, <2>1
    <3> QED BY <1>3, <3>1
  <2>2. CASE o # r
    BY <1>1, <2>2 DEF TypeOK, RunsOK
  <2> QED BY <2>1, <2>2
<1> QED BY <1>1, <1>2, <1>3 DEF RunsOK

LEMMA Returning ==
  ASSUME TypeOK, NEW r \in RunIds, Return(r)
  PROVE  /\ runs'[r] = Idle /\ holder' = Nobody
         /\ \A o \in RunIds : o # r => runs'[o] = runs[o]
         /\ RunsOK'
<1>1. Idle \in [phase : Phases, left : Seq(Items)]
  BY EmptySeq DEF Idle, Phases
<1>2. Idle.phase \notin Posting /\ Idle.left = <<>>
  BY DEF Idle, Posting
<1>3. /\ runs'[r] = Idle /\ holder' = Nobody
      /\ \A o \in RunIds : o # r => runs'[o] = runs[o]
  BY DEF TypeOK, RunsOK, Return
<1>4. runs' \in [RunIds -> [phase : Phases, left : Seq(Items)]]
  BY <1>1 DEF TypeOK, RunsOK, Return
<1>5. ASSUME NEW o \in RunIds
      PROVE  runs'[o].phase \in Posting <=> runs'[o].left # <<>>
  BY <1>2, <1>3 DEF TypeOK, RunsOK
<1> QED BY <1>3, <1>4, <1>5 DEF RunsOK

LEMMA MovesOne ==
  ASSUME TypeOK, NEW r \in RunIds, NEW phase, NEW left, Move(r, phase, left)
  PROVE  /\ runs'[r].phase = phase /\ runs'[r].left = left
         /\ \A o \in RunIds : o # r => runs'[o] = runs[o]
<1>1. runs'[r] = [phase |-> phase, left |-> left]
      /\ \A o \in RunIds : o # r => runs'[o] = runs[o]
  BY Moving
<1> QED BY <1>1

LEMMA ReturnsOne ==
  ASSUME TypeOK, NEW r \in RunIds, Return(r)
  PROVE  /\ runs'[r].phase = "idle" /\ runs'[r].left = <<>> /\ holder' = Nobody
         /\ \A o \in RunIds : o # r => runs'[o] = runs[o]
<1>1. runs'[r] = Idle /\ holder' = Nobody
      /\ \A o \in RunIds : o # r => runs'[o] = runs[o]
  BY Returning
<1> QED BY <1>1 DEF Idle

LEMMA Inserting ==
  ASSUME TypeOK, NEW keys, NEW d \in {"seeded", "sent"}, Insert(keys, d)
  PROVE  /\ deliveries' \in [Keys -> {"none", "seeded", "sent"}]
         /\ \A k \in Keys : deliveries'[k] =
              IF k \in keys /\ deliveries[k] = "none" THEN d ELSE deliveries[k]
BY DEF TypeOK, Insert

LEMMA Reading ==
  ASSUME TypeOK, NEW keys, Read(keys)
  PROVE  /\ announced' \in [Keys -> {"never", "once", "again"}]
         /\ \A k \in Keys : k \notin keys => announced'[k] = announced[k]
         /\ \A k \in Keys : k \in keys => announced'[k] =
              IF announced[k] = "never" THEN "once" ELSE "again"
BY DEF TypeOK, Read

(* A run with items in hand, split.                                         *)
LEMMA InHandSplit ==
  ASSUME TypeOK, NEW r \in RunIds, runs[r].phase \in Posting
  PROVE  /\ runs[r].left \in Seq(Items) /\ runs[r].left # <<>>
         /\ Rest(runs[r].left) \in Seq(Items)
         /\ InHand(r) \subseteq Keys
         /\ KeysOf(Rest(runs[r].left)) \subseteq InHand(r)
         /\ KeysOf(Message(runs[r].left)) \subseteq InHand(r)
         /\ Payload(runs[r].left) \subseteq KeysOf(Message(runs[r].left))
         /\ Apart(runs[r].left) =>
              /\ Apart(Rest(runs[r].left))
              /\ KeysOf(Message(runs[r].left)) \cap KeysOf(Rest(runs[r].left)) = {}
<1>1. runs[r].left \in Seq(Items) /\ runs[r].left # <<>>
  BY DEF TypeOK, RunsOK
<1> QED BY <1>1, Splitting DEF InHand

(* A run with nothing in hand.                                              *)
LEMMA EmptyHand == KeysOf(<<>>) = {} /\ Apart(<<>>)
BY DEF KeysOf, Apart

-----------------------------------------------------------------------------
LEMMA TypeInit == ASSUME NotifyAssumption, Init PROVE TypeOK
<1>1. Idle \in [phase : Phases, left : Seq(Items)] /\ Idle.phase \notin Posting
  BY EmptySeq DEF Idle, Phases, Posting
<1>2. runs \in [RunIds -> [phase : Phases, left : Seq(Items)]]
  BY <1>1 DEF Init
<1>3. \A r \in RunIds : runs[r].phase \in Posting <=> runs[r].left # <<>>
  BY <1>1 DEF Init, Idle
<1>4. mishaps \in 0..Mishaps
  BY NotifyAssumption DEF Init
<1> QED BY <1>2, <1>3, <1>4 DEF Init, TypeOK, RunsOK

LEMMA TypeStep == ASSUME TypeOK, [Next]_vars PROVE TypeOK'
<1> USE DEF table, history
<1>1. ASSUME NEW k \in Keys, Qualify(k) PROVE TypeOK'
  BY <1>1 DEF Qualify, TypeOK, RunsOK
<1>2. ASSUME NEW k \in Keys, Unqualify(k) PROVE TypeOK'
  BY <1>2 DEF Unqualify, TypeOK, RunsOK
<1>3. ASSUME NEW r \in RunIds, Begin(r) PROVE TypeOK'
  <2> DEFINE first == IF baseline THEN "finding" ELSE "seeding"
  <2>1. first \in Phases \ Posting /\ <<>> \in Seq(Items)
    BY EmptySeq DEF Phases, Posting
  <2>2. Move(r, first, <<>>)
    BY <1>3 DEF Begin
  <2> HIDE DEF first
  <2>3. RunsOK'
    BY <2>1, <2>2, Moving
  <2> QED BY <1>3, <2>3 DEF Begin, TypeOK
<1>4. ASSUME NEW r \in RunIds, SeedInsert(r) PROVE TypeOK'
  <2>1. "marking" \in Phases \ Posting /\ <<>> \in Seq(Items)
    BY EmptySeq DEF Phases, Posting
  <2> QED BY <1>4, <2>1, Moving, Inserting DEF SeedInsert, Goto, TypeOK
<1>5. ASSUME NEW r \in RunIds, SeedComplete(r) PROVE TypeOK'
  BY <1>5, Returning DEF SeedComplete, TypeOK
<1>6. ASSUME NEW r \in RunIds, FindNew(r) PROVE TypeOK'
  <2>1. CASE Fresh = {}
    BY <1>6, <2>1, Returning DEF FindNew, TypeOK
  <2>2. CASE Fresh # {}
    <3>0. PICK limit \in Limits : \E items \in Selections(limit) :
            /\ Goto(r, "posting", items)
            /\ unsure' = unsure \cup (KeysOf(items) \cap ElsewhereInHand(r))
      BY <1>6, <2>2 DEF FindNew
    <3>1. PICK s \in Selections(limit) :
            Goto(r, "posting", s) /\ unsure' = unsure \cup (KeysOf(s) \cap ElsewhereInHand(r))
      BY <3>0
    <3>2. s \in Seq(Items) /\ s # <<>> /\ KeysOf(s) \subseteq Keys
      BY <2>2, Selected DEF Fresh, TypeOK
    <3>3. "posting" \in Phases /\ "posting" \in Posting
      BY DEF Phases, Posting
    <3> QED BY <1>6, <3>1, <3>2, <3>3, Moving DEF FindNew, Goto, TypeOK
  <2> QED BY <2>1, <2>2
<1>7. ASSUME NEW r \in RunIds, Delivered(r) PROVE TypeOK'
  <2>1. runs[r].phase \in Posting /\ "recording" \in Phases /\ "recording" \in Posting
    BY <1>7 DEF Delivered, Phases, Posting
  <2>2. RunsOK'
    BY <1>7, <2>1, Moving, InHandSplit DEF Delivered, Goto
  <2>3. withheld' \subseteq Keys /\ announced' \in [Keys -> {"never", "once", "again"}]
    BY <1>7, <2>1, Reading, InHandSplit DEF Delivered, TypeOK
  <2> QED BY <1>7, <2>2, <2>3 DEF Delivered, Goto, TypeOK
<1>8. ASSUME NEW r \in RunIds, AnswerLost(r) PROVE TypeOK'
  <2>1. runs[r].phase \in Posting
    BY <1>8 DEF AnswerLost, Posting
  <2>2. mishaps' \in 0..Mishaps
    BY <1>8, NotifyAssumption DEF AnswerLost, GoesWrong, TypeOK
  <2>3. unsure' \subseteq Keys
    BY <1>8, <2>1, InHandSplit DEF AnswerLost, TypeOK
  <2> QED BY <1>8, <2>2, <2>3, Returning, Reading DEF AnswerLost, TypeOK
<1>9. ASSUME NEW r \in RunIds, NotDelivered(r) PROVE TypeOK'
  <2>1. mishaps' \in 0..Mishaps
    BY <1>9, NotifyAssumption DEF NotDelivered, GoesWrong, TypeOK
  <2> QED BY <1>9, <2>1, Returning DEF NotDelivered, TypeOK
<1>10. ASSUME NEW r \in RunIds, Rejected(r) PROVE TypeOK'
  <2>1. runs[r].phase \in Posting /\ "refusing" \in Phases /\ "refusing" \in Posting
    BY <1>10 DEF Rejected, Phases, Posting
  <2>2. mishaps' \in 0..Mishaps
    BY <1>10, NotifyAssumption DEF Rejected, GoesWrong, TypeOK
  <2>3. withheld' \subseteq Keys
    BY <1>10, <2>1, InHandSplit DEF Rejected, TypeOK
  <2>4. RunsOK'
    BY <1>10, <2>1, Moving, InHandSplit DEF Rejected, Goto
  <2> QED BY <1>10, <2>2, <2>3, <2>4 DEF Rejected, Goto, TypeOK
<1>11. ASSUME NEW r \in RunIds, Record(r) PROVE TypeOK'
  <2>1. runs[r].phase \in Posting /\ "posting" \in Phases /\ "posting" \in Posting
    BY <1>11 DEF Record, Phases, Posting
  <2>2. deliveries' \in [Keys -> {"none", "seeded", "sent"}]
    BY <1>11, Inserting DEF Record
  <2>3. CASE Rest(runs[r].left) = <<>>
    BY <1>11, <2>2, <2>3, Returning DEF Record, TypeOK
  <2>4. CASE Rest(runs[r].left) # <<>>
    <3>1. RunsOK'
      BY <1>11, <2>1, <2>4, Moving, InHandSplit DEF Record, Goto
    <3> QED BY <1>11, <2>2, <2>4, <3>1 DEF Record, Goto, TypeOK
  <2> QED BY <2>3, <2>4
<1>12. ASSUME NEW r \in RunIds, RecordRefused(r) PROVE TypeOK'
  <2>1. deliveries' \in [Keys -> {"none", "seeded", "sent"}]
    BY <1>12, Inserting DEF RecordRefused
  <2> QED BY <1>12, <2>1, Returning DEF RecordRefused, TypeOK
<1>13. ASSUME NEW r \in RunIds, Cut(r) PROVE TypeOK'
  <2>1. mishaps' \in 0..Mishaps
    BY <1>13, NotifyAssumption DEF Cut, GoesWrong, TypeOK
  <2>2. unsure' \subseteq Keys
    BY <1>13, InHandSplit DEF Cut, TypeOK, Posting
  <2> QED BY <1>13, <2>1, <2>2, Returning DEF Cut, TypeOK
<1>14. ASSUME NEW r \in RunIds, Abandon(r) PROVE TypeOK'
  <2>1. mishaps' \in 0..Mishaps
    BY <1>14, NotifyAssumption DEF Abandon, GoesWrong, TypeOK
  <2> QED BY <1>14, <2>1 DEF Abandon, TypeOK, RunsOK
<1>15. CASE UNCHANGED vars
  BY <1>15 DEF vars, TypeOK, RunsOK
<1> QED BY <1>1, <1>2, <1>3, <1>4, <1>5, <1>6, <1>7, <1>8, <1>9, <1>10, <1>11, <1>12,
           <1>13, <1>14, <1>15 DEF Next, Step, Post

(* Types: in particular a run has items in hand exactly while it posts and  *)
(* records them.                                                            *)
THEOREM NotifyTypeCorrect == Spec => []TypeOK
<1>1. Init => TypeOK
  BY TypeInit, NotifyAssumption
<1>2. TypeOK /\ [Next]_vars => TypeOK'
  BY TypeStep
<1> QED BY <1>1, <1>2, PTL DEF Spec

-----------------------------------------------------------------------------
(* What no step undoes: doubts and excuses stay, what was read stays read,  *)
(* a delivery row is never rewritten.                                       *)
LEMMA Growing ==
  ASSUME TypeOK, [Next]_vars
  PROVE  /\ unsure \subseteq unsure' /\ withheld \subseteq withheld'
         /\ \A k \in Keys : announced[k] # "never" => announced'[k] # "never"
         /\ \A k \in Keys : deliveries[k] # "none" => deliveries'[k] = deliveries[k]
<1> USE DEF table, history
<1>1. ASSUME NEW k \in Keys, Qualify(k) \/ Unqualify(k)
      PROVE  UNCHANGED <<unsure, withheld, announced, deliveries>>
  BY <1>1 DEF Qualify, Unqualify
<1>2. ASSUME NEW r \in RunIds,
             \/ Begin(r) \/ SeedComplete(r) \/ FindNew(r) \/ NotDelivered(r)
             \/ Rejected(r) \/ Cut(r) \/ Abandon(r)
      PROVE  /\ UNCHANGED <<announced, deliveries>>
             /\ unsure \subseteq unsure' /\ withheld \subseteq withheld'
  BY <1>2 DEF Begin, SeedComplete, FindNew, NotDelivered, Rejected, Cut, Abandon
<1>3. ASSUME NEW r \in RunIds, SeedInsert(r) \/ Record(r) \/ RecordRefused(r)
      PROVE  /\ UNCHANGED <<announced, withheld>> /\ unsure \subseteq unsure'
             /\ \A k \in Keys : deliveries[k] # "none" => deliveries'[k] = deliveries[k]
  <2>1. UNCHANGED <<announced, withheld>> /\ unsure \subseteq unsure'
    BY <1>3 DEF SeedInsert, Record, RecordRefused
  <2>2. \A k \in Keys : deliveries[k] # "none" => deliveries'[k] = deliveries[k]
    BY <1>3 DEF SeedInsert, Record, RecordRefused, Insert
  <2> QED BY <2>1, <2>2
<1>4. ASSUME NEW r \in RunIds, Delivered(r) \/ AnswerLost(r)
      PROVE  /\ UNCHANGED deliveries
             /\ unsure \subseteq unsure' /\ withheld \subseteq withheld'
             /\ \A k \in Keys : announced[k] # "never" => announced'[k] # "never"
  <2>1. Read(Payload(runs[r].left)) /\ UNCHANGED deliveries
        /\ unsure \subseteq unsure' /\ withheld \subseteq withheld'
    BY <1>4 DEF Delivered, AnswerLost
  <2> QED BY <2>1, Reading
<1>5. CASE UNCHANGED vars
  BY <1>5 DEF vars
<1> QED BY <1>1, <1>2, <1>3, <1>4, <1>5 DEF Next, Step, Post

-----------------------------------------------------------------------------
(* LossesExcused needs to know that a run about to record has been read, or *)
(* has noted what was withheld.                                             *)
Covered(r) ==
  /\ runs[r].phase = "recording" =>
       \A k \in KeysOf(Message(runs[r].left)) : announced[k] # "never" \/ k \in withheld
  /\ runs[r].phase = "refusing" => KeysOf(Message(runs[r].left)) \subseteq withheld

LossInv == LossesExcused /\ \A r \in RunIds : Covered(r)

(* A step that moves one run keeps LossInv when it leaves that run covered  *)
(* and records only what is.                                                *)
LEMMA LossFrame ==
  ASSUME TypeOK, [Next]_vars, LossInv, NEW r \in RunIds,
         \A o \in RunIds : o # r => runs'[o] = runs[o],
         Covered(r)',
         \A k \in Keys : deliveries'[k] = "sent" =>
            deliveries[k] = "sent" \/ announced[k] # "never" \/ k \in withheld
  PROVE  LossInv'
<1>1. ASSUME NEW o \in RunIds, o # r PROVE Covered(o)'
  <2>1. runs'[o] = runs[o] /\ Covered(o)
    BY <1>1 DEF LossInv
  <2>2. runs[o].phase \in Posting => KeysOf(Message(runs[o].left)) \subseteq Keys
    BY InHandSplit
  <2>3. runs[o].phase = "recording" => runs[o].phase \in Posting
    BY DEF Posting
  <2> QED BY <2>1, <2>2, <2>3, Growing DEF Covered
<1>2. LossesExcused'
  BY Growing DEF LossInv, LossesExcused
<1> QED BY <1>1, <1>2 DEF LossInv

LEMMA LossStep == ASSUME TypeOK, [Next]_vars, LossInv PROVE LossInv'
<1> USE DEF table, history
<1>1. ASSUME NEW r \in RunIds, \A o \in RunIds : o # r => runs'[o] = runs[o],
             runs'[r].phase \notin {"recording", "refusing"},
             \A k \in Keys : deliveries'[k] = "sent" =>
                deliveries[k] = "sent" \/ announced[k] # "never" \/ k \in withheld
      PROVE  LossInv'
  BY <1>1, LossFrame DEF Covered
<1>2. ASSUME NEW k \in Keys, Qualify(k) \/ Unqualify(k) PROVE LossInv'
  BY <1>2 DEF Qualify, Unqualify, LossInv, LossesExcused, Covered
<1>3. ASSUME NEW r \in RunIds, Begin(r) PROVE LossInv'
  BY <1>1, <1>3, MovesOne DEF Begin
<1>4. ASSUME NEW r \in RunIds, SeedInsert(r) PROVE LossInv'
  <2>1. Move(r, "marking", <<>>) /\ Insert(qualifying, "seeded")
    BY <1>4 DEF SeedInsert, Goto
  <2> QED BY <1>1, <2>1, MovesOne, Inserting
<1>5. ASSUME NEW r \in RunIds, SeedComplete(r) \/ NotDelivered(r) \/ Cut(r) \/ AnswerLost(r)
      PROVE  LossInv'
  <2>1. Return(r) /\ UNCHANGED deliveries
    BY <1>5 DEF SeedComplete, NotDelivered, Cut, AnswerLost
  <2> QED BY <1>1, <2>1, ReturnsOne
<1>6. ASSUME NEW r \in RunIds, FindNew(r) PROVE LossInv'
  <2>1. UNCHANGED deliveries /\ (Return(r) \/ \E s : Move(r, "posting", s))
    BY <1>6 DEF FindNew, Goto
  <2> QED BY <1>1, <2>1, ReturnsOne, MovesOne
<1>7. ASSUME NEW r \in RunIds, Delivered(r) PROVE LossInv'
  <2>1. /\ Move(r, "recording", runs[r].left) /\ UNCHANGED deliveries
        /\ Read(Payload(runs[r].left))
        /\ withheld' = withheld \cup
                         (KeysOf(Message(runs[r].left)) \ Payload(runs[r].left))
    BY <1>7 DEF Delivered, Goto
  <2>2. runs[r].phase \in Posting
    BY <1>7 DEF Delivered, Posting
  <2>3. runs'[r].left = runs[r].left /\ runs'[r].phase = "recording"
        /\ \A o \in RunIds : o # r => runs'[o] = runs[o]
    BY <2>1, MovesOne
  <2>4. \A k \in KeysOf(Message(runs[r].left)) : announced'[k] # "never" \/ k \in withheld'
    BY <2>1, <2>2, Reading, InHandSplit
  <2>5. Covered(r)'
    BY <2>3, <2>4 DEF Covered
  <2> QED BY <2>1, <2>3, <2>5, LossFrame
<1>8. ASSUME NEW r \in RunIds, Rejected(r) PROVE LossInv'
  <2>1. /\ Move(r, "refusing", runs[r].left) /\ UNCHANGED deliveries
        /\ KeysOf(Message(runs[r].left)) \subseteq withheld'
    BY <1>8 DEF Rejected, Goto
  <2>2. runs'[r].left = runs[r].left /\ runs'[r].phase = "refusing"
        /\ \A o \in RunIds : o # r => runs'[o] = runs[o]
    BY <2>1, MovesOne
  <2>3. Covered(r)'
    BY <2>1, <2>2 DEF Covered
  <2> QED BY <2>1, <2>2, <2>3, LossFrame
<1>9. ASSUME NEW r \in RunIds, Record(r) \/ RecordRefused(r) PROVE LossInv'
  <2>1. /\ Insert(KeysOf(Message(runs[r].left)), "sent")
        /\ Return(r) \/ \E s : Move(r, "posting", s)
        /\ runs[r].phase \in {"recording", "refusing"}
    BY <1>9 DEF Record, RecordRefused, Goto
  <2>2. /\ \A o \in RunIds : o # r => runs'[o] = runs[o]
        /\ runs'[r].phase \notin {"recording", "refusing"}
    BY <2>1, ReturnsOne, MovesOne
  <2>3. \A k \in KeysOf(Message(runs[r].left)) : announced[k] # "never" \/ k \in withheld
    BY <2>1 DEF LossInv, Covered
  <2>4. \A k \in Keys : deliveries'[k] = "sent" =>
           deliveries[k] = "sent" \/ announced[k] # "never" \/ k \in withheld
    BY <2>1, <2>3, Inserting
  <2> QED BY <1>1, <2>2, <2>4
<1>10. ASSUME NEW r \in RunIds, Abandon(r) PROVE LossInv'
  BY <1>10 DEF Abandon, LossInv, LossesExcused, Covered
<1>11. CASE UNCHANGED vars
  BY <1>11 DEF vars, LossInv, LossesExcused, Covered
<1> QED BY <1>2, <1>3, <1>4, <1>5, <1>6, <1>7, <1>8, <1>9, <1>10, <1>11
        DEF Next, Step, Post

(* Nothing is recorded as sent that the room has not read, but for refused  *)
(* messages and embeds the clamp dropped.                                   *)
THEOREM LossesAreExcused == Spec => []LossesExcused
<1>1. Init => LossInv
  BY DEF Init, LossInv, LossesExcused, Covered, Idle
<1>2. TypeOK /\ LossInv /\ [Next]_vars => LossInv'
  BY LossStep
<1>3. LossInv => LossesExcused
  BY DEF LossInv
<1> QED BY <1>1, <1>2, <1>3, NotifyTypeCorrect, PTL DEF Spec

-----------------------------------------------------------------------------
(* DuplicatesExcused needs more: the keys a run has still to post are       *)
(* unread, two runs share none, and what was read without a record is about *)
(* to be recorded; or else the keys are in doubt.                           *)
Pending(r) == IF runs[r].phase = "posting" THEN InHand(r)
              ELSE IF runs[r].phase = "recording" THEN KeysOf(Rest(runs[r].left))
              ELSE {}
JustRead(r) == IF runs[r].phase = "recording" THEN Payload(runs[r].left) ELSE {}

HandsApart == \A r, o \in RunIds : r # o => InHand(r) \cap InHand(o) \subseteq unsure
PendingIsNews ==
  \A r \in RunIds : \A k \in Pending(r) : announced[k] # "never" => k \in unsure
ReadIsKnown ==
  \A k \in Keys : announced[k] # "never" /\ deliveries[k] = "none" =>
     k \in unsure \/ \E r \in RunIds : k \in JustRead(r)

DupInv == /\ DuplicatesExcused /\ HandsApart /\ PendingIsNews /\ ReadIsKnown
          /\ \A r \in RunIds : Apart(runs[r].left)

LEMMA PendingInHand ==
  ASSUME TypeOK, NEW r \in RunIds
  PROVE  /\ Pending(r) \subseteq InHand(r) /\ JustRead(r) \subseteq InHand(r)
         /\ InHand(r) \subseteq Keys
         /\ runs[r].phase \notin Posting =>
              runs[r].left = <<>> /\ InHand(r) = {}
<1>1. CASE runs[r].phase \in Posting
  BY <1>1, InHandSplit DEF Pending, JustRead
<1>2. CASE runs[r].phase \notin Posting
  <2>1. runs[r].left = <<>>
    BY <1>2 DEF TypeOK, RunsOK
  <2> QED BY <1>2, <2>1, EmptyHand DEF Pending, JustRead, InHand, Posting
<1> QED BY <1>1, <1>2

(* A step that moves one run keeps DupInv when it announces only from that  *)
(* run's hand, and leaves that hand apart, news, and known.                 *)
LEMMA DupFrame ==
  ASSUME TypeOK, TypeOK', [Next]_vars, DupInv, NEW r \in RunIds,
         \A o \in RunIds : o # r => runs'[o] = runs[o],
         \A k \in Keys : announced'[k] # announced[k] => k \in InHand(r),
         \A o \in RunIds : o # r => InHand(r)' \cap InHand(o) \subseteq unsure',
         Apart(runs'[r].left),
         \A k \in Pending(r)' : announced'[k] # "never" => k \in unsure',
         \A k \in Keys : announced'[k] = "again" =>
            announced[k] = "again" \/ k \in unsure',
         \A k \in Keys : announced'[k] # "never" /\ deliveries'[k] = "none" =>
            \/ k \in unsure' \/ k \in JustRead(r)'
            \/ (announced[k] # "never" /\ k \notin JustRead(r))
  PROVE  DupInv'
<1>1. \A o \in RunIds : o # r => /\ InHand(o)' = InHand(o) /\ Pending(o)' = Pending(o)
                                 /\ JustRead(o)' = JustRead(o)
  BY DEF InHand, Pending, JustRead
<1>2. unsure \subseteq unsure' /\ \A k \in Keys : deliveries'[k] = "none" => deliveries[k] = "none"
  BY Growing
<1>3. DuplicatesExcused'
  BY <1>2 DEF DupInv, DuplicatesExcused
<1>4. HandsApart'
  <2> SUFFICES ASSUME NEW a \in RunIds, NEW b \in RunIds, a # b
               PROVE  InHand(a)' \cap InHand(b)' \subseteq unsure'
    BY DEF HandsApart
  <2>1. CASE a # r /\ b # r
    BY <1>1, <1>2, <2>1 DEF DupInv, HandsApart
  <2>2. CASE a = r
    BY <1>1, <2>2
  <2>3. CASE b = r
    BY <1>1, <2>3
  <2> QED BY <2>1, <2>2, <2>3
<1>5. PendingIsNews'
  <2> SUFFICES ASSUME NEW o \in RunIds, NEW k \in Pending(o)', announced'[k] # "never"
               PROVE  k \in unsure'
    BY DEF PendingIsNews
  <2>1. CASE o # r
    <3>1. k \in Pending(o) /\ k \in InHand(o) /\ k \in Keys
      BY <1>1, <2>1, PendingInHand
    <3>2. CASE announced'[k] = announced[k]
      BY <1>2, <3>1, <3>2 DEF DupInv, PendingIsNews
    <3>3. CASE announced'[k] # announced[k]
      <4>1. k \in InHand(r)
        BY <3>1, <3>3
      <4> QED BY <1>2, <2>1, <3>1, <4>1 DEF DupInv, HandsApart
    <3> QED BY <3>2, <3>3
  <2> QED BY <2>1
<1>6. ReadIsKnown'
  <2> SUFFICES ASSUME NEW k \in Keys, announced'[k] # "never", deliveries'[k] = "none",
                      k \notin unsure'
               PROVE  \E o \in RunIds : k \in JustRead(o)'
    BY DEF ReadIsKnown
  <2>1. CASE k \in JustRead(r)'
    BY <2>1
  <2>2. CASE k \notin JustRead(r)'
    <3>1. announced[k] # "never" /\ k \notin JustRead(r) /\ deliveries[k] = "none"
      BY <1>2, <2>2
    <3>2. PICK o \in RunIds : k \in JustRead(o)
      BY <1>2, <3>1 DEF DupInv, ReadIsKnown
    <3> QED BY <1>1, <3>1, <3>2
  <2> QED BY <2>1, <2>2
<1> QED BY <1>3, <1>4, <1>5, <1>6 DEF DupInv

(* The same for a step that leaves the run with nothing in hand.            *)
LEMMA DupEmpty ==
  ASSUME TypeOK, TypeOK', [Next]_vars, DupInv, NEW r \in RunIds,
         \A o \in RunIds : o # r => runs'[o] = runs[o],
         runs'[r].left = <<>>,
         UNCHANGED announced,
         \A k \in JustRead(r) : deliveries'[k] # "none" \/ k \in unsure'
  PROVE  DupInv'
<1>1. InHand(r)' = {}
  BY EmptyHand DEF InHand
<1>2. Pending(r)' = {}
  <2>1. Pending(r)' \subseteq InHand(r)'
    <3>1. runs'[r].phase \notin Posting
      BY DEF TypeOK, RunsOK
    <3> QED BY <3>1 DEF Pending, Posting
  <2> QED BY <1>1, <2>1
<1>3. Apart(runs'[r].left)
  BY EmptyHand
<1>4. ASSUME NEW k \in Keys, announced'[k] # "never" /\ deliveries'[k] = "none"
      PROVE  k \in unsure' \/ (announced[k] # "never" /\ k \notin JustRead(r))
  <2>1. announced[k] # "never"
    BY <1>4
  <2>2. k \in JustRead(r) => k \in unsure'
    BY <1>4
  <2> QED BY <2>1, <2>2
<1>5. \A k \in Keys : announced'[k] = announced[k]
  OBVIOUS
<1>6. \A o \in RunIds : o # r => InHand(r)' \cap InHand(o) \subseteq unsure'
  BY <1>1
<1> QED BY <1>2, <1>3, <1>4, <1>5, <1>6, DupFrame

LEMMA DupStep == ASSUME TypeOK, TypeOK', [Next]_vars, DupInv PROVE DupInv'
<1> USE DEF table, history
<1>1. ASSUME NEW k \in Keys, Qualify(k) \/ Unqualify(k) PROVE DupInv'
  BY <1>1 DEF Qualify, Unqualify, DupInv, DuplicatesExcused, HandsApart, PendingIsNews,
              ReadIsKnown, Pending, JustRead, InHand
<1>2. ASSUME NEW r \in RunIds, Begin(r) PROVE DupInv'
  <2>1. UNCHANGED announced /\ JustRead(r) = {}
    BY <1>2 DEF Begin, Live, JustRead
  <2>2. runs'[r].left = <<>> /\ \A o \in RunIds : o # r => runs'[o] = runs[o]
    BY <1>2, MovesOne DEF Begin
  <2> QED BY <2>1, <2>2, DupEmpty
<1>3. ASSUME NEW r \in RunIds, SeedInsert(r) PROVE DupInv'
  <2>1. UNCHANGED announced /\ JustRead(r) = {}
    BY <1>3 DEF SeedInsert, JustRead
  <2>2. runs'[r].left = <<>> /\ \A o \in RunIds : o # r => runs'[o] = runs[o]
    BY <1>3, MovesOne DEF SeedInsert, Goto
  <2> QED BY <2>1, <2>2, DupEmpty
<1>4. ASSUME NEW r \in RunIds, SeedComplete(r) \/ NotDelivered(r) PROVE DupInv'
  <2>1. UNCHANGED announced /\ JustRead(r) = {} /\ Return(r)
    BY <1>4 DEF SeedComplete, NotDelivered, JustRead
  <2> QED BY <2>1, ReturnsOne, DupEmpty
<1>5. ASSUME NEW r \in RunIds, Cut(r) PROVE DupInv'
  <2>1. UNCHANGED announced /\ JustRead(r) \subseteq unsure' /\ Return(r)
    BY <1>5 DEF Cut, JustRead
  <2> QED BY <2>1, ReturnsOne, DupEmpty
<1>6. ASSUME NEW r \in RunIds, FindNew(r) PROVE DupInv'
  <2>1. UNCHANGED <<announced, deliveries>> /\ JustRead(r) = {} /\ runs[r].phase \notin Posting
    BY <1>6 DEF FindNew, JustRead, Posting
  <2>2. CASE Fresh = {}
    <3>1. Return(r)
      BY <1>6, <2>2 DEF FindNew
    <3> QED BY <2>1, <3>1, ReturnsOne, DupEmpty
  <2>3. CASE Fresh # {}
    <3>0. PICK limit \in Limits : \E items \in Selections(limit) :
            /\ Move(r, "posting", items)
            /\ unsure' = unsure \cup (KeysOf(items) \cap ElsewhereInHand(r))
      BY <1>6, <2>3 DEF FindNew, Goto
    <3>1. PICK s \in Selections(limit) :
            /\ Move(r, "posting", s)
            /\ unsure' = unsure \cup (KeysOf(s) \cap ElsewhereInHand(r))
      BY <3>0
    <3>2. s \in Seq(Items) /\ KeysOf(s) \subseteq Fresh /\ Apart(s)
      BY <2>3, Selected
    <3>3. /\ runs'[r].phase = "posting" /\ runs'[r].left = s
          /\ \A o \in RunIds : o # r => runs'[o] = runs[o]
      BY <3>1, MovesOne
    <3>4. InHand(r)' = KeysOf(s) /\ Pending(r)' = KeysOf(s)
      BY <3>3 DEF InHand, Pending
    <3>5. \A o \in RunIds : o # r => KeysOf(s) \cap InHand(o) \subseteq unsure'
      BY <3>1 DEF ElsewhereInHand
    <3>6. ASSUME NEW k \in KeysOf(s), announced'[k] # "never" PROVE k \in unsure'
      <4>1. k \in Keys /\ deliveries[k] = "none" /\ announced[k] # "never"
        BY <2>1, <3>2, <3>6 DEF Fresh, TypeOK
      <4>2. CASE k \in unsure
        BY <3>1, <4>2
      <4>3. CASE k \notin unsure
        <5>1. PICK o \in RunIds : k \in JustRead(o)
          BY <4>1, <4>3 DEF DupInv, ReadIsKnown
        <5>2. o # r /\ k \in InHand(o)
          BY <2>1, <5>1, PendingInHand
        <5> QED BY <3>5, <5>2
      <4> QED BY <4>2, <4>3
    <3>7. \A k \in Keys : k \notin JustRead(r)
      BY <2>1
    <3> QED BY <2>1, <3>2, <3>3, <3>4, <3>5, <3>6, <3>7, DupFrame
  <2> QED BY <2>2, <2>3
<1>7. ASSUME NEW r \in RunIds, Delivered(r) PROVE DupInv'
  <2> DEFINE left == runs[r].left
  <2>1. /\ Move(r, "recording", left) /\ UNCHANGED <<deliveries, unsure>>
        /\ Read(Payload(left)) /\ runs[r].phase = "posting"
    BY <1>7 DEF Delivered, Goto
  <2>2. /\ runs'[r].phase = "recording" /\ runs'[r].left = left
        /\ \A o \in RunIds : o # r => runs'[o] = runs[o]
    BY <2>1, MovesOne
  <2>3. /\ KeysOf(Rest(left)) \subseteq InHand(r) /\ Payload(left) \subseteq InHand(r)
        /\ KeysOf(Rest(left)) \cap Payload(left) = {}
        /\ InHand(r) \subseteq Keys /\ Pending(r) = InHand(r) /\ Apart(left)
        /\ JustRead(r) = {}
    <3>1. runs[r].phase \in Posting
      BY <2>1 DEF Posting
    <3>2. Apart(left)
      BY DEF DupInv
    <3> QED BY <2>1, <3>1, <3>2, InHandSplit DEF Pending, JustRead
  <2>4. /\ InHand(r)' = InHand(r) /\ Pending(r)' = KeysOf(Rest(left))
        /\ JustRead(r)' = Payload(left)
    BY <2>2 DEF InHand, Pending, JustRead
  <2>5. \A k \in Keys : k \notin Payload(left) => announced'[k] = announced[k]
    BY <2>1, Reading
  <2>6. \A o \in RunIds : o # r => InHand(r)' \cap InHand(o) \subseteq unsure'
    BY <2>1, <2>4 DEF DupInv, HandsApart
  <2>7. \A k \in InHand(r) : announced[k] # "never" => k \in unsure'
    BY <2>1, <2>3 DEF DupInv, PendingIsNews
  <2>8. \A k \in Pending(r)' : announced'[k] # "never" => k \in unsure'
    BY <2>3, <2>4, <2>5, <2>7
  <2>9. \A k \in Keys : announced'[k] = "again" => announced[k] = "again" \/ k \in unsure'
    <3> SUFFICES ASSUME NEW k \in Keys, announced'[k] = "again", k \in Payload(left)
                 PROVE  k \in unsure'
      BY <2>5
    <3>1. announced[k] # "never"
      BY <2>1, Reading
    <3> QED BY <2>3, <2>7, <3>1
  <2>10. \A k \in Keys : announced'[k] # announced[k] => k \in InHand(r)
    BY <2>3, <2>5
  <2>11. \A k \in Keys : announced'[k] # "never" =>
            k \in JustRead(r)' \/ (announced[k] # "never" /\ k \notin JustRead(r))
    BY <2>3, <2>4, <2>5
  <2>12. Apart(runs'[r].left)
    BY <2>2, <2>3
  <2> HIDE DEF left
  <2> QED BY <2>2, <2>6, <2>8, <2>9, <2>10, <2>11, <2>12, DupFrame
<1>8. ASSUME NEW r \in RunIds, AnswerLost(r) PROVE DupInv'
  <2> DEFINE left == runs[r].left
  <2>1. /\ Return(r) /\ unsure' = unsure \cup Payload(left)
        /\ Read(Payload(left)) /\ runs[r].phase = "posting"
    BY <1>8 DEF AnswerLost
  <2>2. /\ runs'[r].phase = "idle" /\ runs'[r].left = <<>>
        /\ \A o \in RunIds : o # r => runs'[o] = runs[o]
    BY <2>1, ReturnsOne
  <2>3. Payload(left) \subseteq InHand(r) /\ JustRead(r) = {}
    <3>1. runs[r].phase \in Posting
      BY <2>1 DEF Posting
    <3> QED BY <2>1, <3>1, InHandSplit DEF JustRead
  <2>4. InHand(r)' = {} /\ Pending(r)' = {} /\ Apart(runs'[r].left)
    BY <2>2, EmptyHand DEF InHand, Pending
  <2>5. \A k \in Keys : k \notin Payload(left) => announced'[k] = announced[k]
    BY <2>1, Reading
  <2>6. \A k \in Keys : announced'[k] # announced[k] => k \in InHand(r)
    BY <2>3, <2>5
  <2>7. \A k \in Keys : announced'[k] = "again" => announced[k] = "again" \/ k \in unsure'
    BY <2>1, <2>5
  <2>8. \A k \in Keys : announced'[k] # "never" =>
           k \in unsure' \/ (announced[k] # "never" /\ k \notin JustRead(r))
    BY <2>1, <2>3, <2>5
  <2> HIDE DEF left
  <2> QED BY <2>2, <2>4, <2>6, <2>7, <2>8, DupFrame
<1>9. ASSUME NEW r \in RunIds, Rejected(r) PROVE DupInv'
  <2>1. Move(r, "refusing", runs[r].left) /\ UNCHANGED <<announced, unsure>>
        /\ runs[r].phase = "posting"
    BY <1>9 DEF Rejected, Goto
  <2>2. /\ runs'[r].phase = "refusing" /\ runs'[r].left = runs[r].left
        /\ \A o \in RunIds : o # r => runs'[o] = runs[o]
    BY <2>1, MovesOne
  <2>3. InHand(r)' = InHand(r) /\ Pending(r)' = {} /\ JustRead(r) = {}
    BY <2>1, <2>2 DEF InHand, Pending, JustRead
  <2>4. \A o \in RunIds : o # r => InHand(r)' \cap InHand(o) \subseteq unsure'
    BY <2>1, <2>3 DEF DupInv, HandsApart
  <2>5. Apart(runs'[r].left)
    BY <2>2 DEF DupInv
  <2>6. \A k \in Keys : k \notin JustRead(r)
    BY <2>3
  <2> QED BY <2>1, <2>2, <2>3, <2>4, <2>5, <2>6, DupFrame
<1>10. ASSUME NEW r \in RunIds, Record(r) PROVE DupInv'
  <2> DEFINE left == runs[r].left
  <2>1. /\ UNCHANGED <<announced, unsure>> /\ runs[r].phase = "recording"
        /\ Insert(KeysOf(Message(left)), "sent")
    BY <1>10 DEF Record
  <2>2. /\ KeysOf(Rest(left)) \subseteq InHand(r)
        /\ Payload(left) \subseteq KeysOf(Message(left)) /\ InHand(r) \subseteq Keys
        /\ KeysOf(Message(left)) \subseteq InHand(r)
        /\ Apart(Rest(left)) /\ Pending(r) = KeysOf(Rest(left))
        /\ JustRead(r) = Payload(left)
    <3>1. runs[r].phase \in Posting
      BY <2>1 DEF Posting
    <3>2. Apart(left)
      BY DEF DupInv
    <3> QED BY <2>1, <3>1, <3>2, InHandSplit DEF Pending, JustRead
  <2>3. \A k \in JustRead(r) : deliveries'[k] # "none"
    BY <2>1, <2>2, Inserting
  <2>4. CASE Rest(left) = <<>>
    <3>1. Return(r)
      BY <1>10, <2>4 DEF Record
    <3> QED BY <2>1, <2>3, <3>1, ReturnsOne, DupEmpty
  <2>5. CASE Rest(left) # <<>>
    <3>1. Move(r, "posting", Rest(left))
      BY <1>10, <2>5 DEF Record, Goto
    <3>2. /\ runs'[r].phase = "posting" /\ runs'[r].left = Rest(left)
          /\ \A o \in RunIds : o # r => runs'[o] = runs[o]
      BY <3>1, MovesOne
    <3>3. InHand(r)' = KeysOf(Rest(left)) /\ Pending(r)' = KeysOf(Rest(left))
      BY <3>2 DEF InHand, Pending
    <3>4. \A o \in RunIds : o # r => InHand(r)' \cap InHand(o) \subseteq unsure'
      BY <2>1, <2>2, <3>3 DEF DupInv, HandsApart
    <3>5. \A k \in Pending(r)' : announced'[k] # "never" => k \in unsure'
      BY <2>1, <2>2, <3>3 DEF DupInv, PendingIsNews
    <3>6. Apart(runs'[r].left)
      BY <2>2, <3>2
    <3>7. ASSUME NEW k \in Keys, announced'[k] # "never" /\ deliveries'[k] = "none"
          PROVE  announced[k] # "never" /\ k \notin JustRead(r)
      BY <2>1, <2>3, <3>7
    <3>8. \A k \in Keys : announced'[k] = announced[k]
      BY <2>1
    <3> HIDE DEF left
    <3> QED BY <3>2, <3>4, <3>5, <3>6, <3>7, <3>8, DupFrame
  <2> QED BY <2>4, <2>5
<1>11. ASSUME NEW r \in RunIds, RecordRefused(r) PROVE DupInv'
  <2>1. UNCHANGED announced /\ JustRead(r) = {} /\ Return(r)
    BY <1>11 DEF RecordRefused, JustRead
  <2> QED BY <2>1, ReturnsOne, DupEmpty
<1>12. ASSUME NEW r \in RunIds, Abandon(r) PROVE DupInv'
  BY <1>12 DEF Abandon, DupInv, DuplicatesExcused, HandsApart, PendingIsNews,
               ReadIsKnown, Pending, JustRead, InHand
<1>13. CASE UNCHANGED vars
  BY <1>13 DEF vars, DupInv, DuplicatesExcused, HandsApart, PendingIsNews,
               ReadIsKnown, Pending, JustRead, InHand
<1> QED BY <1>1, <1>2, <1>3, <1>4, <1>5, <1>6, <1>7, <1>8, <1>9, <1>10, <1>11, <1>12,
           <1>13 DEF Next, Step, Post

(* Nothing is announced twice but for a message that could not be recorded, *)
(* or that two runs had in hand, however many runs are alive and whatever   *)
(* is cut.                                                                  *)
THEOREM DuplicatesAreExcused == Spec => []DuplicatesExcused
<1>1. Init => DupInv
  <2> SUFFICES ASSUME Init PROVE DupInv
    OBVIOUS
  <2>1. \A r \in RunIds : runs[r].phase = "idle" /\ runs[r].left = <<>>
    BY DEF Init, Idle
  <2>2. \A k \in Keys : announced[k] = "never"
    BY DEF Init
  <2> QED BY <2>1, <2>2, EmptyHand DEF DupInv, DuplicatesExcused, HandsApart,
             PendingIsNews, ReadIsKnown, Pending, JustRead, InHand
<1>2. TypeOK /\ TypeOK' /\ DupInv /\ [Next]_vars => DupInv'
  BY DupStep
<1>3. DupInv => DuplicatesExcused
  BY DEF DupInv
<1> QED BY <1>1, <1>2, <1>3, NotifyTypeCorrect, PTL DEF Spec

-----------------------------------------------------------------------------
(* Before the baseline nothing is found or announced, and a run about to    *)
(* complete it has seeded the backlog; from then on the backlog is seeded   *)
(* and in nobody's hand, and no run that holds the job seeds.               *)
BeforeBaseline ==
  /\ \A r \in RunIds : runs[r].phase \in {"idle", "seeding", "marking"}
  /\ \A k \in Keys : announced[k] = "never" /\ deliveries[k] # "sent"
  /\ backlog \subseteq qualifying
  /\ \A r \in RunIds : runs[r].phase = "marking" =>
       \A k \in backlog : deliveries[k] = "seeded"
AfterBaseline ==
  /\ \A k \in backlog : deliveries[k] = "seeded" /\ announced[k] = "never"
  /\ \A r \in RunIds : InHand(r) \cap backlog = {}
  /\ \A r \in RunIds : runs[r].phase = "seeding" => holder # r

BacklogInv == (~baseline => BeforeBaseline) /\ (baseline => AfterBaseline)

(* After the baseline a step that moves one run keeps it when that run's    *)
(* hand gains no backlog and only what it had is announced.                 *)
LEMMA AfterFrame ==
  ASSUME TypeOK, [Next]_vars, AfterBaseline, UNCHANGED backlog, NEW r \in RunIds,
         \A o \in RunIds : o # r => runs'[o] = runs[o],
         InHand(r)' \cap backlog = {},
         runs'[r].phase = "seeding" => holder' # r,
         \A o \in RunIds : o # r => holder' # o \/ holder' = holder,
         \A k \in Keys : announced'[k] # announced[k] => k \in InHand(r)
  PROVE  AfterBaseline'
<1>1. \A k \in backlog : k \in Keys /\ deliveries'[k] = "seeded"
  BY Growing DEF AfterBaseline, TypeOK
<1>2. \A k \in backlog : announced'[k] = "never"
  BY <1>1 DEF AfterBaseline
<1>3. \A o \in RunIds : InHand(o)' \cap backlog' = {}
  BY DEF AfterBaseline, InHand
<1>4. \A o \in RunIds : runs'[o].phase = "seeding" => holder' # o
  BY DEF AfterBaseline
<1> QED BY <1>1, <1>2, <1>3, <1>4 DEF AfterBaseline

LEMMA BacklogStep == ASSUME TypeOK, TypeOK', [Next]_vars, BacklogInv PROVE BacklogInv'
<1> USE DEF table, history
<1>1. ASSUME NEW k \in Keys, Qualify(k) PROVE BacklogInv'
  BY <1>1 DEF Qualify, BacklogInv, BeforeBaseline, AfterBaseline, InHand
<1>2. ASSUME NEW k \in Keys, Unqualify(k) PROVE BacklogInv'
  BY <1>2 DEF Unqualify, BacklogInv, BeforeBaseline, AfterBaseline, InHand
<1>3. ASSUME NEW r \in RunIds, Begin(r) PROVE BacklogInv'
  <2> DEFINE first == IF baseline THEN "finding" ELSE "seeding"
  <2>1. /\ Move(r, first, <<>>) /\ holder' = r /\ holder = Nobody
        /\ UNCHANGED <<qualifying, deliveries, baseline, announced, backlog>>
    BY <1>3 DEF Begin
  <2>2. /\ runs'[r].phase = first /\ runs'[r].left = <<>>
        /\ \A o \in RunIds : o # r => runs'[o] = runs[o]
    <3> HIDE DEF first
    <3> QED BY <2>1, MovesOne
  <2>3. CASE ~baseline
    BY <2>1, <2>2, <2>3 DEF BacklogInv, BeforeBaseline
  <2>4. CASE baseline
    <3>1. InHand(r)' = {}
      BY <2>2, EmptyHand DEF InHand
    <3>2. AfterBaseline'
      BY <2>1, <2>2, <2>4, <3>1, AfterFrame DEF BacklogInv
    <3> QED BY <2>1, <2>4, <3>2 DEF BacklogInv
  <2> QED BY <2>3, <2>4
<1>4. ASSUME NEW r \in RunIds, SeedInsert(r) PROVE BacklogInv'
  <2>1. /\ Move(r, "marking", <<>>) /\ Insert(qualifying, "seeded")
        /\ UNCHANGED <<qualifying, baseline, announced, backlog, holder>>
    BY <1>4 DEF SeedInsert, Goto
  <2>2. /\ runs'[r].phase = "marking" /\ runs'[r].left = <<>>
        /\ \A o \in RunIds : o # r => runs'[o] = runs[o]
    BY <2>1, MovesOne
  <2>3. CASE ~baseline
    <3>1. \A k \in Keys : deliveries'[k] # "sent"
      BY <2>1, <2>3, Inserting DEF BacklogInv, BeforeBaseline
    <3>2. \A k \in backlog : deliveries'[k] = "seeded"
      <4>1. \A k \in backlog : k \in qualifying /\ k \in Keys /\ deliveries[k] # "sent"
        BY <2>3 DEF BacklogInv, BeforeBaseline, TypeOK
      <4>2. \A k \in Keys : deliveries[k] \in {"none", "seeded", "sent"}
        BY DEF TypeOK
      <4> QED BY <2>1, <4>1, <4>2, Inserting
    <3>3. \A o \in RunIds : runs'[o].phase \in {"idle", "seeding", "marking"}
      BY <2>2, <2>3 DEF BacklogInv, BeforeBaseline
    <3> QED BY <2>1, <2>3, <3>1, <3>2, <3>3 DEF BacklogInv, BeforeBaseline
  <2>4. CASE baseline
    <3>1. InHand(r)' = {}
      BY <2>2, EmptyHand DEF InHand
    <3>2. AfterBaseline'
      BY <2>1, <2>2, <2>4, <3>1, AfterFrame DEF BacklogInv
    <3> QED BY <2>1, <2>4, <3>2 DEF BacklogInv
  <2> QED BY <2>3, <2>4
<1>5. ASSUME NEW r \in RunIds, SeedComplete(r) PROVE BacklogInv'
  <2>1. /\ Return(r) /\ runs[r].phase = "marking" /\ baseline' = TRUE
        /\ UNCHANGED <<qualifying, deliveries, announced, backlog>>
    BY <1>5 DEF SeedComplete
  <2>2. /\ runs'[r].phase = "idle" /\ runs'[r].left = <<>> /\ holder' = Nobody
        /\ \A o \in RunIds : o # r => runs'[o] = runs[o]
    BY <2>1, ReturnsOne
  <2>3. InHand(r)' = {}
    BY <2>2, EmptyHand DEF InHand
  <2>4. Nobody \notin RunIds
    BY NotifyAssumption
  <2>5. CASE ~baseline
    <3>1. \A o \in RunIds : InHand(o) = {}
      BY <2>5, PendingInHand DEF BacklogInv, BeforeBaseline, Posting
    <3>2. \A o \in RunIds : InHand(o)' = {}
      BY <2>2, <2>3, <3>1 DEF InHand
    <3>3. \A k \in backlog : deliveries[k] = "seeded" /\ announced[k] = "never"
      BY <2>1, <2>5 DEF BacklogInv, BeforeBaseline, TypeOK
    <3> QED BY <2>1, <2>2, <2>4, <3>2, <3>3 DEF BacklogInv, AfterBaseline
  <2>6. CASE baseline
    <3>1. AfterBaseline'
      BY <2>1, <2>2, <2>3, <2>4, <2>6, AfterFrame DEF BacklogInv
    <3> QED BY <2>1, <3>1 DEF BacklogInv
  <2> QED BY <2>5, <2>6
<1>6. ASSUME NEW r \in RunIds, baseline,
             UNCHANGED <<baseline, backlog>>,
             \A o \in RunIds : o # r => runs'[o] = runs[o],
             InHand(r)' \cap backlog = {},
             runs'[r].phase # "seeding",
             holder' = holder \/ holder' = Nobody,
             \A k \in Keys : announced'[k] # announced[k] => k \in InHand(r)
      PROVE  BacklogInv'
  <2>1. AfterBaseline'
    BY <1>6, NotifyAssumption, AfterFrame DEF BacklogInv
  <2> QED BY <1>6, <2>1 DEF BacklogInv
<1>7. ASSUME NEW r \in RunIds, runs[r].phase \in Posting \cup {"finding"}
      PROVE  baseline /\ InHand(r) \cap backlog = {}
  BY <1>7 DEF BacklogInv, BeforeBaseline, AfterBaseline, Posting
<1>8. ASSUME NEW r \in RunIds, FindNew(r) PROVE BacklogInv'
  <2>1. UNCHANGED <<deliveries, baseline, backlog, announced>> /\ baseline
    BY <1>7, <1>8 DEF FindNew
  <2>2. CASE Fresh = {}
    <3>1. Return(r)
      BY <1>8, <2>2 DEF FindNew
    <3>2. /\ runs'[r].phase = "idle" /\ runs'[r].left = <<>> /\ holder' = Nobody
          /\ \A o \in RunIds : o # r => runs'[o] = runs[o]
      BY <3>1, ReturnsOne
    <3>3. InHand(r)' = {}
      BY <3>2, EmptyHand DEF InHand
    <3> QED BY <1>6, <2>1, <3>2, <3>3
  <2>3. CASE Fresh # {}
    <3>0. PICK limit \in Limits : \E items \in Selections(limit) : Goto(r, "posting", items)
      BY <1>8, <2>3 DEF FindNew
    <3>1. PICK s \in Selections(limit) : Goto(r, "posting", s)
      BY <3>0
    <3>2. KeysOf(s) \subseteq Fresh
      BY <2>3, Selected
    <3>3. /\ runs'[r].phase = "posting" /\ runs'[r].left = s /\ holder' = holder
          /\ \A o \in RunIds : o # r => runs'[o] = runs[o]
      BY <3>1, MovesOne DEF Goto
    <3>4. InHand(r)' \cap backlog = {}
      <4>1. \A k \in backlog : deliveries[k] = "seeded"
        BY <2>1 DEF BacklogInv, AfterBaseline
      <4> QED BY <3>2, <3>3, <4>1 DEF InHand, Fresh
    <3> QED BY <1>6, <2>1, <3>3, <3>4
  <2> QED BY <2>2, <2>3
<1>9. ASSUME NEW r \in RunIds, Delivered(r) \/ Rejected(r) PROVE BacklogInv'
  <2>1. /\ runs[r].phase = "posting" /\ UNCHANGED <<baseline, backlog, holder>>
        /\ Move(r, "recording", runs[r].left) \/ Move(r, "refusing", runs[r].left)
        /\ UNCHANGED announced \/ Read(Payload(runs[r].left))
    BY <1>9 DEF Delivered, Rejected, Goto
  <2>2. /\ runs'[r].phase # "seeding" /\ runs'[r].left = runs[r].left
        /\ \A o \in RunIds : o # r => runs'[o] = runs[o]
    BY <2>1, MovesOne
  <2>3. baseline /\ InHand(r)' \cap backlog = {}
    BY <1>7, <2>1, <2>2 DEF InHand, Posting
  <2>4. Payload(runs[r].left) \subseteq InHand(r)
    BY <2>1, InHandSplit DEF Posting
  <2>5. \A k \in Keys : announced'[k] # announced[k] => k \in InHand(r)
    BY <2>1, <2>4, Reading
  <2> QED BY <1>6, <2>1, <2>2, <2>3, <2>5
<1>10. ASSUME NEW r \in RunIds, AnswerLost(r) \/ NotDelivered(r) \/ RecordRefused(r)
       PROVE  BacklogInv'
  <2>1. /\ runs[r].phase \in Posting /\ UNCHANGED <<baseline, backlog>> /\ Return(r)
        /\ UNCHANGED announced \/ Read(Payload(runs[r].left))
    BY <1>10 DEF AnswerLost, NotDelivered, RecordRefused, Posting
  <2>2. /\ runs'[r].phase = "idle" /\ runs'[r].left = <<>> /\ holder' = Nobody
        /\ \A o \in RunIds : o # r => runs'[o] = runs[o]
    BY <2>1, ReturnsOne
  <2>3. InHand(r)' = {} /\ baseline
    BY <1>7, <2>1, <2>2, EmptyHand DEF InHand
  <2>4. Payload(runs[r].left) \subseteq InHand(r)
    BY <2>1, InHandSplit
  <2>5. \A k \in Keys : announced'[k] # announced[k] => k \in InHand(r)
    BY <2>1, <2>4, Reading
  <2> QED BY <1>6, <2>1, <2>2, <2>3, <2>5
<1>11. ASSUME NEW r \in RunIds, Record(r) PROVE BacklogInv'
  <2>1. /\ runs[r].phase \in Posting /\ UNCHANGED <<baseline, backlog, announced>>
    BY <1>11 DEF Record, Posting
  <2>2. CASE Rest(runs[r].left) = <<>>
    <3>1. Return(r)
      BY <1>11, <2>2 DEF Record
    <3>2. /\ runs'[r].phase = "idle" /\ runs'[r].left = <<>> /\ holder' = Nobody
          /\ \A o \in RunIds : o # r => runs'[o] = runs[o]
      BY <3>1, ReturnsOne
    <3>3. InHand(r)' = {} /\ baseline
      BY <1>7, <2>1, <3>2, EmptyHand DEF InHand
    <3> QED BY <1>6, <2>1, <3>2, <3>3
  <2>3. CASE Rest(runs[r].left) # <<>>
    <3>1. Move(r, "posting", Rest(runs[r].left)) /\ holder' = holder
      BY <1>11, <2>3 DEF Record, Goto
    <3>2. /\ runs'[r].phase = "posting" /\ runs'[r].left = Rest(runs[r].left)
          /\ \A o \in RunIds : o # r => runs'[o] = runs[o]
      BY <3>1, MovesOne
    <3>3. KeysOf(Rest(runs[r].left)) \subseteq InHand(r)
      BY <2>1, InHandSplit
    <3>4. InHand(r)' \cap backlog = {} /\ baseline
      BY <1>7, <2>1, <3>2, <3>3 DEF InHand
    <3> QED BY <1>6, <2>1, <3>1, <3>2, <3>4
  <2> QED BY <2>2, <2>3
<1>12. ASSUME NEW r \in RunIds, Cut(r) PROVE BacklogInv'
  <2>1. Return(r) /\ UNCHANGED <<qualifying, deliveries, baseline, backlog, announced>>
    BY <1>12 DEF Cut
  <2>2. /\ runs'[r].phase = "idle" /\ runs'[r].left = <<>> /\ holder' = Nobody
        /\ \A o \in RunIds : o # r => runs'[o] = runs[o]
    BY <2>1, ReturnsOne
  <2>3. InHand(r)' = {}
    BY <2>2, EmptyHand DEF InHand
  <2>4. CASE ~baseline
    BY <2>1, <2>2, <2>4 DEF BacklogInv, BeforeBaseline
  <2>5. CASE baseline
    BY <1>6, <2>1, <2>2, <2>3, <2>5
  <2> QED BY <2>4, <2>5
<1>13. ASSUME NEW r \in RunIds, Abandon(r) PROVE BacklogInv'
  BY <1>13, NotifyAssumption
     DEF Abandon, BacklogInv, BeforeBaseline, AfterBaseline, InHand
<1>14. CASE UNCHANGED vars
  BY <1>14 DEF vars, BacklogInv, BeforeBaseline, AfterBaseline, InHand
<1> QED BY <1>1, <1>2, <1>3, <1>4, <1>5, <1>8, <1>9, <1>10, <1>11, <1>12, <1>13, <1>14
        DEF Next, Step, Post

THEOREM BacklogInvariant == Spec => [](TypeOK /\ BacklogInv)
<1>1. Init => BacklogInv
  BY DEF Init, Idle, BacklogInv, BeforeBaseline
<1>2. TypeOK /\ TypeOK' /\ BacklogInv /\ [Next]_vars => BacklogInv'
  BY BacklogStep
<1> QED BY <1>1, <1>2, NotifyTypeCorrect, PTL DEF Spec

(* Enabling a webhook is not an event: the backlog is never announced.      *)
THEOREM BacklogIsSilent == Spec => []BacklogStaysSilent
<1>1. TypeOK /\ BacklogInv => BacklogStaysSilent
  BY DEF TypeOK, BacklogInv, BeforeBaseline, AfterBaseline, BacklogStaysSilent
<1> QED BY <1>1, BacklogInvariant, PTL

(* Once a channel is live only a run that lost its job may still seed.      *)
THEOREM SeedingIsOver == Spec => SeedsOnce
<1> DEFINE NoSeed == \A k \in Keys : deliveries'[k] = "seeded" => deliveries[k] = "seeded"
<1>1. ASSUME TypeOK, BacklogInv, [Next]_vars, baseline /\ ~Stray PROVE NoSeed
  <2> USE DEF table, history
  <2>1. ASSUME NEW r \in RunIds PROVE ~SeedInsert(r)
    <3>1. runs[r].phase = "seeding" => holder # r /\ Live(r)
      BY <1>1 DEF BacklogInv, AfterBaseline, Live
    <3> QED BY <1>1, <3>1 DEF SeedInsert, Stray
  <2>2. ASSUME NEW r \in RunIds, Record(r) \/ RecordRefused(r) PROVE NoSeed
    BY <1>1, <2>2, Inserting DEF Record, RecordRefused
  <2>3. ASSUME UNCHANGED deliveries PROVE NoSeed
    BY <2>3
  <2>4. ASSUME NEW k \in Keys, Qualify(k) \/ Unqualify(k) PROVE UNCHANGED deliveries
    BY <2>4 DEF Qualify, Unqualify
  <2>5. ASSUME NEW r \in RunIds,
               \/ Begin(r) \/ SeedComplete(r) \/ FindNew(r) \/ Post(r)
               \/ Cut(r) \/ Abandon(r)
        PROVE  UNCHANGED deliveries
    BY <2>5 DEF Begin, SeedComplete, FindNew, Post, Delivered, AnswerLost, NotDelivered,
                Rejected, Cut, Abandon
  <2>6. CASE UNCHANGED vars
    BY <2>3, <2>6 DEF vars
  <2> HIDE DEF NoSeed
  <2> QED BY <1>1, <2>1, <2>2, <2>3, <2>4, <2>5, <2>6 DEF Next, Step
<1>2. TypeOK /\ BacklogInv /\ [Next]_vars => [baseline /\ ~Stray => NoSeed]_vars
  BY <1>1
<1> HIDE DEF NoSeed
<1>3. Spec => [][baseline /\ ~Stray => NoSeed]_vars
  BY <1>2, BacklogInvariant, PTL DEF Spec
<1> QED BY <1>3 DEF SeedsOnce, NoSeed
=============================================================================
