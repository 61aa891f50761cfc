-------------------------- MODULE ForumListingProofs --------------------------
(***************************************************************************)
(* Theorems about the mirror of the forum's listings, for any threads,     *)
(* plots, titles, page sizes and number of events.                         *)
(***************************************************************************)
EXTENDS ForumListing, SequenceTheorems, FiniteSetTheorems, TLAPS

LEMMA ForumNumbers ==
  /\ PageSize \in Nat \ {0} /\ MaxListingPages \in Nat \ {0}
  /\ FreshEvents \in Nat /\ MirroredEvents \in Nat
  /\ IsFiniteSet(Threads) /\ Cardinality(Threads) <= PageSize * MaxListingPages
BY ForumAssumption

(* The least of two numbers.                                                *)
LEMMA MinOfTwo ==
  ASSUME NEW a \in Int, NEW b \in Int
  PROVE  Min({a, b}) = IF a <= b THEN a ELSE b
<1> DEFINE m == IF a <= b THEN a ELSE b
<1>1. m \in {a, b} /\ \A y \in {a, b} : m <= y
  OBVIOUS
<1>2. \A x \in {a, b} : (\A y \in {a, b} : x <= y) => x = m
  BY <1>1
<1> QED BY <1>1, <1>2 DEF Min

(* The position of the last thread before a page.                           *)
LEMMA PageStart ==
  ASSUME NEW n \in Nat \ {0}
  PROVE  /\ (n - 1) * PageSize \in Nat /\ n * PageSize \in Nat
         /\ n * PageSize = (n - 1) * PageSize + PageSize
         /\ (n + 1 - 1) * PageSize = n * PageSize
         /\ PageSize <= n * PageSize
<1>1. PageSize \in Nat \ {0} /\ n - 1 \in Nat
  BY ForumNumbers
<1>2. (n - 1) * PageSize \in Nat /\ n * PageSize \in Nat
  BY <1>1
<1>3. n * PageSize = (n - 1) * PageSize + PageSize
  BY <1>1
<1> QED BY <1>1, <1>2, <1>3

(* A page shows the threads at its positions.                               *)
LEMMA PageMembers ==
  ASSUME listing \in [Feeds -> Seq(Threads)], NEW f \in Feeds, NEW n \in Nat \ {0}
  PROVE  /\ PageOf(f, n) = {listing[f][k] : k \in {i \in DOMAIN listing[f] :
                              (n - 1) * PageSize < i /\ i <= n * PageSize}}
         /\ PageOf(f, n) \subseteq Listed(f) /\ Listed(f) \subseteq Threads
<1> DEFINE s == listing[f]
           a == (n - 1) * PageSize + 1
           b == Min({n * PageSize, Len(listing[f])})
           ps == n * PageSize
<1>1. s \in Seq(Threads) /\ Len(s) \in Nat /\ DOMAIN s = 1..Len(s)
  BY LenProperties
<1>2. a \in Nat \ {0} /\ ps \in Nat
  <2>1. (n - 1) * PageSize \in Nat /\ ps \in Nat
    BY PageStart
  <2> DEFINE z == (n - 1) * PageSize
  <2> HIDE DEF z
  <2>2. z + 1 \in Nat \ {0}
    BY <2>1 DEF z
  <2> QED BY <2>1, <2>2 DEF z
<1>3. b = IF ps <= Len(s) THEN ps ELSE Len(s)
  BY <1>1, <1>2, MinOfTwo
<1>4. b \in Nat /\ b <= Len(s) /\ b <= ps
  BY <1>1, <1>2, <1>3
<1>5. \A i \in a..b : s[i] \in Threads
  BY <1>1, <1>2, <1>4, ElementOfSeq
<1> DEFINE q == SubSeq(s, a, b)
<1>6. /\ q \in Seq(Threads) /\ Len(q) = (IF a <= b THEN b - a + 1 ELSE 0)
      /\ \A i \in 1..(b - a + 1) : q[i] = s[a + i - 1]
  <2> HIDE DEF s, a, b
  <2> QED BY <1>2, <1>4, <1>5, SubSeqProperties
<1>7. DOMAIN q = 1..Len(q)
  BY <1>6, LenProperties
<1>8. ToSet(q) = {q[i] : i \in 1..Len(q)}
  BY <1>7 DEF ToSet
<1> HIDE DEF q
<1>9. {q[i] : i \in 1..Len(q)} = {s[k] : k \in a..b}
  <2> HIDE DEF s, a, b, ps
  <2>1. ASSUME NEW i \in 1..Len(q) PROVE \E k \in a..b : q[i] = s[k]
    <3>1. i \in 1..(b - a + 1) /\ a + i - 1 \in a..b
      BY <1>2, <1>4, <1>6
    <3> QED BY <1>6, <3>1
  <2>2. ASSUME NEW k \in a..b PROVE \E i \in 1..Len(q) : q[i] = s[k]
    <3>1. k - a + 1 \in 1..(b - a + 1) /\ k - a + 1 \in 1..Len(q)
      BY <1>2, <1>4, <1>6
    <3>2. a + (k - a + 1) - 1 = k
      BY <1>2, <1>4
    <3> QED BY <1>6, <3>1, <3>2
  <2>3. {q[i] : i \in 1..Len(q)} \subseteq {s[k] : k \in a..b}
    BY <2>1
  <2>4. {s[k] : k \in a..b} \subseteq {q[i] : i \in 1..Len(q)}
    BY <2>2
  <2> QED BY <2>3, <2>4
<1>10. {i \in DOMAIN s : a - 1 < i /\ i <= ps} = a..b
  <2> HIDE DEF s, a, b, ps
  <2>1. \A i \in a..b : i \in 1..Len(s) /\ a - 1 < i /\ i <= ps
    BY <1>1, <1>2, <1>4
  <2>2. ASSUME NEW i \in 1..Len(s), a - 1 < i, i <= ps PROVE i \in a..b
    <3>1. i \in Int /\ i <= Len(s)
      BY <1>1
    <3>2. a <= i
      BY <1>2, <2>2, <3>1
    <3>3. i <= b
      BY <1>3, <2>2, <3>1
    <3> QED BY <1>2, <1>4, <3>1, <3>2, <3>3
  <2> QED BY <1>1, <2>1, <2>2
<1>11. (n - 1) * PageSize = a - 1
  BY <1>2, PageStart
<1>12. PageOf(f, n) = {s[k] : k \in a..b}
  BY <1>8, <1>9 DEF PageOf, q
<1>13. PageOf(f, n) \subseteq Listed(f) /\ Listed(f) \subseteq Threads
  <2>1. a..b \subseteq DOMAIN s
    BY <1>10
  <2>2. \A k \in DOMAIN s : s[k] \in Threads
    BY <1>1, ElementOfSeq
  <2> QED BY <1>12, <2>1, <2>2 DEF Listed, ToSet
<1> QED BY <1>10, <1>11, <1>12, <1>13

LEMMA Quotient ==
  ASSUME NEW x \in Nat, NEW y \in Nat \ {0}
  PROVE  x \div y \in Nat /\ x < (x \div y + 1) * y
OBVIOUS

(* No position is beyond the last page.                                     *)
LEMMA LastPageCovers ==
  ASSUME listing \in [Feeds -> Seq(Threads)], NEW f \in Feeds
  PROVE  /\ LastPage(f) \in Nat \ {0}
         /\ \A k \in DOMAIN listing[f] : k <= LastPage(f) * PageSize
<1> DEFINE len == Len(listing[f])
           d == (len - 1) \div PageSize
<1>1. PageSize \in Nat \ {0}
  BY ForumNumbers
<1>2. len \in Nat /\ DOMAIN listing[f] = 1..len
  BY LenProperties
<1>3. CASE listing[f] = << >>
  <2>1. len = 0
    BY <1>3, EmptySeq
  <2> QED BY <1>1, <1>2, <1>3, <2>1 DEF LastPage
<1>4. CASE listing[f] # << >>
  <2>1. len >= 1
    BY <1>2, <1>4, EmptySeq
  <2>2. d \in Nat /\ len - 1 < (d + 1) * PageSize
    <3>1. len - 1 \in Nat
      BY <1>2, <2>1
    <3> HIDE DEF len
    <3> QED BY <1>1, <3>1, Quotient
  <2> QED BY <1>1, <1>2, <1>4, <2>1, <2>2 DEF LastPage
<1> QED BY <1>3, <1>4

-----------------------------------------------------------------------------
(* The shapes of what the crawl and the operator have in hand.              *)
Walks == [phase : {"idle", "fetched", "stored", "digested"}, feed : Feeds, page : Pages,
          mode : Modes, entries : SUBSET Entries, last : Nat \ {0}, new : SUBSET Threads]
Pastes == [phase : {"read"}, thread : Threads, plots : SUBSET Plots,
           verified : BOOLEAN, resolved : BOOLEAN]

ForumShapes ==
  /\ ForumTypeOK
  /\ walk \in Walks /\ (walk.phase = "idle" => walk = Idle)
  /\ paste \in Pastes \/ paste = NoPaste
  /\ digest \in [Feeds -> [Pages -> (SUBSET Entries) \cup {NoDigest}]]
  /\ atStartOf \in [Feeds -> SUBSET Threads]
  /\ forumEvents \in Nat

LEMMA IdleIsAWalk == Idle \in Walks
BY ForumNumbers DEF Idle, Walks, Feeds, Pages, Modes

LEMMA RowIsARow ==
  ASSUME NEW f \in Feeds, NEW b \in BOOLEAN
  PROVE  Row(f, b) \in ReportRow
BY DEF Row, ReportRow, IsReportActive, Feeds

LEMMA EntriesOfAPage ==
  ASSUME ForumShapes, NEW f \in Feeds, NEW n \in Pages
  PROVE  /\ {Entry(t) : t \in PageOf(f, n)} \in SUBSET Entries
         /\ {e.thread : e \in {Entry(t) : t \in PageOf(f, n)}} = PageOf(f, n)
         /\ PageOf(f, n) \subseteq Threads
<1>1. PageOf(f, n) \subseteq Threads
  BY PageMembers DEF ForumShapes, ForumTypeOK, Pages
<1>2. ASSUME NEW t \in Threads PROVE Entry(t) \in Entries /\ Entry(t).thread = t
  BY DEF Entry, Entries, ForumShapes, ForumTypeOK
<1> QED BY <1>1, <1>2

LEMMA ShapesInit == ForumInit => ForumShapes
<1> SUFFICES ASSUME ForumInit PROVE ForumShapes
  OBVIOUS
<1> USE DEF ForumInit
<1>1. listing \in [Feeds -> Seq(Threads)] /\ title \in [Threads -> Titles]
  BY ForumAssumption DEF NothingStored, AllStored
<1>2. resolved \subseteq Threads /\ plotTable \subseteq Plots
  BY ForumAssumption
<1>3. report \in [Threads -> ReportRow \cup {NoReport}]
  <2>1. CASE NothingStored
    BY <2>1 DEF NothingStored
  <2>2. CASE AllStored
    <3>1. ASSUME NEW t \in Threads, \E f \in Feeds : t \in Listed(f)
          PROVE  Row(CHOOSE f \in Feeds : t \in Listed(f), FALSE) \in ReportRow
      BY <3>1, RowIsARow
    <3> QED BY <2>2, <3>1 DEF AllStored
  <2> QED BY <2>1, <2>2
<1>4. link \in [Threads -> [Plots -> LinkSource]]
  <2>1. CASE NothingStored
    BY <2>1 DEF NothingStored, LinkSource
  <2>2. CASE AllStored
    <3> DEFINE L(t, x) == IF report[t] # NoReport /\ x \in Matches(title[t]) THEN "parsed" ELSE "none"
    <3>1. link = [t \in Threads |-> [x \in Plots |-> L(t, x)]]
      BY <2>2 DEF AllStored
    <3>2. \A t \in Threads, x \in Plots : L(t, x) \in LinkSource
      BY DEF LinkSource
    <3> HIDE DEF L
    <3> QED BY <3>1, <3>2
  <2> QED BY <2>1, <2>2
<1>5. backfilled \subseteq Feeds /\ forumEvents \in Nat
  BY ForumNumbers DEF NothingStored, AllStored
<1>6. pageJob \in [Feeds -> [Pages -> Modes \cup {"none"}]]
  OBVIOUS
<1>7. walk \in Walks /\ walk = Idle /\ walk.phase = "idle"
  BY IdleIsAWalk DEF Idle
<1>8. paste = NoPaste /\ paste.plots \subseteq Plots
  BY DEF NoPaste
<1>9. digest \in [Feeds -> [Pages -> (SUBSET Entries) \cup {NoDigest}]]
  <2>1. CASE NothingStored
    BY <2>1 DEF NothingStored
  <2>2. CASE AllStored
    <3>1. ASSUME NEW f \in Feeds, NEW n \in Pages
          PROVE  {Entry(t) : t \in PageOf(f, n)} \in SUBSET Entries
      <4>1. PageOf(f, n) \subseteq Threads
        BY <1>1, PageMembers DEF Pages
      <4>2. ASSUME NEW t \in Threads PROVE Entry(t) \in Entries
        BY <1>1 DEF Entry, Entries
      <4> QED BY <4>1, <4>2
    <3> QED BY <2>2, <3>1 DEF AllStored
  <2> QED BY <2>1, <2>2
<1>10. atStartOf \in [Feeds -> SUBSET Threads]
  OBVIOUS
<1> QED BY <1>1, <1>2, <1>3, <1>4, <1>5, <1>6, <1>7, <1>8, <1>9, <1>10
        DEF ForumShapes, ForumTypeOK, Walks

-----------------------------------------------------------------------------
(* A thread that is put at the top moves the others down by one; one that   *)
(* is taken out moves those below it up by one.                             *)
LEMMA PutOnTop ==
  ASSUME NEW s \in Seq(Threads), NEW t \in Threads
  PROVE  /\ <<t>> \o s \in Seq(Threads)
         /\ Len(s) \in Nat /\ DOMAIN s = 1..Len(s) /\ DOMAIN (<<t>> \o s) = 1..(Len(s) + 1)
         /\ (<<t>> \o s)[1] = t
         /\ \A k \in DOMAIN s : k + 1 \in DOMAIN (<<t>> \o s) /\ (<<t>> \o s)[k + 1] = s[k]
         /\ \A k \in DOMAIN (<<t>> \o s) \ {1} :
              k - 1 \in DOMAIN s /\ (<<t>> \o s)[k] = s[k - 1]
<1> DEFINE r == <<t>> \o s
<1>1. <<t>> \in Seq(Threads) /\ Len(<<t>>) = 1 /\ <<t>>[1] = t
  OBVIOUS
<1>2. Len(s) \in Nat /\ DOMAIN s = 1..Len(s)
  BY LenProperties
<1>3. /\ r \in Seq(Threads) /\ Len(r) = 1 + Len(s)
      /\ \A i \in 1..(1 + Len(s)) : r[i] = IF i <= 1 THEN <<t>>[i] ELSE s[i - 1]
  BY <1>1, ConcatProperties
<1>4. DOMAIN r = 1..(Len(s) + 1)
  BY <1>2, <1>3, LenProperties
<1> HIDE DEF r
<1>5. r[1] = t
  BY <1>1, <1>2, <1>3
<1>6. ASSUME NEW k \in DOMAIN s PROVE k + 1 \in DOMAIN r /\ r[k + 1] = s[k]
  <2>1. k \in Nat /\ 1 <= k /\ k + 1 \in 1..(1 + Len(s))
    BY <1>2
  <2>2. ~(k + 1 <= 1) /\ (k + 1) - 1 = k
    BY <2>1
  <2> QED BY <1>2, <1>3, <1>4, <2>1, <2>2
<1>7. ASSUME NEW k \in DOMAIN r \ {1} PROVE k - 1 \in DOMAIN s /\ r[k] = s[k - 1]
  BY <1>2, <1>3, <1>4
<1> QED BY <1>2, <1>3, <1>4, <1>5, <1>6, <1>7 DEF r

LEMMA TakeOut ==
  ASSUME NEW s \in Seq(Threads), NEW n \in DOMAIN s
  PROVE  /\ RemoveAt(s, n) \in Seq(Threads)
         /\ Len(s) \in Nat /\ DOMAIN s = 1..Len(s) /\ DOMAIN RemoveAt(s, n) = 1..(Len(s) - 1)
         /\ \A k \in DOMAIN RemoveAt(s, n) :
              /\ k \in DOMAIN s /\ k + 1 \in DOMAIN s
              /\ k < n => RemoveAt(s, n)[k] = s[k]
              /\ k >= n => RemoveAt(s, n)[k] = s[k + 1]
<1> DEFINE a == SubSeq(s, 1, n - 1)
           b == SubSeq(s, n + 1, Len(s))
           r == a \o b
<1>1. Len(s) \in Nat /\ DOMAIN s = 1..Len(s)
  BY LenProperties
<1>2. n \in Nat \ {0} /\ n <= Len(s)
  BY <1>1
<1>3. /\ a \in Seq(Threads) /\ Len(a) = n - 1
      /\ \A i \in 1..(n - 1) : a[i] = s[i]
  <2>1. \A i \in 1..(n - 1) : s[i] \in Threads
    BY <1>1, <1>2, ElementOfSeq
  <2>2. /\ a \in Seq(Threads) /\ Len(a) = (IF 1 <= n - 1 THEN (n - 1) - 1 + 1 ELSE 0)
        /\ \A i \in 1..((n - 1) - 1 + 1) : a[i] = s[1 + i - 1]
    BY <1>2, <2>1, SubSeqProperties
  <2>3. (IF 1 <= n - 1 THEN (n - 1) - 1 + 1 ELSE 0) = n - 1 /\ (n - 1) - 1 + 1 = n - 1
    BY <1>2
  <2> QED BY <2>2, <2>3
<1>4. /\ b \in Seq(Threads) /\ Len(b) = Len(s) - n
      /\ \A i \in 1..(Len(s) - n) : b[i] = s[n + i]
  <2>1. \A i \in (n + 1)..Len(s) : s[i] \in Threads
    BY <1>1, <1>2, ElementOfSeq
  <2>2. /\ b \in Seq(Threads)
        /\ Len(b) = (IF n + 1 <= Len(s) THEN Len(s) - (n + 1) + 1 ELSE 0)
        /\ \A i \in 1..(Len(s) - (n + 1) + 1) : b[i] = s[(n + 1) + i - 1]
    BY <1>1, <1>2, <2>1, SubSeqProperties
  <2>3. /\ (IF n + 1 <= Len(s) THEN Len(s) - (n + 1) + 1 ELSE 0) = Len(s) - n
        /\ Len(s) - (n + 1) + 1 = Len(s) - n
    BY <1>1, <1>2
  <2>4. \A i \in 1..(Len(s) - n) : (n + 1) + i - 1 = n + i
    BY <1>1, <1>2
  <2> QED BY <2>2, <2>3, <2>4
<1> HIDE DEF a, b
<1>5. /\ r \in Seq(Threads) /\ Len(r) = Len(a) + Len(b)
      /\ \A i \in 1..(Len(a) + Len(b)) : r[i] = IF i <= Len(a) THEN a[i] ELSE b[i - Len(a)]
  BY <1>3, <1>4, ConcatProperties
<1>6. Len(a) + Len(b) = Len(s) - 1
  BY <1>1, <1>2, <1>3, <1>4
<1>7. DOMAIN r = 1..(Len(s) - 1)
  BY <1>5, <1>6, LenProperties
<1> HIDE DEF r
<1>8. ASSUME NEW k \in 1..(Len(s) - 1)
      PROVE  /\ k \in 1..Len(s) /\ k + 1 \in 1..Len(s)
             /\ k < n => r[k] = s[k]
             /\ k >= n => r[k] = s[k + 1]
  <2>1. k \in 1..Len(s) /\ k + 1 \in 1..Len(s) /\ k \in Nat \ {0}
    BY <1>1
  <2>2. CASE k < n
    <3>1. k <= Len(a) /\ k \in 1..(n - 1)
      BY <1>2, <1>3, <2>1, <2>2
    <3> QED BY <1>2, <1>3, <1>5, <1>6, <2>1, <2>2, <3>1
  <2>3. CASE k >= n
    <3>1. ~(k <= Len(a)) /\ k - Len(a) \in 1..(Len(s) - n) /\ n + (k - Len(a)) = k + 1
      BY <1>1, <1>2, <1>3, <2>1, <2>3
    <3>2. r[k] = b[k - Len(a)] /\ b[k - Len(a)] = s[n + (k - Len(a))]
      BY <1>4, <1>5, <1>6, <3>1
    <3> QED BY <1>2, <2>1, <2>3, <3>1, <3>2
  <2> QED BY <1>2, <2>1, <2>2, <2>3
<1>9. RemoveAt(s, n) = r
  BY DEF RemoveAt, r, a, b
<1> QED BY <1>1, <1>5, <1>7, <1>8, <1>9

-----------------------------------------------------------------------------
(* What each action leaves of the types.                                    *)
LEMMA EnqueuedTypes ==
  ASSUME ForumShapes, NEW f \in Feeds, NEW n \in Pages, NEW mode \in Modes
  PROVE  /\ Enqueued(f, n, mode) \in [Feeds -> [Pages -> Modes \cup {"none"}]]
         /\ \A g \in Feeds, m \in Pages :
              Enqueued(f, n, mode)[g][m] =
                IF g = f /\ m = n /\ ~Live(f, n) THEN mode ELSE pageJob[g][m]
BY DEF ForumShapes, ForumTypeOK, Enqueued, Live

LEMMA JobDone ==
  ASSUME ForumShapes, NEW f \in Feeds, NEW n \in Pages
  PROVE  /\ [pageJob EXCEPT ![f][n] = "none"] \in [Feeds -> [Pages -> Modes \cup {"none"}]]
         /\ \A g \in Feeds, m \in Pages :
              [pageJob EXCEPT ![f][n] = "none"][g][m] =
                IF g = f /\ m = n THEN "none" ELSE pageJob[g][m]
BY DEF ForumShapes, ForumTypeOK

LEMMA NextPageIsAPage ==
  ASSUME ForumShapes
  PROVE  /\ HasNextPage => walk.page + 1 \in Pages /\ walk.page < walk.last
         /\ ~HasNextPage /\ walk.mode = "backfill" =>
              walk.page >= walk.last \/ walk.page = MaxListingPages
<1>1. /\ walk.page \in 1..MaxListingPages /\ walk.last \in Nat
      /\ MaxListingPages \in Nat \ {0}
  BY ForumNumbers DEF ForumShapes, Walks, Pages
<1>2. Min({walk.last, MaxListingPages}) =
        IF walk.last <= MaxListingPages THEN walk.last ELSE MaxListingPages
  BY <1>1, MinOfTwo
<1> QED BY <1>1, <1>2 DEF HasNextPage, Pages

(* The jobs after a page job that went through.                             *)
LEMMA ChainedJobs ==
  ASSUME ForumShapes, Chain
  PROVE  /\ pageJob' \in [Feeds -> [Pages -> Modes \cup {"none"}]]
         /\ \A g \in Feeds, m \in Pages :
              pageJob'[g][m] =
                IF g = walk.feed /\ m = walk.page THEN "none"
                ELSE IF HasNextPage /\ g = walk.feed /\ m = walk.page + 1 /\ ~Live(g, m)
                     THEN walk.mode ELSE pageJob[g][m]
<1> DEFINE next == IF HasNextPage THEN Enqueued(walk.feed, walk.page + 1, walk.mode) ELSE pageJob
<1>1. walk.feed \in Feeds /\ walk.page \in Pages /\ walk.mode \in Modes
  BY DEF ForumShapes, Walks
<1>2. /\ next \in [Feeds -> [Pages -> Modes \cup {"none"}]]
      /\ \A g \in Feeds, m \in Pages :
           next[g][m] = IF HasNextPage /\ g = walk.feed /\ m = walk.page + 1 /\ ~Live(g, m)
                        THEN walk.mode ELSE pageJob[g][m]
  <2>1. CASE HasNextPage
    BY <1>1, <2>1, NextPageIsAPage, EnqueuedTypes
  <2>2. CASE ~HasNextPage
    BY <2>2 DEF ForumShapes, ForumTypeOK
  <2> QED BY <2>1, <2>2
<1>3. pageJob' = [next EXCEPT ![walk.feed][walk.page] = "none"]
  BY DEF Chain
<1> HIDE DEF next
<1> QED BY <1>1, <1>2, <1>3

(* What a page read is, when its job is claimed.                            *)
LEMMA ClaimedWalk ==
  ASSUME ForumShapes, NEW f \in Feeds, NEW n \in Pages, Claim(f, n)
  PROVE  /\ walk.phase = "idle" /\ pageJob[f][n] \in Modes
         /\ \/ /\ pageJob' = [pageJob EXCEPT ![f][n] = "none"]
               /\ UNCHANGED <<walk, atStartOf>>
            \/ /\ walk' \in Walks /\ walk'.phase = "fetched" /\ walk'.feed = f
               /\ walk'.page = n /\ walk'.mode = pageJob[f][n]
               /\ walk'.entries = {Entry(t) : t \in PageOf(f, n)}
               /\ {e.thread : e \in walk'.entries} = PageOf(f, n)
               /\ walk'.last = LastPage(f) /\ walk'.new = {}
               /\ UNCHANGED pageJob
               /\ atStartOf' = IF pageJob[f][n] = "backfill" /\ n = 1 /\ ~WalkIn(f)
                               THEN [atStartOf EXCEPT ![f] = Listed(f)] ELSE atStartOf
<1>1. pageJob[f][n] \in Modes
  BY DEF Claim, Live, ForumShapes, ForumTypeOK
<1>2. LastPage(f) \in Nat \ {0}
  BY LastPageCovers DEF ForumShapes, ForumTypeOK
<1> QED BY <1>1, <1>2, EntriesOfAPage DEF Claim, Walks

LEMMA ShapesOfUpstream ==
  ASSUME ForumShapes,
         \/ \E t \in Threads : Post(t) \/ Archive(t) \/ Edit(t)
         \/ \E x \in Plots : IndexPlot(x)
  PROVE  ForumShapes'
<1> USE DEF ForumShapes, ForumTypeOK, forumTables, forumPast, upstreamForum
<1>1. ASSUME NEW t \in Threads, Post(t) PROVE ForumShapes'
  <2>1. <<t>> \o listing["reports"] \in Seq(Threads)
    BY PutOnTop DEF Feeds
  <2>2. listing' \in [Feeds -> Seq(Threads)]
    BY <1>1, <2>1 DEF Post
  <2>3. forumEvents' \in Nat
    BY <1>1 DEF Post
  <2> QED BY <1>1, <2>2, <2>3 DEF Post
<1>2. ASSUME NEW t \in Threads, Archive(t) PROVE ForumShapes'
  <2>1. <<t>> \o listing["archive"] \in Seq(Threads)
    BY PutOnTop DEF Feeds
  <2>2. PICK n \in DOMAIN listing["reports"] :
          listing' = [reports |-> RemoveAt(listing["reports"], n),
                      archive |-> <<t>> \o listing["archive"]]
    BY <1>2 DEF Archive
  <2>3. RemoveAt(listing["reports"], n) \in Seq(Threads)
    BY TakeOut DEF Feeds
  <2>4. listing' \in [Feeds -> Seq(Threads)]
    <3>1. listing' = [f \in Feeds |-> IF f = "reports" THEN RemoveAt(listing["reports"], n)
                                     ELSE <<t>> \o listing["archive"]]
      BY <2>2 DEF Feeds
    <3> QED BY <2>1, <2>3, <3>1
  <2>5. forumEvents' \in Nat
    BY <1>2 DEF Archive
  <2> QED BY <1>2, <2>4, <2>5 DEF Archive
<1>3. ASSUME NEW t \in Threads, Edit(t) PROVE ForumShapes'
  <2>1. resolved' \subseteq Threads /\ title' \in [Threads -> Titles]
    BY <1>3 DEF Edit
  <2>2. forumEvents' \in Nat
    BY <1>3 DEF Edit
  <2> QED BY <1>3, <2>1, <2>2 DEF Edit
<1>4. ASSUME NEW x \in Plots, IndexPlot(x) PROVE ForumShapes'
  <2>1. plotTable' \subseteq Plots
    BY <1>4 DEF IndexPlot
  <2>2. forumEvents' \in Nat
    <3>1. forumEvents > 0 /\ forumEvents' = forumEvents - 1
      BY <1>4 DEF IndexPlot
    <3>2. forumEvents \in Nat
      OBVIOUS
    <3> QED BY <3>1, <3>2
  <2> QED BY <1>4, <2>1, <2>2 DEF IndexPlot
<1> QED BY <1>1, <1>2, <1>3, <1>4

LEMMA ShapesOfWalk ==
  ASSUME ForumShapes,
         \/ Coordinate \/ \E f \in Feeds, n \in Pages : Claim(f, n)
         \/ WalkStep \/ CutPage
  PROVE  ForumShapes'
<1> USE DEF ForumShapes, ForumTypeOK, forumTables, forumPast, upstreamForum
<1>1. ASSUME Coordinate PROVE ForumShapes'
  <2>1. /\ pageJob' \in [Feeds -> [Pages -> Modes \cup {"none"}]]
        /\ \A f \in Feeds, n \in Pages : Live(f, n) => pageJob'[f][n] = pageJob[f][n]
    <3>1. 1 \in Pages
      BY ForumNumbers DEF Pages
    <3> QED BY <1>1, <3>1, EnqueuedTypes DEF Coordinate, Modes
  <2>2. walk.phase # "idle" => Live(walk.feed, walk.page)
    BY DEF Live, Walks, Modes
  <2> QED BY <1>1, <2>1, <2>2 DEF Coordinate, Walks
<1>2. ASSUME NEW f \in Feeds, NEW n \in Pages, Claim(f, n) PROVE ForumShapes'
  <2>1. atStartOf' \in [Feeds -> SUBSET Threads]
    <3>1. Listed(f) \in SUBSET Threads
      BY PageMembers
    <3>2. atStartOf' = [atStartOf EXCEPT ![f] = Listed(f)] \/ atStartOf' = atStartOf
      BY <1>2, ClaimedWalk
    <3> QED BY <3>1, <3>2
  <2>2. pageJob' \in [Feeds -> [Pages -> Modes \cup {"none"}]]
    <3>1. pageJob' = [pageJob EXCEPT ![f][n] = "none"] \/ pageJob' = pageJob
      BY <1>2, ClaimedWalk
    <3> HIDE DEF ForumShapes
    <3>2. pageJob \in [Feeds -> [Pages -> Modes \cup {"none"}]]
      BY DEF ForumShapes
    <3> QED BY <3>1, <3>2, JobDone
  <2>3. walk' \in Walks /\ (walk'.phase = "idle" => walk' = Idle)
    BY <1>2, ClaimedWalk
  <2>4. walk'.phase # "idle" => pageJob'[walk'.feed][walk'.page] = walk'.mode
    BY <1>2, ClaimedWalk
  <2> QED BY <1>2, <2>1, <2>2, <2>3, <2>4 DEF Claim, Walks
<1>3. ASSUME StoreReports PROVE ForumShapes'
  <2> DEFINE here == {e.thread : e \in walk.entries}
  <2>1. here \subseteq Threads
    BY DEF Walks, Entries
  <2>2. walk' \in Walks /\ walk' = [walk EXCEPT !.phase = "stored", !.new = walk'.new]
    BY <1>3, <2>1 DEF StoreReports, Walks
  <2>3. report' \in [Threads -> ReportRow \cup {NoReport}]
    <3>1. \A t \in Threads :
            Row(walk.feed, \E e \in walk.entries : e.thread = t /\ e.resolved) \in ReportRow
      <4>1. walk.feed \in Feeds
        BY DEF Walks
      <4> QED BY <4>1, RowIsARow
    <3> QED BY <1>3, <3>1 DEF StoreReports
  <2>4. walk'.phase = "stored" /\ walk'.feed = walk.feed /\ walk'.page = walk.page
        /\ walk'.mode = walk.mode
    BY <1>3 DEF StoreReports, Walks
  <2> QED BY <1>3, <2>2, <2>3, <2>4 DEF StoreReports
<1>4. ASSUME Relink PROVE ForumShapes'
  <2>1. \A ids : \A t \in Threads : Relinked(link[t], ids) \in [Plots -> LinkSource]
    BY DEF Relinked, WithParsed, WithoutParsed, LinkSource
  <2>2. link' \in [Threads -> [Plots -> LinkSource]]
    BY <1>4, <2>1 DEF Relink
  <2>3. digest' \in [Feeds -> [Pages -> (SUBSET Entries) \cup {NoDigest}]]
    BY <1>4 DEF Relink, Walks
  <2>4. walk' \in Walks /\ walk'.phase = "digested" /\ walk'.feed = walk.feed
        /\ walk'.page = walk.page /\ walk'.mode = walk.mode
    BY <1>4 DEF Relink, Walks
  <2> QED BY <1>4, <2>2, <2>3, <2>4 DEF Relink
<1>5. ASSUME Chain PROVE ForumShapes'
  <2>1. pageJob' \in [Feeds -> [Pages -> Modes \cup {"none"}]]
    BY <1>5, ChainedJobs
  <2>2. walk' = Idle /\ walk' \in Walks /\ walk'.phase = "idle"
    BY <1>5, IdleIsAWalk DEF Chain, Idle
  <2>3. backfilled' \subseteq Feeds
    BY <1>5 DEF Chain, Walks
  <2> QED BY <1>5, <2>1, <2>2, <2>3 DEF Chain
<1>6. ASSUME CutPage PROVE ForumShapes'
  <2>1. pageJob' \in [Feeds -> [Pages -> Modes \cup {"none"}]]
    <3>1. PICK g \in Feeds, m \in Pages : g = walk.feed /\ m = walk.page
      BY DEF Walks
    <3>2. pageJob' = [pageJob EXCEPT ![g][m] = "none"] \/ pageJob' = pageJob
      BY <1>6, <3>1 DEF CutPage
    <3> HIDE DEF ForumShapes
    <3>3. pageJob \in [Feeds -> [Pages -> Modes \cup {"none"}]]
      BY DEF ForumShapes
    <3> QED BY <3>2, <3>3, JobDone
  <2>2. walk' = Idle /\ walk' \in Walks /\ walk'.phase = "idle"
    BY <1>6, IdleIsAWalk DEF CutPage, Idle
  <2>3. forumEvents' \in Nat
    BY <1>6 DEF CutPage
  <2> QED BY <1>6, <2>1, <2>2, <2>3 DEF CutPage
<1> QED BY <1>1, <1>2, <1>3, <1>4, <1>5, <1>6 DEF WalkStep

LEMMA PastedRows ==
  ASSUME ForumShapes, paste.phase = "read"
  PROVE  /\ paste \in Pastes
         /\ \A t \in Threads : AfterPaste(report[t]) \in ReportRow
         /\ \A t \in Threads : report[t] # NoReport => AfterPaste(report[t]).feed = report[t].feed
<1>1. paste \in Pastes
  BY DEF ForumShapes, NoPaste
<1>2. \A t \in Threads : report[t] # NoReport => report[t] \in ReportRow
  BY DEF ForumShapes, ForumTypeOK
<1>3. Pasted \in ReportRow
  BY <1>1 DEF Pasted, ReportRow, Pastes, Feeds, IsReportActive
<1> QED BY <1>1, <1>2, <1>3 DEF AfterPaste, ReportRow

LEMMA ShapesOfOperator ==
  ASSUME ForumShapes, OperatorStep
  PROVE  ForumShapes'
<1> USE DEF ForumShapes, ForumTypeOK, forumTables, forumPast, upstreamForum
<1>1. ASSUME NEW t \in Threads, NEW x \in Plots, Unlink(t, x) \/ Unassign(t, x) PROVE ForumShapes'
  <2>1. link' = [link EXCEPT ![t][x] = "none"]
    BY <1>1 DEF Unlink, Unassign
  <2>2. link' \in [Threads -> [Plots -> LinkSource]]
    BY <2>1 DEF LinkSource
  <2>3. forumEvents' \in Nat
    BY <1>1 DEF Unlink, Unassign
  <2> QED BY <1>1, <2>2, <2>3 DEF Unlink, Unassign
<1>2. ASSUME NEW t \in Threads, NEW x \in Plots, NEW v \in BOOLEAN, ReadForLink(t, x, v)
      PROVE  ForumShapes'
  <2>1. paste' \in Pastes /\ paste'.plots \subseteq Plots
    <3>1. {x} \cup MergedWith[x] \subseteq Plots
      BY ForumAssumption
    <3> QED BY <1>2, <3>1 DEF ReadForLink, Pastes
  <2>2. forumEvents' \in Nat
    BY <1>2 DEF ReadForLink
  <2> QED BY <1>2, <2>1, <2>2 DEF ReadForLink
<1>3. ASSUME NEW t \in Threads, NEW id \in UNION Titles, Assign(t, id) PROVE ForumShapes'
  <2>1. link' \in [Threads -> [Plots -> LinkSource]]
    BY <1>3 DEF Assign, LinkSource
  <2>2. forumEvents' \in Nat
    BY <1>3 DEF Assign
  <2> QED BY <1>3, <2>1, <2>2 DEF Assign
<1>4. ASSUME FinishLink PROVE ForumShapes'
  <2>1. paste.thread \in Threads /\ \A t \in Threads : AfterPaste(report[t]) \in ReportRow
    BY <1>4, PastedRows DEF FinishLink, Pastes
  <2>2. report' \in [Threads -> ReportRow \cup {NoReport}]
    BY <1>4, <2>1 DEF FinishLink
  <2>3. link' \in [Threads -> [Plots -> LinkSource]]
    BY <1>4, <2>1 DEF FinishLink, LinkSource
  <2>4. paste' = NoPaste /\ paste'.plots \subseteq Plots
    BY <1>4 DEF FinishLink, NoPaste
  <2> QED BY <1>4, <2>2, <2>3, <2>4 DEF FinishLink
<1> QED BY <1>1, <1>2, <1>3, <1>4 DEF OperatorStep

LEMMA ShapesStep == ForumShapes /\ [ForumNext]_forumVars => ForumShapes'
<1> SUFFICES ASSUME ForumShapes, [ForumNext]_forumVars PROVE ForumShapes'
  OBVIOUS
<1>1. CASE UNCHANGED forumVars
  BY <1>1 DEF forumVars, forumTables, forumPast, upstreamForum, ForumShapes, ForumTypeOK
<1>2. CASE ForumNext
  BY <1>2, ShapesOfUpstream, ShapesOfWalk, ShapesOfOperator DEF ForumNext
<1> QED BY <1>1, <1>2

(* The tables, the jobs and what the crawl and the operator have in hand    *)
(* keep their types, and the page job that runs is live, in the mode it was *)
(* claimed in, whatever is queued, cut or done by hand meanwhile            *)
(* (queue.ts, handlers/forum.ts).                                           *)
THEOREM ForumTypes == ForumSpec => []ForumTypeOK
<1>1. ForumShapes => ForumTypeOK
  BY DEF ForumShapes
<1> QED BY <1>1, ShapesInit, ShapesStep, PTL DEF ForumSpec

-----------------------------------------------------------------------------
(* A thread is listed once, on one feed.                                    *)
EachOnce ==
  \A f, g \in Feeds : \A m \in DOMAIN listing[f], n \in DOMAIN listing[g] :
    listing[f][m] = listing[g][n] => f = g /\ m = n

(* What was listed when a backfill began still is: no thread leaves the     *)
(* forum, and none leaves the archive.                                      *)
StartIsListed ==
  \A f \in Feeds : \A t \in atStartOf[f] :
    /\ \E g \in Feeds : t \in Listed(g)
    /\ f = "archive" => t \in Listed("archive")

LEMMA ListedAt ==
  ASSUME ForumShapes, NEW f \in Feeds
  PROVE  /\ Len(listing[f]) \in Nat /\ DOMAIN listing[f] = 1..Len(listing[f])
         /\ DOMAIN listing[f] \subseteq Nat \ {0}
         /\ \A k \in DOMAIN listing[f] : listing[f][k] \in Threads /\ listing[f][k] \in Listed(f)
         /\ \A t \in Listed(f) : \E k \in DOMAIN listing[f] : listing[f][k] = t
         /\ Listed(f) \subseteq Threads
<1>1. listing[f] \in Seq(Threads)
  BY DEF ForumShapes, ForumTypeOK
<1>2. Len(listing[f]) \in Nat /\ DOMAIN listing[f] = 1..Len(listing[f])
  BY <1>1, LenProperties
<1>3. \A k \in DOMAIN listing[f] : listing[f][k] \in Threads
  BY <1>1, ElementOfSeq
<1> QED BY <1>2, <1>3 DEF Listed, ToSet

(* A thread arrives at the top of a feed.                                   *)
LEMMA Arrival ==
  ASSUME ForumShapes, ForumShapes', NEW f \in Feeds, NEW t \in Threads,
         listing'[f] = <<t>> \o listing[f]
  PROVE  /\ Len(listing'[f]) = Len(listing[f]) + 1
         /\ 1 \in DOMAIN listing'[f] /\ listing'[f][1] = t
         /\ \A k \in DOMAIN listing[f] :
              k + 1 \in DOMAIN listing'[f] /\ listing'[f][k + 1] = listing[f][k]
         /\ \A k \in DOMAIN listing'[f] :
              \/ k = 1 /\ listing'[f][k] = t
              \/ k \in Nat /\ k > 1 /\ k - 1 \in DOMAIN listing[f]
                 /\ listing'[f][k] = listing[f][k - 1]
         /\ Listed(f)' = Listed(f) \cup {t}
<1> DEFINE s == listing[f]
           r == <<t>> \o s
<1>1. s \in Seq(Threads)
  BY DEF ForumShapes, ForumTypeOK
<1>2. /\ r \in Seq(Threads)
      /\ Len(s) \in Nat /\ DOMAIN s = 1..Len(s) /\ DOMAIN r = 1..(Len(s) + 1)
      /\ r[1] = t
      /\ \A k \in DOMAIN s : k + 1 \in DOMAIN r /\ r[k + 1] = s[k]
      /\ \A k \in DOMAIN r \ {1} : k - 1 \in DOMAIN s /\ r[k] = s[k - 1]
  <2> HIDE DEF s
  <2> QED BY <1>1, PutOnTop
<1>3. Len(r) = Len(s) + 1
  <2>1. Len(r) \in Nat /\ DOMAIN r = 1..Len(r)
    BY <1>2, LenProperties
  <2> HIDE DEF r, s
  <2> QED BY <1>2, <2>1
<1>4. listing'[f] = r
  OBVIOUS
<1> HIDE DEF r, s
<1>5. 1 \in DOMAIN r
  BY <1>2
<1>6. \A k \in DOMAIN r : \/ k = 1
                          \/ k \in Nat /\ k > 1 /\ k - 1 \in DOMAIN s /\ r[k] = s[k - 1]
  BY <1>2
<1>7. ToSet(r) = ToSet(s) \cup {t}
  <2>1. ToSet(r) \subseteq ToSet(s) \cup {t}
    BY <1>2, <1>6 DEF ToSet
  <2>2. ToSet(s) \cup {t} \subseteq ToSet(r)
    BY <1>2, <1>5 DEF ToSet
  <2> QED BY <2>1, <2>2
<1>8. Listed(f)' = ToSet(r) /\ Listed(f) = ToSet(s)
  BY <1>4 DEF Listed, s
<1> QED BY <1>2, <1>3, <1>4, <1>5, <1>6, <1>7, <1>8 DEF s

(* A thread is archived: the reports below it move up by one.               *)
LEMMA Departure ==
  ASSUME ForumShapes, ForumShapes', EachOnce, NEW t \in Threads, Archive(t)
  PROVE  /\ t \in Listed("reports") /\ t \notin Listed("archive")
         /\ listing'["archive"] = <<t>> \o listing["archive"]
         /\ \A k \in DOMAIN listing'["reports"] :
              /\ k \in Nat \ {0} /\ k \in DOMAIN listing["reports"] /\ k + 1 \in DOMAIN listing["reports"]
              /\ \/ listing'["reports"][k] = listing["reports"][k]
                 \/ listing'["reports"][k] = listing["reports"][k + 1]
         /\ Listed("reports")' = Listed("reports") \ {t}
         /\ \E n \in DOMAIN listing["reports"] :
              /\ listing["reports"][n] = t
              /\ listing' = [reports |-> RemoveAt(listing["reports"], n),
                             archive |-> <<t>> \o listing["archive"]]
<1>1. PICK n \in DOMAIN listing["reports"] :
         /\ listing["reports"][n] = t
         /\ listing' = [reports |-> RemoveAt(listing["reports"], n),
                        archive |-> <<t>> \o listing["archive"]]
  BY DEF Archive
<1> DEFINE s == listing["reports"]
           r == RemoveAt(s, n)
<1>2. s \in Seq(Threads) /\ "reports" \in Feeds /\ "archive" \in Feeds /\ "reports" # "archive"
  BY DEF ForumShapes, ForumTypeOK, Feeds
<1>3. /\ r \in Seq(Threads)
      /\ Len(s) \in Nat /\ DOMAIN s = 1..Len(s) /\ DOMAIN r = 1..(Len(s) - 1)
      /\ \A k \in DOMAIN r :
           /\ k \in DOMAIN s /\ k + 1 \in DOMAIN s
           /\ k < n => r[k] = s[k]
           /\ k >= n => r[k] = s[k + 1]
  <2> HIDE DEF s
  <2>1. n \in DOMAIN s
    BY DEF s
  <2> QED BY <1>2, <2>1, TakeOut
<1>4. listing'["reports"] = r /\ listing'["archive"] = <<t>> \o listing["archive"]
  BY <1>1
<1>5. n \in DOMAIN s /\ s[n] = t
  BY <1>1
<1>6. \A i, j \in DOMAIN s : s[i] = s[j] => i = j
  BY <1>2 DEF EachOnce
<1>7. t \in Listed("reports") /\ t \notin Listed("archive")
  <2>1. t \in Listed("reports")
    BY <1>5 DEF Listed, ToSet, s
  <2>2. ASSUME t \in Listed("archive") PROVE FALSE
    <3>1. PICK m \in DOMAIN listing["archive"] : listing["archive"][m] = t
      BY <2>2 DEF Listed, ToSet
    <3> QED BY <1>2, <1>5, <3>1 DEF EachOnce, s
  <2> QED BY <2>1, <2>2
<1> HIDE DEF r, s
<1>8. ASSUME NEW k \in DOMAIN r PROVE k \in Nat \ {0} /\ (r[k] = s[k] \/ r[k] = s[k + 1])
  BY <1>3, <1>5
<1>9. ToSet(r) = ToSet(s) \ {t}
  <2>1. ASSUME NEW k \in DOMAIN r PROVE r[k] \in ToSet(s) /\ r[k] # t
    <3>1. CASE k < n
      BY <1>3, <1>5, <1>6, <2>1, <3>1 DEF ToSet
    <3>2. CASE k >= n
      <4>1. r[k] = s[k + 1] /\ k + 1 \in DOMAIN s /\ k + 1 # n
        BY <1>3, <1>5, <2>1, <3>2
      <4> QED BY <1>5, <1>6, <4>1 DEF ToSet
    <3> QED BY <1>3, <1>5, <2>1, <3>1, <3>2
  <2>2. ASSUME NEW k \in DOMAIN s, s[k] # t PROVE s[k] \in ToSet(r)
    <3>1. k \in Nat /\ 1 <= k /\ k <= Len(s) /\ k # n /\ n \in Nat /\ 1 <= n /\ n <= Len(s)
      BY <1>3, <1>5, <2>2
    <3>2. CASE k < n
      <4>1. k \in DOMAIN r
        BY <1>3, <3>1, <3>2
      <4>2. r[k] = s[k]
        BY <1>3, <3>2, <4>1
      <4> QED BY <4>1, <4>2 DEF ToSet
    <3>3. CASE k > n
      <4>1. k - 1 \in DOMAIN r /\ k - 1 >= n /\ (k - 1) + 1 = k
        BY <1>3, <3>1, <3>3
      <4>2. r[k - 1] = s[k]
        BY <1>3, <4>1
      <4> QED BY <4>1, <4>2 DEF ToSet
    <3> QED BY <3>1, <3>2, <3>3
  <2>3. ToSet(r) \subseteq ToSet(s) \ {t}
    BY <2>1 DEF ToSet
  <2>4. ToSet(s) \ {t} \subseteq ToSet(r)
    BY <2>2 DEF ToSet
  <2> QED BY <2>3, <2>4
<1>10. Listed("reports")' = ToSet(r) /\ Listed("reports") = ToSet(s)
  BY <1>4 DEF Listed, s
<1> QED BY <1>1, <1>3, <1>4, <1>7, <1>8, <1>9, <1>10 DEF s

LEMMA OnceInit == ForumInit => EachOnce
<1> SUFFICES ASSUME ForumInit PROVE EachOnce
  OBVIOUS
<1>1. listing = FreshListing \/ listing = MirroredListing
  BY DEF ForumInit, NothingStored, AllStored
<1>2. PICK lists \in {FreshListing, MirroredListing} : listing = lists
  BY <1>1
<1>3. \A f, g \in Feeds : \A m \in DOMAIN lists[f], n \in DOMAIN lists[g] :
        lists[f][m] = lists[g][n] => f = g /\ m = n
  BY ForumAssumption
<1> QED BY <1>2, <1>3 DEF EachOnce

LEMMA OnceStep ==
  ASSUME ForumShapes, ForumShapes', EachOnce, [ForumNext]_forumVars
  PROVE  EachOnce'
<1>0. "reports" \in Feeds /\ "archive" \in Feeds /\ \A f \in Feeds : f \in {"reports", "archive"}
  BY DEF Feeds
<1>1. CASE UNCHANGED listing
  BY <1>1 DEF EachOnce
<1>2. ASSUME NEW t \in Threads, Post(t) PROVE EachOnce'
  <2>1. /\ \A f \in Feeds : t \notin Listed(f)
        /\ listing'["reports"] = <<t>> \o listing["reports"]
        /\ listing'["archive"] = listing["archive"]
    BY <1>2 DEF Post, ForumShapes, ForumTypeOK, Feeds
  <2>2. \A k \in DOMAIN listing'["reports"] :
          \/ k = 1 /\ listing'["reports"][k] = t
          \/ k \in Nat /\ k > 1 /\ k - 1 \in DOMAIN listing["reports"]
             /\ listing'["reports"][k] = listing["reports"][k - 1]
    BY <1>0, <2>1, Arrival
  <2>3. \A f \in Feeds : \A k \in DOMAIN listing[f] : listing[f][k] # t
    BY <2>1 DEF Listed, ToSet
  <2>4. ASSUME NEW m \in DOMAIN listing'["reports"], NEW n \in DOMAIN listing'["reports"],
               listing'["reports"][m] = listing'["reports"][n]
        PROVE  m = n
    <3>1. CASE m = 1 \/ n = 1
      BY <1>0, <2>2, <2>3, <2>4, <3>1
    <3>2. CASE m # 1 /\ n # 1
      <4>1. m - 1 = n - 1 /\ m \in Nat /\ n \in Nat
        BY <1>0, <2>2, <2>4, <3>2 DEF EachOnce
      <4> QED BY <4>1
    <3> QED BY <3>1, <3>2
  <2>5. ASSUME NEW m \in DOMAIN listing'["reports"], NEW n \in DOMAIN listing'["archive"]
        PROVE  listing'["reports"][m] # listing'["archive"][n]
    BY <1>0, <2>1, <2>2, <2>3 DEF EachOnce
  <2>6. \A m, n \in DOMAIN listing'["archive"] :
          listing'["archive"][m] = listing'["archive"][n] => m = n
    BY <1>0, <2>1 DEF EachOnce
  <2> QED BY <1>0, <2>4, <2>5, <2>6 DEF EachOnce
<1>3. ASSUME NEW t \in Threads, Archive(t) PROVE EachOnce'
  <2>1. PICK n0 \in DOMAIN listing["reports"] :
          /\ listing["reports"][n0] = t
          /\ listing' = [reports |-> RemoveAt(listing["reports"], n0),
                         archive |-> <<t>> \o listing["archive"]]
    BY <1>3, Departure
  <2>2. /\ t \notin Listed("archive")
        /\ listing'["archive"] = <<t>> \o listing["archive"]
        /\ Listed("reports")' = Listed("reports") \ {t}
    BY <1>3, Departure
  <2>3. \A k \in DOMAIN listing'["archive"] :
          \/ k = 1 /\ listing'["archive"][k] = t
          \/ k \in Nat /\ k > 1 /\ k - 1 \in DOMAIN listing["archive"]
             /\ listing'["archive"][k] = listing["archive"][k - 1]
    BY <1>0, <2>2, Arrival
  <2>4. \A k \in DOMAIN listing["archive"] : listing["archive"][k] # t
    BY <2>2 DEF Listed, ToSet
  <2>5. ASSUME NEW m \in DOMAIN listing'["archive"], NEW n \in DOMAIN listing'["archive"],
               listing'["archive"][m] = listing'["archive"][n]
        PROVE  m = n
    <3>1. CASE m = 1 \/ n = 1
      BY <1>0, <2>3, <2>4, <2>5, <3>1
    <3>2. CASE m # 1 /\ n # 1
      <4>1. m - 1 = n - 1 /\ m \in Nat /\ n \in Nat
        BY <1>0, <2>3, <2>5, <3>2 DEF EachOnce
      <4> QED BY <4>1
    <3> QED BY <3>1, <3>2
  <2>6. ASSUME NEW m \in DOMAIN listing'["reports"], NEW n \in DOMAIN listing'["archive"]
        PROVE  listing'["reports"][m] # listing'["archive"][n]
    <3>1. listing'["reports"][m] \in Listed("reports")'
      BY DEF Listed, ToSet
    <3>2. listing'["archive"][n] = t \/ listing'["archive"][n] \in Listed("archive")
      BY <2>3 DEF Listed, ToSet
    <3>3. Listed("reports") \cap Listed("archive") = {}
      BY <1>0 DEF Listed, ToSet, EachOnce
    <3> QED BY <2>2, <3>1, <3>2, <3>3
  <2>7. ASSUME NEW m \in DOMAIN listing'["reports"], NEW n \in DOMAIN listing'["reports"],
               listing'["reports"][m] = listing'["reports"][n]
        PROVE  m = n
    <3> DEFINE s == listing["reports"]
               r == RemoveAt(s, n0)
    <3>1. s \in Seq(Threads) /\ \A i, j \in DOMAIN s : s[i] = s[j] => i = j
      BY <1>0 DEF ForumShapes, ForumTypeOK, EachOnce
    <3>2. n0 \in DOMAIN s /\ listing'["reports"] = r
      BY <2>1
    <3> HIDE DEF s
    <3>3. /\ Len(s) \in Nat /\ DOMAIN s = 1..Len(s) /\ DOMAIN r = 1..(Len(s) - 1)
          /\ \A k \in DOMAIN r :
               /\ k \in DOMAIN s /\ k + 1 \in DOMAIN s
               /\ k < n0 => r[k] = s[k]
               /\ k >= n0 => r[k] = s[k + 1]
      BY <3>1, <3>2, TakeOut
    <3> HIDE DEF r
    <3>4. m \in DOMAIN r /\ n \in DOMAIN r /\ r[m] = r[n] /\ m \in Nat /\ n \in Nat /\ n0 \in Nat
      BY <2>7, <3>2, <3>3
    <3>5. CASE m < n0 /\ n < n0
      BY <3>1, <3>3, <3>4, <3>5
    <3>6. CASE m >= n0 /\ n >= n0
      <4>1. m + 1 = n + 1
        BY <3>1, <3>3, <3>4, <3>6
      <4> QED BY <3>4, <4>1
    <3>7. CASE m < n0 /\ n >= n0
      <4>1. m = n + 1
        BY <3>1, <3>3, <3>4, <3>7
      <4> QED BY <3>4, <3>7, <4>1
    <3>8. CASE m >= n0 /\ n < n0
      <4>1. m + 1 = n
        BY <3>1, <3>3, <3>4, <3>8
      <4> QED BY <3>4, <3>8, <4>1
    <3> QED BY <3>4, <3>5, <3>6, <3>7, <3>8
  <2> QED BY <1>0, <2>5, <2>6, <2>7 DEF EachOnce
<1>4. CASE UNCHANGED forumVars
  BY <1>4, <1>1 DEF forumVars, upstreamForum
<1>5. \/ UNCHANGED listing \/ \E t \in Threads : Post(t) \/ Archive(t)
  <2>1. CASE \E t \in Threads : Post(t) \/ Archive(t) \/ Edit(t)
    BY <2>1 DEF Edit
  <2>2. CASE \E x \in Plots : IndexPlot(x)
    BY <2>2 DEF IndexPlot, upstreamForum
  <2>3. CASE Coordinate \/ \E f \in Feeds, n \in Pages : Claim(f, n)
    BY <2>3 DEF Coordinate, Claim, upstreamForum
  <2>4. CASE WalkStep \/ CutPage
    BY <2>4 DEF WalkStep, StoreReports, Relink, Chain, CutPage, upstreamForum
  <2>5. CASE OperatorStep
    BY <2>5 DEF OperatorStep, Unlink, Unassign, ReadForLink, Assign, FinishLink, upstreamForum
  <2>6. CASE UNCHANGED forumVars
    BY <2>6 DEF forumVars, upstreamForum
  <2> QED BY <2>1, <2>2, <2>3, <2>4, <2>5, <2>6 DEF ForumNext
<1> QED BY <1>1, <1>2, <1>3, <1>5

(* No listing is longer than the pages a backfill may walk.                 *)
LEMMA ListingsFit ==
  ASSUME ForumShapes, EachOnce, NEW f \in Feeds
  PROVE  \A k \in DOMAIN listing[f] : k <= PageSize * MaxListingPages
<1> DEFINE s == listing[f]
<1>1. Len(s) \in Nat /\ DOMAIN s = 1..Len(s)
  BY ListedAt
<1>2. s \in [1..Len(s) -> Threads]
  BY <1>1, ElementOfSeq, LenProperties DEF ForumShapes, ForumTypeOK
<1>3. \A i, j \in 1..Len(s) : s[i] = s[j] => i = j
  BY <1>1 DEF EachOnce
<1> HIDE DEF s
<1>4. s \in Injection(1..Len(s), Threads)
  BY <1>2, <1>3 DEF Injection, IsInjective
<1>5. Cardinality(1..Len(s)) <= Cardinality(Threads)
  BY <1>4, ForumNumbers, FS_Injection
<1>6. Cardinality(1..Len(s)) = Len(s)
  <2>1. Cardinality(1..Len(s)) = IF 1 > Len(s) THEN 0 ELSE Len(s) - 1 + 1
    BY <1>1, FS_Interval
  <2> QED BY <1>1, <2>1
<1>7. Cardinality(Threads) \in Nat /\ PageSize * MaxListingPages \in Nat
  BY ForumNumbers, FS_CardinalityType
<1>8. Len(s) <= PageSize * MaxListingPages
  BY <1>1, <1>5, <1>6, <1>7, ForumNumbers
<1>9. \A k \in 1..Len(s) : k <= PageSize * MaxListingPages
  BY <1>1, <1>7, <1>8
<1> QED BY <1>1, <1>9 DEF s

-----------------------------------------------------------------------------
IsStored(t) == report[t] # NoReport

(* What was listed when the backfill began, and is listed down to k still,  *)
(* is stored.                                                               *)
StartStored(f, k) ==
  \A i \in DOMAIN listing[f] :
    i <= k /\ listing[f][i] \in atStartOf[f] => IsStored(listing[f][i])

(* A page job of a backfill has what comes before its page behind it, and   *)
(* while it runs what its page shows in hand: as long as no thread was      *)
(* taken out of the listing, threads only move down it.                     *)
WalkReaches(i) == i <= walk.page * PageSize \/ walk.page >= walk.last

JobsAreBehind ==
  \A f \in Feeds, n \in Pages \ {1} :
    pageJob[f][n] = "backfill" => StartStored(f, (n - 1) * PageSize)

WalkIsBehind ==
  walk.phase # "idle" /\ walk.mode = "backfill" =>
    \A i \in DOMAIN listing[walk.feed] :
      WalkReaches(i) /\ listing[walk.feed][i] \in atStartOf[walk.feed] =>
        \/ IsStored(listing[walk.feed][i])
        \/ walk.phase = "fetched" /\ listing[walk.feed][i] \in InHand

BackfillInv == EachOnce /\ StartIsListed /\ ("skipped" \notin forumExcuses => JobsAreBehind /\ WalkIsBehind)

LEMMA ExcusesStay ==
  ASSUME [ForumNext]_forumVars PROVE forumExcuses \subseteq forumExcuses'
<1>1. CASE UNCHANGED forumVars
  BY <1>1 DEF forumVars, forumPast
<1>2. CASE \E t \in Threads : Post(t) \/ Archive(t) \/ Edit(t)
  BY <1>2 DEF Post, Archive, Edit
<1>3. CASE \E x \in Plots : IndexPlot(x)
  BY <1>3 DEF IndexPlot
<1>4. CASE Coordinate \/ \E f \in Feeds, n \in Pages : Claim(f, n)
  BY <1>4 DEF Coordinate, Claim, forumPast
<1>5. CASE WalkStep \/ CutPage
  BY <1>5 DEF WalkStep, StoreReports, Relink, Chain, CutPage, forumPast
<1>6. CASE OperatorStep
  BY <1>6 DEF OperatorStep, Unlink, Unassign, ReadForLink, Assign, FinishLink, forumPast
<1> QED BY <1>1, <1>2, <1>3, <1>4, <1>5, <1>6 DEF ForumNext

(* No report is ever deleted.                                               *)
LEMMA StoredStays ==
  ASSUME ForumShapes, [ForumNext]_forumVars, NEW t \in Threads, IsStored(t)
  PROVE  IsStored(t)'
<1>1. CASE UNCHANGED report
  BY <1>1 DEF IsStored
<1>2. CASE StoreReports
  <2>1. Row(walk.feed, \E e \in walk.entries : e.thread = t /\ e.resolved) # NoReport
    <3>1. walk.feed \in Feeds
      BY DEF ForumShapes, Walks
    <3> DEFINE b == \E e \in walk.entries : e.thread = t /\ e.resolved
    <3>2. b \in BOOLEAN
      OBVIOUS
    <3> HIDE DEF b
    <3>3. Row(walk.feed, b) \in ReportRow
      BY <3>1, <3>2, RowIsARow
    <3> QED BY <3>3, ForumAssumption DEF b
  <2> QED BY <1>2, <2>1 DEF StoreReports, IsStored
<1>3. CASE FinishLink
  <2>1. AfterPaste(report[t]) # NoReport
    BY <1>3, PastedRows, ForumAssumption DEF FinishLink
  <2>2. report' = [report EXCEPT ![paste.thread] = AfterPaste(@)]
    BY <1>3 DEF FinishLink
  <2>3. report'[t] = report[t] \/ report'[t] = AfterPaste(report[t])
    BY <2>2 DEF ForumShapes, ForumTypeOK
  <2> QED BY <2>1, <2>3 DEF IsStored
<1>4. UNCHANGED report \/ StoreReports \/ FinishLink
  <2>1. CASE UNCHANGED forumVars
    BY <2>1 DEF forumVars, forumTables
  <2>2. CASE \E u \in Threads : Post(u) \/ Archive(u) \/ Edit(u)
    BY <2>2 DEF Post, Archive, Edit, forumTables
  <2>3. CASE \E x \in Plots : IndexPlot(x)
    BY <2>3 DEF IndexPlot
  <2>4. CASE Coordinate \/ \E f \in Feeds, n \in Pages : Claim(f, n)
    BY <2>4 DEF Coordinate, Claim, forumTables
  <2>5. CASE WalkStep \/ CutPage
    BY <2>5 DEF WalkStep, Relink, Chain, CutPage, forumTables
  <2>6. CASE OperatorStep
    BY <2>6 DEF OperatorStep, Unlink, Unassign, ReadForLink, Assign, forumTables
  <2> QED BY <2>1, <2>2, <2>3, <2>4, <2>5, <2>6 DEF ForumNext
<1> QED BY <1>1, <1>2, <1>3, <1>4

(* The step leaves the listings, the jobs and the start of the backfills as *)
(* they are.                                                                *)
LEMMA QuietJobs ==
  ASSUME ForumShapes, [ForumNext]_forumVars, UNCHANGED listing, UNCHANGED atStartOf
  PROVE  /\ \A f \in Feeds, k \in Nat : StartStored(f, k) => StartStored(f, k)'
         /\ StartIsListed => StartIsListed'
<1>1. ASSUME NEW f \in Feeds, NEW i \in DOMAIN listing[f] PROVE listing[f][i] \in Threads
  BY ListedAt
<1>2. \A f \in Feeds, k \in Nat : StartStored(f, k) => StartStored(f, k)'
  BY <1>1, StoredStays DEF StartStored
<1>3. \A f \in Feeds : Listed(f)' = Listed(f)
  BY DEF Listed
<1> QED BY <1>2, <1>3 DEF StartIsListed

LEMMA PageBound ==
  ASSUME NEW n \in Nat \ {0}, NEW m \in Nat \ {0}, m <= n
  PROVE  m * PageSize <= n * PageSize
<1>1. PageSize \in Nat \ {0} /\ n - m \in Nat
  BY ForumNumbers
<1>2. n * PageSize = m * PageSize + (n - m) * PageSize
  BY <1>1
<1>3. (n - m) * PageSize \in Nat /\ m * PageSize \in Nat
  BY <1>1
<1> QED BY <1>2, <1>3

LEMMA PageInts ==
  ASSUME NEW n \in Pages
  PROVE  n \in Nat \ {0} /\ n - 1 \in Nat /\ (n - 1) * PageSize \in Nat /\ n * PageSize \in Nat
<1>1. n \in Nat \ {0}
  BY ForumNumbers DEF Pages
<1> QED BY <1>1, PageStart

LEMMA BackfillInit == ForumInit => BackfillInv
<1> SUFFICES ASSUME ForumInit PROVE BackfillInv
  OBVIOUS
<1>1. StartIsListed
  BY DEF ForumInit, StartIsListed
<1>2. JobsAreBehind
  BY DEF ForumInit, JobsAreBehind
<1>3. WalkIsBehind
  BY DEF ForumInit, WalkIsBehind, Idle
<1> QED BY <1>1, <1>2, <1>3, OnceInit DEF BackfillInv

(* A step that leaves the listings, the jobs and the walk.                  *)
LEMMA BehindWhenQuiet ==
  ASSUME ForumShapes, ForumShapes', BackfillInv, [ForumNext]_forumVars,
         UNCHANGED <<listing, atStartOf, pageJob, walk>>
  PROVE  BackfillInv'
<1>1. EachOnce' /\ StartIsListed'
  BY OnceStep, QuietJobs DEF BackfillInv
<1>2. ASSUME "skipped" \notin forumExcuses' PROVE JobsAreBehind' /\ WalkIsBehind'
  <2>1. JobsAreBehind /\ WalkIsBehind
    BY <1>2, ExcusesStay DEF BackfillInv
  <2>2. JobsAreBehind'
    <3>1. \A n \in Pages : (n - 1) * PageSize \in Nat
      BY PageInts
    <3> QED BY <2>1, <3>1, QuietJobs DEF JobsAreBehind
  <2>3. WalkIsBehind'
    <3>1. walk.feed \in Feeds
      BY DEF ForumShapes, Walks
    <3>2. \A i \in DOMAIN listing[walk.feed] :
            IsStored(listing[walk.feed][i]) => IsStored(listing[walk.feed][i])'
      BY <3>1, ListedAt, StoredStays
    <3>3. \A i \in DOMAIN listing[walk.feed] : WalkReaches(i)' = WalkReaches(i)
      BY DEF WalkReaches
    <3>4. InHand' = InHand
      BY DEF InHand
    <3> QED BY <2>1, <3>2, <3>3, <3>4 DEF WalkIsBehind
  <2> QED BY <2>2, <2>3
<1> QED BY <1>1, <1>2 DEF BackfillInv

(* A thread arrives at the top of a feed and is not of its backfill; the    *)
(* others of the feed are one further down.                                 *)
LEMMA BehindAfterArrival ==
  ASSUME ForumShapes, ForumShapes', BackfillInv, [ForumNext]_forumVars,
         NEW f \in Feeds, NEW t \in Threads, t \notin atStartOf[f],
         listing'[f] = <<t>> \o listing[f], UNCHANGED <<report, atStartOf, pageJob, walk>>,
         "skipped" \notin forumExcuses
  PROVE  /\ \A n \in Pages \ {1} :
              pageJob'[f][n] = "backfill" => StartStored(f, (n - 1) * PageSize)'
         /\ walk.feed = f => WalkIsBehind'
<1>0. JobsAreBehind /\ WalkIsBehind
  BY DEF BackfillInv
<1>1. \A k \in DOMAIN listing'[f] :
         \/ k = 1 /\ listing'[f][k] = t
         \/ k \in Nat /\ k > 1 /\ k - 1 \in DOMAIN listing[f]
            /\ listing'[f][k] = listing[f][k - 1]
  BY Arrival
<1>2. ASSUME NEW n \in Pages \ {1}, pageJob'[f][n] = "backfill"
      PROVE  StartStored(f, (n - 1) * PageSize)'
  <2>1. StartStored(f, (n - 1) * PageSize) /\ (n - 1) * PageSize \in Nat
    BY <1>0, <1>2, PageInts DEF JobsAreBehind
  <2> DEFINE z == (n - 1) * PageSize
  <2> HIDE DEF z
  <2>2. StartStored(f, z)'
    <3> SUFFICES ASSUME NEW k \in DOMAIN listing'[f], k <= z, listing'[f][k] \in atStartOf[f]
                 PROVE  report'[listing'[f][k]] # NoReport
      BY DEF StartStored, IsStored
    <3>1. k \in Nat /\ k - 1 \in DOMAIN listing[f] /\ listing'[f][k] = listing[f][k - 1]
      BY <1>1
    <3>2. z \in Nat /\ k - 1 <= z
      BY <2>1, <3>1 DEF z
    <3>3. IsStored(listing[f][k - 1])
      BY <2>1, <3>1, <3>2 DEF StartStored, z
    <3> QED BY <3>1, <3>3 DEF IsStored
  <2> QED BY <2>2 DEF z
<1>3. ASSUME walk.feed = f PROVE WalkIsBehind'
  <2> SUFFICES ASSUME walk.phase # "idle", walk.mode = "backfill",
                      NEW k \in DOMAIN listing'[f], WalkReaches(k)', listing'[f][k] \in atStartOf[f]
               PROVE  \/ report'[listing'[f][k]] # NoReport
                      \/ walk.phase = "fetched" /\ listing'[f][k] \in InHand
    BY <1>3 DEF WalkIsBehind, IsStored, InHand
  <2>1. k \in Nat /\ k - 1 \in DOMAIN listing[f] /\ listing'[f][k] = listing[f][k - 1]
    BY <1>1
  <2>2. WalkReaches(k - 1)
    <3>1. walk.page * PageSize \in Nat
      BY PageInts DEF ForumShapes, Walks
    <3> DEFINE z == walk.page * PageSize
    <3>2. k <= z \/ walk.page >= walk.last
      BY DEF WalkReaches
    <3> HIDE DEF z
    <3>3. k <= z => k - 1 <= z
      BY <2>1, <3>1 DEF z
    <3> QED BY <3>2, <3>3 DEF WalkReaches, z
  <2>3. \/ IsStored(listing[f][k - 1])
        \/ walk.phase = "fetched" /\ listing[f][k - 1] \in InHand
    BY <1>0, <1>3, <2>1, <2>2 DEF WalkIsBehind
  <2> QED BY <2>1, <2>3 DEF IsStored, InHand
<1> QED BY <1>2, <1>3

LEMMA BehindAfterUpstream ==
  ASSUME ForumShapes, ForumShapes', BackfillInv, NEW t \in Threads, Post(t) \/ Archive(t)
  PROVE  BackfillInv'
<1>0. /\ "reports" \in Feeds /\ "archive" \in Feeds /\ "reports" # "archive"
      /\ \A f \in Feeds : f = "reports" \/ f = "archive"
  BY DEF Feeds
<1>1. [ForumNext]_forumVars
  BY DEF ForumNext
<1>2. EachOnce'
  BY <1>1, OnceStep DEF BackfillInv
<1>3. CASE Post(t)
  <2>1. /\ \A f \in Feeds : t \notin Listed(f)
        /\ listing'["reports"] = <<t>> \o listing["reports"]
        /\ listing'["archive"] = listing["archive"]
        /\ UNCHANGED <<report, atStartOf, pageJob, walk>>
    BY <1>3 DEF Post, ForumShapes, ForumTypeOK, Feeds, forumTables
  <2>2. \A f \in Feeds : t \notin atStartOf[f]
    BY <2>1 DEF BackfillInv, StartIsListed
  <2>3. Listed("archive")' = Listed("archive") /\ Listed("reports")' = Listed("reports") \cup {t}
    BY <1>0, <2>1, Arrival DEF Listed
  <2>4. StartIsListed'
    BY <1>0, <2>1, <2>3 DEF BackfillInv, StartIsListed
  <2>5. ASSUME "skipped" \notin forumExcuses' PROVE JobsAreBehind' /\ WalkIsBehind'
    <3>1. "skipped" \notin forumExcuses /\ JobsAreBehind /\ WalkIsBehind
      BY <1>1, <2>5, ExcusesStay DEF BackfillInv
    <3>2. /\ \A n \in Pages \ {1} :
               pageJob'["reports"][n] = "backfill" => StartStored("reports", (n - 1) * PageSize)'
          /\ walk.feed = "reports" => WalkIsBehind'
      BY <1>0, <1>1, <2>1, <2>2, <3>1, BehindAfterArrival
    <3>3. \A n \in Pages \ {1} :
            pageJob'["archive"][n] = "backfill" => StartStored("archive", (n - 1) * PageSize)'
      BY <1>0, <2>1, <3>1 DEF JobsAreBehind, StartStored, IsStored
    <3>4. walk.feed = "archive" => WalkIsBehind'
      BY <1>0, <2>1, <3>1 DEF WalkIsBehind, WalkReaches, IsStored, InHand
    <3>5. walk.feed \in Feeds
      BY DEF ForumShapes, Walks
    <3> QED BY <1>0, <3>2, <3>3, <3>4, <3>5 DEF JobsAreBehind
  <2> QED BY <1>2, <2>4, <2>5 DEF BackfillInv
<1>4. CASE Archive(t)
  <2>1. /\ t \in Listed("reports") /\ t \notin Listed("archive")
        /\ listing'["archive"] = <<t>> \o listing["archive"]
        /\ Listed("reports")' = Listed("reports") \ {t}
        /\ UNCHANGED <<report, atStartOf, pageJob, walk>>
    BY <1>4, Departure DEF Archive, forumTables, BackfillInv
  <2>2. t \notin atStartOf["archive"]
    BY <1>0, <2>1 DEF BackfillInv, StartIsListed
  <2>3. Listed("archive")' = Listed("archive") \cup {t}
    BY <1>0, <2>1, Arrival
  <2>4. StartIsListed'
    BY <1>0, <2>1, <2>3 DEF BackfillInv, StartIsListed
  <2>5. ASSUME "skipped" \notin forumExcuses' PROVE JobsAreBehind' /\ WalkIsBehind'
    <3>1. "skipped" \notin forumExcuses /\ ~WalkIn("reports")
      BY <1>4, <2>5 DEF Archive
    <3>2. /\ \A n \in Pages \ {1} :
               pageJob'["archive"][n] = "backfill" => StartStored("archive", (n - 1) * PageSize)'
          /\ walk.feed = "archive" => WalkIsBehind'
      BY <1>0, <1>1, <2>1, <2>2, <3>1, BehindAfterArrival
    <3>3. \A n \in Pages \ {1} : pageJob'["reports"][n] # "backfill"
      BY <2>1, <3>1 DEF WalkIn
    <3>4. walk.feed = "reports" => WalkIsBehind'
      BY <2>1, <3>1 DEF WalkIn, WalkIsBehind
    <3>5. walk.feed \in Feeds
      BY DEF ForumShapes, Walks
    <3> QED BY <1>0, <3>2, <3>3, <3>4, <3>5 DEF JobsAreBehind
  <2> QED BY <1>2, <2>4, <2>5 DEF BackfillInv
<1> QED BY <1>3, <1>4

LEMMA BehindAfterClaim ==
  ASSUME ForumShapes, ForumShapes', BackfillInv, NEW f \in Feeds, NEW n \in Pages, Claim(f, n)
  PROVE  BackfillInv'
<1>0. n \in Nat \ {0} /\ [ForumNext]_forumVars /\ UNCHANGED <<listing, report, forumExcuses>>
  BY PageInts DEF ForumNext, Claim, upstreamForum, forumTables
<1>1. EachOnce'
  BY <1>0, OnceStep DEF BackfillInv
<1>2. /\ walk.phase = "idle" /\ pageJob[f][n] \in Modes
      /\ \/ /\ pageJob' = [pageJob EXCEPT ![f][n] = "none"]
            /\ UNCHANGED <<walk, atStartOf>>
         \/ /\ walk' \in Walks /\ walk'.phase = "fetched" /\ walk'.feed = f
            /\ walk'.page = n /\ walk'.mode = pageJob[f][n]
            /\ {e.thread : e \in walk'.entries} = PageOf(f, n)
            /\ walk'.last = LastPage(f)
            /\ UNCHANGED pageJob
            /\ atStartOf' = IF pageJob[f][n] = "backfill" /\ n = 1 /\ ~WalkIn(f)
                            THEN [atStartOf EXCEPT ![f] = Listed(f)] ELSE atStartOf
  BY ClaimedWalk
<1>3. \A g \in Feeds : Listed(g)' = Listed(g)
  BY <1>0 DEF Listed
<1>4. CASE UNCHANGED <<walk, atStartOf>> /\ pageJob' = [pageJob EXCEPT ![f][n] = "none"]
  <2>1. StartIsListed'
    BY <1>0, <1>4, QuietJobs DEF BackfillInv
  <2>2. \A g \in Feeds, m \in Pages : pageJob'[g][m] = "backfill" => pageJob[g][m] = "backfill"
    BY <1>4, JobDone
  <2>3. ASSUME "skipped" \notin forumExcuses' PROVE JobsAreBehind' /\ WalkIsBehind'
    <3>1. JobsAreBehind
      BY <1>0, <2>3 DEF BackfillInv
    <3>2. ASSUME NEW g \in Feeds, NEW m \in Pages \ {1}, pageJob'[g][m] = "backfill"
          PROVE  StartStored(g, (m - 1) * PageSize)'
      <4>1. StartStored(g, (m - 1) * PageSize) /\ (m - 1) * PageSize \in Nat
        BY <2>2, <3>1, <3>2, PageInts DEF JobsAreBehind
      <4> QED BY <1>0, <1>4, <4>1, QuietJobs
    <3>3. WalkIsBehind'
      BY <1>2, <1>4 DEF WalkIsBehind
    <3> QED BY <3>2, <3>3 DEF JobsAreBehind
  <2> QED BY <1>1, <2>1, <2>3 DEF BackfillInv
<1>5. CASE /\ walk' \in Walks /\ walk'.phase = "fetched" /\ walk'.feed = f
           /\ walk'.page = n /\ walk'.mode = pageJob[f][n]
           /\ {e.thread : e \in walk'.entries} = PageOf(f, n)
           /\ walk'.last = LastPage(f)
           /\ UNCHANGED pageJob
           /\ atStartOf' = IF pageJob[f][n] = "backfill" /\ n = 1 /\ ~WalkIn(f)
                           THEN [atStartOf EXCEPT ![f] = Listed(f)] ELSE atStartOf
  <2>1. /\ \A g \in Feeds : g # f => atStartOf'[g] = atStartOf[g]
        /\ \/ atStartOf'[f] = atStartOf[f]
           \/ n = 1 /\ ~WalkIn(f) /\ atStartOf'[f] = Listed(f)
    BY <1>5 DEF ForumShapes
  <2>2. StartIsListed'
    <3> SUFFICES ASSUME NEW g \in Feeds, NEW t \in atStartOf'[g]
                 PROVE  /\ \E h \in Feeds : t \in Listed(h)
                        /\ g = "archive" => t \in Listed("archive")
      BY <1>3, Zenon DEF StartIsListed, Feeds
    <3> QED BY <2>1 DEF BackfillInv, StartIsListed
  <2>3. ASSUME "skipped" \notin forumExcuses' PROVE JobsAreBehind' /\ WalkIsBehind'
    <3>1. JobsAreBehind
      BY <1>0, <2>3 DEF BackfillInv
    <3>2. JobsAreBehind'
      <4> SUFFICES ASSUME NEW g \in Feeds, NEW m \in Pages \ {1}, pageJob'[g][m] = "backfill"
                   PROVE  StartStored(g, (m - 1) * PageSize)'
        BY DEF JobsAreBehind
      <4>1. pageJob[g][m] # "none" /\ StartStored(g, (m - 1) * PageSize)
        BY <1>5, <3>1 DEF JobsAreBehind
      <4>2. atStartOf'[g] = atStartOf[g]
        BY <2>1, <4>1 DEF WalkIn
      <4> QED BY <1>0, <4>1, <4>2 DEF StartStored, IsStored
    <3>3. WalkIsBehind'
      <4> SUFFICES ASSUME pageJob[f][n] = "backfill",
                          NEW i \in DOMAIN listing[f], WalkReaches(i)',
                          listing[f][i] \in atStartOf'[f]
                   PROVE  report[listing[f][i]] # NoReport \/ listing[f][i] \in InHand'
        BY <1>0, <1>5 DEF WalkIsBehind, IsStored
      <4>1. /\ LastPage(f) \in Nat \ {0} /\ i <= LastPage(f) * PageSize /\ i \in Nat \ {0}
        BY LastPageCovers, ListedAt DEF ForumShapes, ForumTypeOK
      <4>2. i <= n * PageSize
        <5>1. CASE n >= LastPage(f)
          <6>1. LastPage(f) * PageSize <= n * PageSize
            BY <1>0, <4>1, <5>1, PageBound
          <6>2. LastPage(f) * PageSize \in Nat /\ n * PageSize \in Nat
            BY <1>0, <4>1, PageStart
          <6> QED BY <4>1, <6>1, <6>2
        <5> QED BY <1>5, <5>1 DEF WalkReaches
      <4>3. CASE i > (n - 1) * PageSize
        <5>1. PageOf(f, n) = {listing[f][k] : k \in {j \in DOMAIN listing[f] :
                                (n - 1) * PageSize < j /\ j <= n * PageSize}}
          BY <1>0, PageMembers DEF ForumShapes, ForumTypeOK
        <5>2. (n - 1) * PageSize < i
          BY <4>1, <4>3, PageInts
        <5>3. listing[f][i] \in PageOf(f, n)
          BY <4>2, <5>1, <5>2
        <5> QED BY <1>5, <5>3 DEF InHand
      <4>4. CASE i <= (n - 1) * PageSize
        <5>1. n # 1
          <6>1. (1 - 1) * PageSize = 0
            BY ForumNumbers
          <6> QED BY <4>1, <4>4, <6>1
        <5>2. StartStored(f, (n - 1) * PageSize) /\ atStartOf'[f] = atStartOf[f]
          BY <2>1, <3>1, <5>1 DEF JobsAreBehind
        <5> QED BY <4>4, <5>2 DEF StartStored, IsStored
      <4> QED BY <4>1, <4>3, <4>4, PageInts
    <3> QED BY <3>2, <3>3
  <2> QED BY <1>1, <2>2, <2>3 DEF BackfillInv
<1> QED BY <1>2, <1>4, <1>5

(* When the page just stored was the last, all that was listed at the start *)
(* is stored.                                                               *)
LEMMA WholeStart ==
  ASSUME ForumShapes, BackfillInv, "skipped" \notin forumExcuses,
         walk.phase = "digested", walk.mode = "backfill", ~HasNextPage
  PROVE  \A t \in Listed(walk.feed) \cap atStartOf[walk.feed] : IsStored(t)
<1>0. WalkIsBehind /\ walk.feed \in Feeds /\ walk.page \in Nat \ {0}
  BY PageInts DEF BackfillInv, ForumShapes, Walks
<1>1. \A i \in DOMAIN listing[walk.feed] : WalkReaches(i)
  <2> SUFFICES ASSUME NEW i \in DOMAIN listing[walk.feed] PROVE WalkReaches(i)
    OBVIOUS
  <2>1. i <= PageSize * MaxListingPages
    BY <1>0, ListingsFit DEF BackfillInv
  <2>2. MaxListingPages * PageSize = PageSize * MaxListingPages
    BY ForumNumbers
  <2> QED BY <2>1, <2>2, NextPageIsAPage DEF WalkReaches
<1>2. \A t \in Listed(walk.feed) : \E i \in DOMAIN listing[walk.feed] : listing[walk.feed][i] = t
  BY <1>0, ListedAt
<1> QED BY <1>0, <1>1, <1>2 DEF WalkIsBehind

LEMMA BehindAfterWalk ==
  ASSUME ForumShapes, ForumShapes', BackfillInv, Coordinate \/ WalkStep \/ CutPage
  PROVE  BackfillInv'
<1>0. /\ [ForumNext]_forumVars /\ UNCHANGED <<listing, atStartOf>>
      /\ walk.feed \in Feeds /\ walk.page \in Pages /\ walk.page \in Nat \ {0}
  BY PageInts DEF ForumNext, Coordinate, WalkStep, StoreReports, Relink, Chain, CutPage,
     upstreamForum, forumPast, ForumShapes, Walks
<1>1. EachOnce' /\ StartIsListed'
  BY <1>0, OnceStep, QuietJobs DEF BackfillInv
<1>2. ASSUME NEW i \in DOMAIN listing[walk.feed], IsStored(listing[walk.feed][i])
      PROVE  report'[listing[walk.feed][i]] # NoReport
  BY <1>0, <1>2, ListedAt, StoredStays DEF IsStored
<1>3. ASSUME \A g \in Feeds, m \in Pages \ {1} :
               pageJob'[g][m] = "backfill" =>
                 \/ pageJob[g][m] = "backfill"
                 \/ StartStored(g, (m - 1) * PageSize),
             JobsAreBehind
      PROVE  JobsAreBehind'
  <2> SUFFICES ASSUME NEW g \in Feeds, NEW m \in Pages \ {1}, pageJob'[g][m] = "backfill"
               PROVE  StartStored(g, (m - 1) * PageSize)'
    BY DEF JobsAreBehind
  <2>1. StartStored(g, (m - 1) * PageSize) /\ (m - 1) * PageSize \in Nat
    BY <1>3, PageInts DEF JobsAreBehind
  <2> QED BY <1>0, <2>1, QuietJobs
<1>4. CASE Coordinate
  <2>1. \A g \in Feeds, m \in Pages \ {1} : pageJob'[g][m] = pageJob[g][m]
    <3>1. 1 \in Pages
      BY ForumNumbers DEF Pages
    <3> QED BY <1>4, <3>1, EnqueuedTypes DEF Coordinate, Modes
  <2>2. ASSUME "skipped" \notin forumExcuses' PROVE JobsAreBehind' /\ WalkIsBehind'
    <3>1. JobsAreBehind /\ WalkIsBehind /\ UNCHANGED <<walk, report>>
      BY <1>0, <1>4, <2>2, ExcusesStay DEF BackfillInv, Coordinate, forumTables
    <3>2. WalkIsBehind'
      BY <1>0, <3>1 DEF WalkIsBehind, WalkReaches, IsStored, InHand
    <3> QED BY <1>3, <2>1, <3>1, <3>2
  <2> QED BY <1>1, <2>2 DEF BackfillInv
<1>5. CASE StoreReports \/ Relink
  <2>1. /\ UNCHANGED pageJob /\ walk.phase # "idle" /\ walk'.phase # "idle" /\ walk'.phase # "fetched"
        /\ walk'.feed = walk.feed /\ walk'.page = walk.page /\ walk'.mode = walk.mode
        /\ walk'.last = walk.last
        /\ walk.phase = "fetched" => StoreReports
    BY <1>5 DEF StoreReports, Relink, ForumShapes, Walks
  <2>2. ASSUME "skipped" \notin forumExcuses' PROVE JobsAreBehind' /\ WalkIsBehind'
    <3>1. JobsAreBehind /\ WalkIsBehind
      BY <1>0, <2>2, ExcusesStay DEF BackfillInv
    <3>2. WalkIsBehind'
      <4> SUFFICES ASSUME walk.mode = "backfill", NEW i \in DOMAIN listing[walk.feed],
                          WalkReaches(i), listing[walk.feed][i] \in atStartOf[walk.feed]
                   PROVE  report'[listing[walk.feed][i]] # NoReport
        BY <1>0, <2>1 DEF WalkIsBehind, WalkReaches, IsStored
      <4>1. CASE IsStored(listing[walk.feed][i])
        BY <1>2, <4>1
      <4>2. CASE walk.phase = "fetched" /\ listing[walk.feed][i] \in InHand
        <5> DEFINE t == listing[walk.feed][i]
                   b == \E e \in walk.entries : e.thread = t /\ e.resolved
        <5>1. t \in Threads
          BY <1>0, ListedAt
        <5>2. report'[t] = Row(walk.feed, b)
          BY <2>1, <4>2, <5>1 DEF StoreReports, InHand
        <5>3. b \in BOOLEAN
          OBVIOUS
        <5> HIDE DEF b
        <5>4. Row(walk.feed, b) \in ReportRow
          BY <1>0, <5>3, RowIsARow
        <5> QED BY <5>2, <5>4, ForumAssumption
      <4> QED BY <2>1, <3>1, <4>1, <4>2 DEF WalkIsBehind
    <3> QED BY <1>3, <2>1, <3>1, <3>2
  <2> QED BY <1>1, <2>2 DEF BackfillInv
<1>6. CASE Chain
  <2>1. walk.phase = "digested" /\ walk'.phase = "idle"
    BY <1>6 DEF Chain, Idle
  <2>2. ASSUME "skipped" \notin forumExcuses' PROVE JobsAreBehind' /\ WalkIsBehind'
    <3>1. JobsAreBehind /\ WalkIsBehind
      BY <1>0, <2>2, ExcusesStay DEF BackfillInv
    <3>2. ASSUME NEW g \in Feeds, NEW m \in Pages \ {1},
                 pageJob'[g][m] = "backfill", pageJob[g][m] # "backfill"
          PROVE  StartStored(g, (m - 1) * PageSize)
      <4>1. g = walk.feed /\ m = walk.page + 1 /\ walk.mode = "backfill"
        BY <1>6, <3>2, ChainedJobs
      <4>2. (m - 1) * PageSize = walk.page * PageSize
        BY <1>0, <4>1, PageStart
      <4>3. StartStored(walk.feed, walk.page * PageSize)
        BY <2>1, <3>1, <4>1 DEF WalkIsBehind, WalkReaches, StartStored
      <4> QED BY <4>1, <4>2, <4>3
    <3>3. WalkIsBehind'
      BY <2>1 DEF WalkIsBehind
    <3> QED BY <1>3, <3>1, <3>2, <3>3
  <2> QED BY <1>1, <2>2 DEF BackfillInv
<1>7. CASE CutPage
  <2>1. walk'.phase = "idle"
    BY <1>7 DEF CutPage, Idle
  <2>2. \A g \in Feeds, m \in Pages : pageJob'[g][m] = "backfill" => pageJob[g][m] = "backfill"
    <3>1. PICK g \in Feeds, m \in Pages : g = walk.feed /\ m = walk.page
      BY <1>0
    <3>2. pageJob' = [pageJob EXCEPT ![g][m] = "none"] \/ pageJob' = pageJob
      BY <1>7, <3>1 DEF CutPage
    <3> QED BY <3>2, JobDone
  <2>3. ASSUME "skipped" \notin forumExcuses' PROVE JobsAreBehind' /\ WalkIsBehind'
    <3>1. JobsAreBehind
      BY <1>0, <2>3, ExcusesStay DEF BackfillInv
    <3>2. WalkIsBehind'
      BY <2>1 DEF WalkIsBehind
    <3> QED BY <1>3, <2>2, <3>1, <3>2
  <2> QED BY <1>1, <2>3 DEF BackfillInv
<1> QED BY <1>4, <1>5, <1>6, <1>7 DEF WalkStep

LEMMA BackfillStep ==
  ForumShapes /\ ForumShapes' /\ BackfillInv /\ [ForumNext]_forumVars => BackfillInv'
<1> SUFFICES ASSUME ForumShapes, ForumShapes', BackfillInv, [ForumNext]_forumVars
             PROVE  BackfillInv'
  OBVIOUS
<1>1. ASSUME \/ \E t \in Threads : Edit(t)
             \/ \E x \in Plots : IndexPlot(x)
             \/ OperatorStep
             \/ UNCHANGED forumVars
      PROVE  UNCHANGED <<listing, atStartOf, pageJob, walk>>
  BY <1>1 DEF Edit, IndexPlot, OperatorStep, Unlink, Unassign, ReadForLink, Assign, FinishLink,
     forumVars, forumTables, forumPast, upstreamForum
<1> QED BY <1>1, BehindWhenQuiet, BehindAfterUpstream, BehindAfterClaim, BehindAfterWalk DEF ForumNext

(* When a backfill is called complete every thread that was listed when the *)
(* walk began, and still is, has been stored, for any number of threads,    *)
(* pages, cuts and buried jobs - unless a thread left the listing while it  *)
(* was walked: threads only sink past what is stored (handlers/forum.ts).   *)
THEOREM BackfillsAreHonest == ForumSpec => BackfillIsHonest
<1>1. ForumShapes /\ BackfillInv /\ [ForumNext]_forumVars =>
        [\A f \in backfilled' \ backfilled : "skipped" \notin forumExcuses =>
           \A t \in Listed(f) \cap atStartOf[f] : report[t] # NoReport]_forumVars
  <2> SUFFICES ASSUME ForumShapes, BackfillInv, [ForumNext]_forumVars,
                      NEW f \in backfilled' \ backfilled, "skipped" \notin forumExcuses,
                      NEW t \in Listed(f) \cap atStartOf[f]
               PROVE  report[t] # NoReport
    OBVIOUS
  <2>1. Chain
    BY DEF ForumNext, Post, Archive, Edit, IndexPlot, Coordinate, Claim, WalkStep, StoreReports,
       Relink, CutPage, OperatorStep, Unlink, Unassign, ReadForLink, Assign, FinishLink,
       forumVars, forumTables
  <2>2. f = walk.feed /\ walk.phase = "digested" /\ walk.mode = "backfill" /\ ~HasNextPage
    BY <2>1 DEF Chain
  <2> QED BY <2>2, WholeStart DEF IsStored
<1> QED BY <1>1, ShapesInit, ShapesStep, BackfillInit, BackfillStep, PTL
        DEF ForumSpec, BackfillIsHonest

-----------------------------------------------------------------------------
(* A link an operator made outlives every crawl and every paste, for any    *)
(* titles and any plots: only an operator's own removal takes it away       *)
(* (handlers/forum.ts, app/regions/actions.ts, app/reports/actions.ts).     *)
THEOREM ManualLinksStay == ForumSpec => ManualLinksOutlive
<1>1. ForumShapes /\ [ForumNext]_forumVars =>
        [\A t \in Threads, p \in Plots :
           link[t][p] = "manual" /\ link'[t][p] # "manual" => Unlink(t, p) \/ Unassign(t, p)]_forumVars
  <2> SUFFICES ASSUME ForumShapes, [ForumNext]_forumVars, NEW t \in Threads, NEW p \in Plots,
                      link[t][p] = "manual", link'[t][p] # "manual"
               PROVE  Unlink(t, p) \/ Unassign(t, p)
    OBVIOUS
  <2>0. link \in [Threads -> [Plots -> LinkSource]]
    BY DEF ForumShapes, ForumTypeOK
  <2>1. ASSUME Relink PROVE FALSE
    <3>1. \A ids : Relinked(link[t], ids)[p] = "manual"
      BY DEF Relinked, WithParsed, WithoutParsed
    <3> QED BY <2>1, <3>1 DEF Relink
  <2>2. ASSUME FinishLink PROVE FALSE
    BY <2>0, <2>2 DEF FinishLink
  <2>3. ASSUME NEW u \in Threads, NEW id \in UNION Titles, Assign(u, id) PROVE FALSE
    BY <2>0, <2>3 DEF Assign
  <2>4. ASSUME NEW u \in Threads, NEW x \in Plots, Unlink(u, x) \/ Unassign(u, x)
        PROVE  u = t /\ x = p
    <3>1. link' = [link EXCEPT ![u][x] = "none"]
      BY <2>4 DEF Unlink, Unassign
    <3> QED BY <2>0, <3>1
  <2>5. ASSUME UNCHANGED link PROVE FALSE
    BY <2>5
  <2>6. CASE OperatorStep
    BY <2>2, <2>3, <2>4, <2>5, <2>6 DEF OperatorStep, ReadForLink, forumTables
  <2>7. CASE WalkStep \/ CutPage
    BY <2>1, <2>5, <2>7 DEF WalkStep, StoreReports, Chain, CutPage, forumTables
  <2>8. CASE \/ \E u \in Threads : Post(u) \/ Archive(u) \/ Edit(u)
             \/ \E x \in Plots : IndexPlot(x)
             \/ Coordinate \/ \E f \in Feeds, n \in Pages : Claim(f, n)
    BY <2>5, <2>8 DEF Post, Archive, Edit, IndexPlot, Coordinate, Claim, forumTables
  <2>9. CASE UNCHANGED forumVars
    BY <2>5, <2>9 DEF forumVars, forumTables
  <2> QED BY <2>6, <2>7, <2>8, <2>9 DEF ForumNext
<1> QED BY <1>1, ShapesInit, ShapesStep, PTL DEF ForumSpec, ManualLinksOutlive

-----------------------------------------------------------------------------
(* What is stored, noted or in hand is listed, on one feed or the other.    *)
IsListed(t) == \E g \in Feeds : t \in Listed(g)

ListedInv ==
  /\ \A t \in Threads : IsStored(t) => IsListed(t)
  /\ \A f \in Feeds, n \in Pages : digest[f][n] # NoDigest =>
       \A e \in digest[f][n] : /\ IsStored(e.thread) /\ IsListed(e.thread)
                               /\ f = "archive" => e.thread \in Listed("archive")
  /\ walk.phase # "idle" =>
       \A e \in walk.entries : /\ IsListed(e.thread)
                               /\ walk.feed = "archive" => e.thread \in Listed("archive")
                               /\ walk.phase # "fetched" => IsStored(e.thread)
  /\ paste.phase = "read" => IsListed(paste.thread)

LEMMA ListedStays ==
  ASSUME ForumShapes, ForumShapes', EachOnce, [ForumNext]_forumVars
  PROVE  \A t \in Threads : /\ IsListed(t) => IsListed(t)'
                            /\ t \in Listed("archive") => t \in Listed("archive")'
<1>0. /\ "reports" \in Feeds /\ "archive" \in Feeds
      /\ \A f \in Feeds : f = "reports" \/ f = "archive"
  BY DEF Feeds
<1>1. CASE UNCHANGED listing
  BY <1>1 DEF IsListed, Listed
<1>2. ASSUME NEW t \in Threads, Post(t)
      PROVE  Listed("archive")' = Listed("archive") /\ Listed("reports")' = Listed("reports") \cup {t}
  <2>1. /\ listing'["reports"] = <<t>> \o listing["reports"]
        /\ listing'["archive"] = listing["archive"]
    BY <1>2 DEF Post, ForumShapes, ForumTypeOK, Feeds
  <2> QED BY <1>0, <2>1, Arrival DEF Listed
<1>3. ASSUME NEW t \in Threads, Archive(t)
      PROVE  /\ Listed("archive")' = Listed("archive") \cup {t}
             /\ Listed("reports")' = Listed("reports") \ {t}
  BY <1>0, <1>3, Departure, Arrival
<1>4. \/ UNCHANGED listing \/ \E t \in Threads : Post(t) \/ Archive(t)
  <2>1. CASE \E t \in Threads : Post(t) \/ Archive(t) \/ Edit(t)
    BY <2>1 DEF Edit
  <2>2. CASE \E x \in Plots : IndexPlot(x)
    BY <2>2 DEF IndexPlot, upstreamForum
  <2>3. CASE Coordinate \/ \E f \in Feeds, n \in Pages : Claim(f, n)
    BY <2>3 DEF Coordinate, Claim, upstreamForum
  <2>4. CASE WalkStep \/ CutPage
    BY <2>4 DEF WalkStep, StoreReports, Relink, Chain, CutPage, upstreamForum
  <2>5. CASE OperatorStep
    BY <2>5 DEF OperatorStep, Unlink, Unassign, ReadForLink, Assign, FinishLink, upstreamForum
  <2>6. CASE UNCHANGED forumVars
    BY <2>6 DEF forumVars, upstreamForum
  <2> QED BY <2>1, <2>2, <2>3, <2>4, <2>5, <2>6 DEF ForumNext
<1>5. ASSUME NEW t \in Threads, Post(t) \/ Archive(t)
      PROVE  \A u \in Threads : /\ IsListed(u) => IsListed(u)'
                                /\ u \in Listed("archive") => u \in Listed("archive")'
  BY <1>0, <1>2, <1>3, <1>5 DEF IsListed
<1> QED BY <1>1, <1>4, <1>5

LEMMA ListedInit == ForumInit => ListedInv
<1> SUFFICES ASSUME ForumInit PROVE ListedInv
  OBVIOUS
<1>0. /\ listing \in [Feeds -> Seq(Threads)] /\ ForumShapes
      /\ walk.phase = "idle" /\ paste.phase = "none"
  BY ShapesInit DEF ForumInit, ForumShapes, ForumTypeOK, Idle, NoPaste
<1>1. CASE NothingStored
  BY <1>0, <1>1 DEF NothingStored, ListedInv, IsStored
<1>2. CASE AllStored
  <2>1. \A t \in Threads : IsStored(t) => IsListed(t)
    BY <1>2 DEF AllStored, IsStored, IsListed
  <2>2. ASSUME NEW t \in Threads, IsListed(t) PROVE IsStored(t)
    <3>1. Row(CHOOSE f \in Feeds : t \in Listed(f), FALSE) \in ReportRow
      BY <2>2, RowIsARow DEF IsListed
    <3> QED BY <1>2, <2>2, <3>1, ForumAssumption DEF AllStored, IsStored, IsListed
  <2>3. ASSUME NEW f \in Feeds, NEW n \in Pages, digest[f][n] # NoDigest, NEW e \in digest[f][n]
        PROVE  IsStored(e.thread) /\ e.thread \in Listed(f)
    <3>1. digest[f][n] = {Entry(t) : t \in PageOf(f, n)}
      BY <1>2, <2>3 DEF AllStored
    <3>2. {u.thread : u \in {Entry(t) : t \in PageOf(f, n)}} = PageOf(f, n)
      BY <1>0, EntriesOfAPage
    <3>3. e.thread \in PageOf(f, n) /\ PageOf(f, n) \subseteq Listed(f) /\ Listed(f) \subseteq Threads
      BY <1>0, <2>3, <3>1, <3>2, PageMembers, PageInts
    <3> QED BY <2>2, <3>3 DEF IsListed
  <2> QED BY <1>0, <2>1, <2>3 DEF ListedInv, IsListed
<1> QED BY <1>1, <1>2 DEF ForumInit

LEMMA ListedStep ==
  ForumShapes /\ ForumShapes' /\ EachOnce /\ ListedInv /\ [ForumNext]_forumVars => ListedInv'
<1> SUFFICES ASSUME ForumShapes, ForumShapes', EachOnce, ListedInv, [ForumNext]_forumVars
             PROVE  ListedInv'
  OBVIOUS
<1>0. /\ \A t \in Threads : /\ IsStored(t) => IsStored(t)'
                            /\ IsListed(t) => IsListed(t)'
                            /\ t \in Listed("archive") => t \in Listed("archive")'
      /\ \A e \in Entries : e.thread \in Threads
      /\ walk.feed \in Feeds /\ walk.page \in Pages /\ walk.entries \subseteq Entries
  BY StoredStays, ListedStays DEF Entries, ForumShapes, Walks
<1>a. UNCHANGED report \/ StoreReports \/ FinishLink
  BY DEF ForumNext, Post, Archive, Edit, IndexPlot, Coordinate, Claim, WalkStep, Relink, Chain,
     CutPage, OperatorStep, Unlink, Unassign, ReadForLink, Assign, forumVars, forumTables
<1>b. UNCHANGED digest \/ Relink
  BY DEF ForumNext, Post, Archive, Edit, IndexPlot, Coordinate, Claim, WalkStep, StoreReports, Chain,
     CutPage, OperatorStep, Unlink, Unassign, ReadForLink, Assign, FinishLink, forumVars, forumTables
<1>c. UNCHANGED walk \/ (\E f \in Feeds, n \in Pages : Claim(f, n)) \/ WalkStep \/ CutPage
  BY DEF ForumNext, Post, Archive, Edit, IndexPlot, Coordinate,
     OperatorStep, Unlink, Unassign, ReadForLink, Assign, FinishLink, forumVars
<1>d. UNCHANGED paste \/ FinishLink
      \/ \E t \in Threads, p \in Plots, v \in BOOLEAN : ReadForLink(t, p, v)
  BY DEF ForumNext, Post, Archive, Edit, IndexPlot, Coordinate, Claim, WalkStep, StoreReports, Relink,
     Chain, CutPage, OperatorStep, Unlink, Unassign, Assign, forumVars, forumTables
<1>1. ASSUME NEW t \in Threads, IsStored(t)' PROVE IsListed(t)'
  <2>1. CASE UNCHANGED report
    BY <1>0, <1>1, <2>1 DEF ListedInv, IsStored
  <2>2. CASE StoreReports
    <3>1. IsStored(t) \/ \E e \in walk.entries : e.thread = t
      BY <1>1, <2>2 DEF StoreReports, IsStored
    <3> QED BY <1>0, <2>2, <3>1 DEF ListedInv, StoreReports
  <2>3. CASE FinishLink
    <3>1. IsStored(t) \/ paste.thread = t
      BY <1>1, <2>3 DEF FinishLink, IsStored, ForumShapes, ForumTypeOK
    <3> QED BY <1>0, <2>3, <3>1 DEF ListedInv, FinishLink
  <2> QED BY <1>a, <2>1, <2>2, <2>3
<1>2. ASSUME NEW f \in Feeds, NEW n \in Pages, digest'[f][n] # NoDigest, NEW e \in digest'[f][n]
      PROVE  /\ IsStored(e.thread)' /\ IsListed(e.thread)'
             /\ f = "archive" => e.thread \in Listed("archive")'
  <2>1. CASE digest'[f][n] = digest[f][n]
    <3>1. e \in Entries
      BY <1>2, <2>1 DEF ForumShapes
    <3>2. /\ IsStored(e.thread) /\ IsListed(e.thread)
          /\ f = "archive" => e.thread \in Listed("archive")
      BY <1>2, <2>1 DEF ListedInv
    <3> QED BY <1>0, <3>1, <3>2
  <2>2. CASE Relink /\ f = walk.feed /\ n = walk.page
    <3>1. e \in walk.entries /\ walk.phase = "stored"
      BY <1>2, <2>2 DEF Relink, ForumShapes
    <3>2. /\ IsStored(e.thread) /\ IsListed(e.thread)
          /\ f = "archive" => e.thread \in Listed("archive")
      BY <2>2, <3>1 DEF ListedInv
    <3> QED BY <1>0, <3>1, <3>2
  <2>3. Relink => digest'[f][n] = digest[f][n] \/ (f = walk.feed /\ n = walk.page)
    BY <1>0 DEF Relink, ForumShapes
  <2> QED BY <1>b, <2>1, <2>2, <2>3
<1>3. ASSUME walk'.phase # "idle", NEW e \in walk'.entries
      PROVE  /\ IsListed(e.thread)'
             /\ walk'.feed = "archive" => e.thread \in Listed("archive")'
             /\ walk'.phase # "fetched" => IsStored(e.thread)'
  <2>1. CASE UNCHANGED walk
    BY <1>0, <1>3, <2>1 DEF ListedInv
  <2>2. ASSUME NEW f \in Feeds, NEW n \in Pages, Claim(f, n), walk' # walk
        PROVE  /\ IsListed(e.thread)'
               /\ walk'.feed = "archive" => e.thread \in Listed("archive")'
               /\ walk'.phase = "fetched"
    <3>1. /\ walk'.phase = "fetched" /\ walk'.feed = f
          /\ {u.thread : u \in walk'.entries} = PageOf(f, n)
      BY <2>2, ClaimedWalk
    <3>2. PageOf(f, n) \subseteq Listed(f)
      BY PageMembers, PageInts DEF ForumShapes, ForumTypeOK
    <3>3. e.thread \in Listed(f)
      BY <1>3, <3>1, <3>2
    <3>4. \A g \in Feeds : Listed(g)' = Listed(g)
      BY <2>2 DEF Claim, upstreamForum, Listed
    <3> QED BY <3>1, <3>3, <3>4 DEF IsListed
  <2>3. CASE StoreReports
    <3>1. walk'.entries = walk.entries /\ walk'.feed = walk.feed /\ walk.phase # "idle"
      BY <2>3 DEF StoreReports, ForumShapes, Walks
    <3>2. /\ IsListed(e.thread)'
          /\ walk'.feed = "archive" => e.thread \in Listed("archive")'
      BY <1>0, <1>3, <3>1 DEF ListedInv
    <3>3. e.thread \in Threads /\ \E u \in walk.entries : u.thread = e.thread
      BY <1>0, <1>3, <3>1
    <3> DEFINE b == \E u \in walk.entries : u.thread = e.thread /\ u.resolved
    <3>4. report'[e.thread] = Row(walk.feed, b) /\ b \in BOOLEAN
      BY <2>3, <3>3 DEF StoreReports
    <3> HIDE DEF b
    <3>5. Row(walk.feed, b) \in ReportRow
      BY <1>0, <3>4, RowIsARow
    <3> QED BY <3>2, <3>4, <3>5, ForumAssumption DEF IsStored
  <2>4. CASE Relink
    <3>1. walk'.entries = walk.entries /\ walk'.feed = walk.feed /\ walk.phase = "stored"
      BY <2>4 DEF Relink, ForumShapes, Walks
    <3> QED BY <1>0, <1>3, <3>1 DEF ListedInv
  <2>5. CASE Chain \/ CutPage
    BY <1>3, <2>5 DEF Chain, CutPage, Idle
  <2> QED BY <1>c, <2>1, <2>2, <2>3, <2>4, <2>5 DEF WalkStep
<1>4. ASSUME paste'.phase = "read", NEW t \in Threads, paste'.thread = t PROVE IsListed(t)'
  <2>1. CASE UNCHANGED paste
    BY <1>0, <1>4, <2>1 DEF ListedInv
  <2>2. CASE FinishLink
    BY <1>4, <2>2 DEF FinishLink, NoPaste
  <2>3. ASSUME NEW u \in Threads, NEW p \in Plots, NEW v \in BOOLEAN, ReadForLink(u, p, v)
        PROVE  IsListed(t)'
    <3>1. u = t /\ IsListed(u)
      BY <1>4, <2>3 DEF ReadForLink, IsListed
    <3> QED BY <1>0, <3>1
  <2> QED BY <1>d, <2>1, <2>2, <2>3
<1>5. paste'.phase = "read" => paste'.thread \in Threads
  BY DEF ForumShapes, Pastes, NoPaste
<1>6. ASSUME paste'.phase = "read" PROVE (IsListed(paste.thread))'
  <2>1. PICK t \in Threads : paste'.thread = t
    BY <1>5, <1>6
  <2>2. IsListed(t)'
    BY <1>4, <1>6, <2>1
  <2> QED BY <2>1, <2>2 DEF IsListed
<1> QED BY <1>1, <1>2, <1>3, <1>6 DEF ListedInv

-----------------------------------------------------------------------------
(* Only a feed whose backfill is complete is checked page by page, and no   *)
(* such check is queued below a job of a backfill.                          *)
ModeInv ==
  \A f \in Feeds, m \in Pages :
    /\ f \notin backfilled => pageJob[f][m] # "incremental"
    /\ \A n \in Pages : m < n /\ pageJob[f][m] = "backfill" => pageJob[f][n] # "incremental"

LEMMA ModeInit == ForumInit => ModeInv
BY DEF ForumInit, ModeInv

LEMMA ModeStep ==
  ForumShapes /\ ForumShapes' /\ ModeInv /\ [ForumNext]_forumVars => ModeInv'
<1> SUFFICES ASSUME ForumShapes, ForumShapes', ModeInv, [ForumNext]_forumVars PROVE ModeInv'
  OBVIOUS
<1>0. walk.feed \in Feeds /\ walk.page \in Pages /\ walk.page \in Nat \ {0} /\ walk.mode \in Modes
  BY PageInts DEF ForumShapes, Walks
<1>a. \/ UNCHANGED pageJob /\ UNCHANGED backfilled
      \/ Coordinate \/ (\E f \in Feeds, n \in Pages : Claim(f, n)) \/ Chain \/ CutPage
  BY DEF ForumNext, Post, Archive, Edit, IndexPlot, WalkStep, StoreReports, Relink,
     OperatorStep, Unlink, Unassign, ReadForLink, Assign, FinishLink, forumVars, forumTables
<1>1. CASE UNCHANGED pageJob /\ UNCHANGED backfilled
  BY <1>1 DEF ModeInv
<1>2. ASSUME backfilled \subseteq backfilled',
             \A f \in Feeds, m \in Pages : pageJob'[f][m] \in {pageJob[f][m], "none"}
      PROVE  ModeInv'
  <2> SUFFICES ASSUME NEW f \in Feeds, NEW m \in Pages
               PROVE  /\ f \notin backfilled' => pageJob'[f][m] # "incremental"
                      /\ \A n \in Pages : m < n /\ pageJob'[f][m] = "backfill" =>
                           pageJob'[f][n] # "incremental"
    BY DEF ModeInv
  <2>1. \A n \in Pages : pageJob'[f][n] = pageJob[f][n] \/ pageJob'[f][n] = "none"
    BY <1>2
  <2> QED BY <1>2, <2>1 DEF ModeInv
<1>3. CASE Coordinate
  <2>1. 1 \in Pages /\ \A m \in Pages : m \in Nat /\ (m # 1 => 1 < m)
    BY ForumNumbers DEF Pages
  <2>2. \A f \in Feeds, m \in Pages :
          pageJob'[f][m] = IF m = 1 /\ ~Live(f, 1)
                           THEN (IF f \in backfilled THEN "incremental" ELSE "backfill")
                           ELSE pageJob[f][m]
    BY <1>3, <2>1, EnqueuedTypes DEF Coordinate, Modes
  <2>3. UNCHANGED backfilled
    BY <1>3 DEF Coordinate, forumTables
  <2> SUFFICES ASSUME NEW f \in Feeds, NEW m \in Pages
               PROVE  /\ f \notin backfilled => pageJob'[f][m] # "incremental"
                      /\ \A n \in Pages : m < n /\ pageJob'[f][m] = "backfill" =>
                           pageJob'[f][n] # "incremental"
    BY <2>3 DEF ModeInv
  <2>4. f \notin backfilled => \A n \in Pages : pageJob'[f][n] # "incremental"
    BY <2>2 DEF ModeInv
  <2>5. ASSUME NEW n \in Pages, m < n, pageJob'[f][m] = "backfill", f \in backfilled
        PROVE  pageJob'[f][n] # "incremental"
    <3>1. n # 1
      BY <2>1, <2>5
    <3>2. pageJob[f][m] = "backfill" /\ pageJob'[f][n] = pageJob[f][n]
      BY <2>2, <2>5, <3>1
    <3> QED BY <2>5, <3>2 DEF ModeInv
  <2> QED BY <2>4, <2>5
<1>4. ASSUME NEW f \in Feeds, NEW n \in Pages, Claim(f, n) PROVE ModeInv'
  <2>1. pageJob' = [pageJob EXCEPT ![f][n] = "none"] \/ pageJob' = pageJob
    BY <1>4, ClaimedWalk
  <2>2. UNCHANGED backfilled
    BY <1>4 DEF Claim, forumTables
  <2> QED BY <1>2, <2>1, <2>2, JobDone
<1>5. CASE CutPage
  <2>1. PICK g \in Feeds, m \in Pages : g = walk.feed /\ m = walk.page
    BY <1>0
  <2>2. pageJob' = [pageJob EXCEPT ![g][m] = "none"] \/ pageJob' = pageJob
    BY <1>5, <2>1 DEF CutPage
  <2>3. UNCHANGED backfilled
    BY <1>5 DEF CutPage, forumTables
  <2> QED BY <1>2, <2>2, <2>3, JobDone
<1>6. CASE Chain
  <2>0. /\ backfilled \subseteq backfilled' /\ pageJob[walk.feed][walk.page] = walk.mode
    BY <1>6 DEF Chain, ForumShapes, ForumTypeOK
  <2>1. \A g \in Feeds, m \in Pages :
          pageJob'[g][m] = IF g = walk.feed /\ m = walk.page THEN "none"
                           ELSE IF HasNextPage /\ g = walk.feed /\ m = walk.page + 1 /\ ~Live(g, m)
                                THEN walk.mode ELSE pageJob[g][m]
    BY <1>6, ChainedJobs
  <2> SUFFICES ASSUME NEW f \in Feeds, NEW m \in Pages
               PROVE  /\ f \notin backfilled => pageJob'[f][m] # "incremental"
                      /\ \A n \in Pages : m < n /\ pageJob'[f][m] = "backfill" =>
                           pageJob'[f][n] # "incremental"
    BY <2>0 DEF ModeInv
  <2>2. f \notin backfilled => pageJob'[f][m] # "incremental"
    BY <1>0, <2>0, <2>1 DEF ModeInv
  <2>3. ASSUME NEW n \in Pages, m < n, pageJob'[f][m] = "backfill", pageJob'[f][n] = "incremental"
        PROVE  FALSE
    <3>0. m \in Nat /\ n \in Nat
      BY PageInts
    <3>1. CASE pageJob[f][m] = "backfill" /\ pageJob[f][n] = "incremental"
      BY <2>3, <3>1 DEF ModeInv
    <3>2. CASE pageJob[f][m] # "backfill"
      <4>1. f = walk.feed /\ m = walk.page + 1 /\ walk.mode = "backfill"
        BY <2>1, <2>3, <3>2
      <4>2. pageJob[f][n] = "incremental"
        BY <2>1, <2>3, <4>1
      <4>3. walk.page < n
        BY <1>0, <2>3, <3>0, <4>1
      <4> QED BY <1>0, <2>0, <4>1, <4>2, <4>3 DEF ModeInv
    <3>3. CASE pageJob[f][m] = "backfill" /\ pageJob[f][n] # "incremental"
      <4>1. f = walk.feed /\ n = walk.page + 1 /\ walk.mode = "incremental" /\ m # walk.page
        BY <2>1, <2>3, <3>3
      <4>2. m < walk.page
        BY <1>0, <2>3, <3>0, <4>1
      <4> QED BY <1>0, <2>0, <3>3, <4>1, <4>2 DEF ModeInv
    <3> QED BY <3>1, <3>2, <3>3
  <2> QED BY <2>2, <2>3
<1> QED BY <1>a, <1>1, <1>3, <1>4, <1>5, <1>6

-----------------------------------------------------------------------------
(* Why a gap below page 1 is not forgotten.  Everything down to it is new,  *)
(* so that the next check of page 1 walks down to it; or a page job will    *)
(* get there; or a backfill is yet to begin; or the walk under way has it   *)
(* in hand or before it.                                                    *)
WalkRuns(f) == walk.phase # "idle" /\ walk.feed = f

LinksFor(t, ids) ==
  \A p \in Plots : /\ p \in Matches(ids) => link[t][p] # "none"
                   /\ link[t][p] = "parsed" => p \in Matches(ids)

EntryInStep(f, e) == report[e.thread] = Row(f, e.resolved) /\ LinksFor(e.thread, e.title)

OutOfStep(f, k) == k > PageSize /\ ~ThreadInStep(f, listing[f][k])

Unstored(f, a, k) ==
  \A i \in DOMAIN listing[f] : a < i /\ i <= k => ~IsStored(listing[f][i])

OutOfHand(f, k) == \A i \in DOMAIN listing[f] : i <= k => listing[f][i] \notin InHand

JobReaches(f, m, k) ==
  /\ Live(f, m) /\ (WalkRuns(f) /\ walk.page = m => walk.phase = "fetched")
  /\ (m - 1) * PageSize < k
  /\ pageJob[f][m] = "backfill" \/ (m > 1 /\ Unstored(f, (m - 1) * PageSize, k))

BackfillIsDue(f) == f \notin backfilled /\ \A m \in Pages \ {1} : ~Live(f, m)

WalkHolds(f, k) == /\ WalkRuns(f) /\ walk.phase = "stored"
                   /\ (walk.page - 1) * PageSize < k /\ k <= walk.page * PageSize

WalkGoesOn(f, k) ==
  /\ WalkRuns(f) /\ walk.phase \in {"stored", "digested"}
  /\ k > walk.page * PageSize
  /\ walk.mode = "backfill" \/ (walk.new = InHand /\ Unstored(f, walk.page * PageSize, k))

GapIsCovered(f, k) ==
  \/ Unstored(f, 0, k) \/ \E m \in Pages : JobReaches(f, m, k)
  \/ BackfillIsDue(f) \/ WalkHolds(f, k) \/ WalkGoesOn(f, k)

GapsCovered(f) == \A k \in DOMAIN listing[f] : OutOfStep(f, k) => GapIsCovered(f, k)

(* The walk has in hand what its page shows, or whatever is out of step is  *)
(* new and further up.                                                      *)
PageIsAsRead(f) == InHand = PageOf(f, walk.page) /\ walk.last = LastPage(f)
GapsAreNew(f)   == \A k \in DOMAIN listing[f] : OutOfStep(f, k) =>
                     Unstored(f, 0, k) /\ OutOfHand(f, k)
HandIsTrue(f) ==
  WalkRuns(f) =>
    /\ PageIsAsRead(f) \/ GapsAreNew(f)
    /\ walk.phase = "digested" => digest[f][walk.page] = walk.entries
    /\ \A e \in walk.entries :
         /\ \E k \in DOMAIN listing[f] :
              listing[f][k] = e.thread /\ k > (walk.page - 1) * PageSize
         /\ e = Entry(e.thread)
         /\ walk.phase # "fetched" => report[e.thread] = Row(f, e.resolved)
         /\ walk.phase = "digested" => LinksFor(e.thread, e.title)

(* What the digest of page 1 names is in step if it has sunk below page 1,  *)
(* and else as the digest says, unless a job is to read the page again.     *)
SunkInStep(f) ==
  digest[f][1] # NoDigest => \A e \in digest[f][1] : \A k \in DOMAIN listing[f] :
    listing[f][k] = e.thread /\ k > PageSize => ThreadInStep(f, e.thread)

DigestInStep(f) ==
  /\ f \in backfilled \/ \E m \in Pages \ {1} : Live(f, m)
  /\ pageJob[f][1] # "backfill" /\ digest[f][1] # NoDigest
  => \A e \in digest[f][1] : e.thread \in Listed(f) =>
       EntryInStep(f, e) \/ (WalkRuns(f) /\ walk.phase = "stored" /\ walk.page = 1
                             /\ e.thread \in InHand)

FeedInv(f) == GapsCovered(f) /\ HandIsTrue(f) /\ SunkInStep(f) /\ DigestInStep(f)

MirrorInv == forumExcuses = {} => \A f \in Feeds : FeedInv(f)

LEMMA InStepForm ==
  ASSUME NEW f, NEW t
  PROVE  ThreadInStep(f, t) <=> report[t] = Row(f, t \in resolved) /\ LinksFor(t, title[t])
BY DEF ThreadInStep, ReportInStep, LinksInStep, LinksFor

(* What FeedInv says of a feed rests on what the feed lists, its jobs and   *)
(* its digests.                                                             *)
LEMMA FeedUntouched ==
  ASSUME ForumShapes, ForumShapes', NEW f \in Feeds, FeedInv(f),
         listing'[f] = listing[f], UNCHANGED plotTable,
         \A t \in Listed(f) : /\ report'[t] = report[t] /\ link'[t] = link[t]
                              /\ title'[t] = title[t] /\ (t \in resolved' <=> t \in resolved),
         pageJob'[f] = pageJob[f], f \in backfilled' <=> f \in backfilled,
         digest'[f] = digest[f],
         UNCHANGED walk \/ (~WalkRuns(f) /\ ~WalkRuns(f)')
  PROVE  FeedInv(f)'
<1>0. /\ \A k \in DOMAIN listing[f] : listing[f][k] \in Listed(f)
      /\ Listed(f)' = Listed(f)
      /\ 1 \in Pages
  BY ListedAt, ForumNumbers DEF Listed, Pages
<1>1. \A ids : Matches(ids)' = Matches(ids)
  BY DEF Matches, Candidates
<1>2. \A t \in Listed(f) : \A ids : LinksFor(t, ids)' <=> LinksFor(t, ids)
  BY <1>1 DEF LinksFor
<1>3. \A t \in Listed(f) : \A b : (report[t] = Row(f, b))' <=> report[t] = Row(f, b)
  BY DEF Row, IsReportActive
<1>4. \A t \in Listed(f) : ThreadInStep(f, t)' <=> ThreadInStep(f, t)
  <2> SUFFICES ASSUME NEW t \in Listed(f)
               PROVE  ThreadInStep(f, t)' <=> ThreadInStep(f, t)
    OBVIOUS
  <2>1. (t \in resolved') = (t \in resolved)
    OBVIOUS
  <2>2. Row(f, t \in resolved)' = Row(f, t \in resolved)
    BY <2>1 DEF Row, IsReportActive
  <2>3. ThreadInStep(f, t)' <=> report'[t] = Row(f, t \in resolved)' /\ LinksFor(t, title[t])'
    BY DEF ThreadInStep, ReportInStep, LinksInStep, LinksFor
  <2> QED BY <1>2, <2>2, <2>3, InStepForm
<1>5. \A k \in DOMAIN listing[f] : OutOfStep(f, k)' <=> OutOfStep(f, k)
  BY <1>0, <1>4 DEF OutOfStep
<1>6. \A a, k : Unstored(f, a, k)' <=> Unstored(f, a, k)
  BY <1>0 DEF Unstored, IsStored
<1>7. \A m \in Pages : Live(f, m)' <=> Live(f, m)
  BY DEF Live
<1>8. \A m \in Pages : \A k : JobReaches(f, m, k) => JobReaches(f, m, k)'
  BY <1>6, <1>7 DEF JobReaches, WalkRuns
<1>9. BackfillIsDue(f) => BackfillIsDue(f)'
  BY <1>7 DEF BackfillIsDue
<1>10. \A k : /\ WalkHolds(f, k) => WalkHolds(f, k)'
              /\ WalkGoesOn(f, k) => WalkGoesOn(f, k)'
  BY <1>6 DEF WalkHolds, WalkGoesOn, WalkRuns, InHand
<1>11. GapsCovered(f)'
  BY <1>5, <1>6, <1>8, <1>9, <1>10 DEF FeedInv, GapsCovered, GapIsCovered
<1>12. SunkInStep(f)'
  BY <1>0, <1>4 DEF FeedInv, SunkInStep
<1>13. ASSUME WalkRuns(f)' PROVE HandIsTrue(f)'
  <2>1. WalkRuns(f) /\ UNCHANGED walk /\ walk.feed = f
    BY <1>13 DEF WalkRuns
  <2>2. InHand' = InHand
    BY <2>1 DEF InHand
  <2>3. PageIsAsRead(f) => PageIsAsRead(f)'
    BY <2>1, <2>2 DEF PageIsAsRead, PageOf, LastPage
  <2>4. GapsAreNew(f) => GapsAreNew(f)'
    BY <1>5, <1>6, <2>2 DEF GapsAreNew, OutOfHand
  <2>5. ASSUME NEW e \in walk.entries
        PROVE  /\ \E k \in DOMAIN listing[f] :
                    listing[f][k] = e.thread /\ k > (walk.page - 1) * PageSize
               /\ e = Entry(e.thread) /\ e.thread \in Listed(f)
    BY <1>0, <2>1 DEF FeedInv, HandIsTrue
  <2>6. \A e \in walk.entries : (e = Entry(e.thread))' <=> e = Entry(e.thread)
    <3> SUFFICES ASSUME NEW e \in walk.entries PROVE Entry(e.thread)' = Entry(e.thread)
      BY <2>1
    <3>1. (e.thread \in resolved') = (e.thread \in resolved) /\ title'[e.thread] = title[e.thread]
      BY <2>5
    <3> QED BY <3>1 DEF Entry
  <2>7. \A e \in walk.entries : /\ report'[e.thread] = report[e.thread]
                                /\ LinksFor(e.thread, e.title)' <=> LinksFor(e.thread, e.title)
    BY <1>2, <2>5
  <2>8. \A e \in walk.entries : Row(f, e.resolved)' = Row(f, e.resolved)
    BY DEF Row, IsReportActive
  <2>9. walk.phase = "digested" => digest'[f][walk.page] = walk.entries
    BY <2>1 DEF FeedInv, HandIsTrue
  <2>10. PageIsAsRead(f) \/ GapsAreNew(f)
    BY <2>1 DEF FeedInv, HandIsTrue
  <2>11. \A e \in walk.entries :
           /\ walk.phase # "fetched" => report[e.thread] = Row(f, e.resolved)
           /\ walk.phase = "digested" => LinksFor(e.thread, e.title)
    BY <2>1 DEF FeedInv, HandIsTrue
  <2> QED BY <2>1, <2>3, <2>4, <2>5, <2>6, <2>7, <2>8, <2>9, <2>10, <2>11 DEF HandIsTrue
<1>14. DigestInStep(f)'
  <2> SUFFICES ASSUME f \in backfilled \/ \E m \in Pages \ {1} : Live(f, m),
                      pageJob[f][1] # "backfill", digest[f][1] # NoDigest,
                      NEW e \in digest[f][1], e.thread \in Listed(f)
               PROVE  \/ report'[e.thread] = Row(f, e.resolved) /\ LinksFor(e.thread, e.title)'
                      \/ WalkRuns(f)' /\ walk'.phase = "stored" /\ walk'.page = 1
                         /\ e.thread \in InHand'
    BY <1>0, <1>7 DEF DigestInStep, EntryInStep, Row, IsReportActive
  <2>1. \/ EntryInStep(f, e)
        \/ WalkRuns(f) /\ walk.phase = "stored" /\ walk.page = 1 /\ e.thread \in InHand
    BY DEF FeedInv, DigestInStep
  <2> QED BY <1>2, <2>1 DEF EntryInStep, WalkRuns, InHand
<1> QED BY <1>11, <1>12, <1>13, <1>14 DEF FeedInv, HandIsTrue

-----------------------------------------------------------------------------
(* Every step keeps the gaps covered.                                       *)
LEMMA OneFeed ==
  ASSUME ForumShapes, EachOnce, NEW f \in Feeds, NEW g \in Feeds, NEW t \in Listed(f), t \in Listed(g)
  PROVE  f = g
<1>1. PICK m \in DOMAIN listing[f] : listing[f][m] = t
  BY ListedAt
<1>2. PICK n \in DOMAIN listing[g] : listing[g][n] = t
  BY ListedAt
<1> QED BY <1>1, <1>2 DEF EachOnce

LEMMA MirrorInit == ForumInit => MirrorInv
<1> SUFFICES ASSUME ForumInit, NEW f \in Feeds PROVE FeedInv(f)
  BY DEF MirrorInv
<1>0. /\ ForumShapes /\ EachOnce /\ walk.phase = "idle" /\ resolved = {} /\ 1 \in Pages
      /\ \A m \in Pages : ~Live(f, m)
  BY ShapesInit, OnceInit, ForumNumbers DEF ForumInit, Idle, Live, Pages
<1>1. HandIsTrue(f)
  BY <1>0 DEF HandIsTrue, WalkRuns
<1>2. CASE NothingStored
  <2>1. GapsCovered(f)
    BY <1>0, <1>2 DEF NothingStored, GapsCovered, GapIsCovered, BackfillIsDue
  <2>2. SunkInStep(f) /\ DigestInStep(f)
    BY <1>0, <1>2 DEF NothingStored, SunkInStep, DigestInStep
  <2> QED BY <1>1, <2>1, <2>2 DEF FeedInv
<1>3. CASE AllStored
  <2>1. ASSUME NEW t \in Listed(f) PROVE ThreadInStep(f, t)
    <3>0. t \in Threads
      BY <1>0, ListedAt
    <3>1. (CHOOSE g \in Feeds : t \in Listed(g)) = f
      BY <1>0, OneFeed
    <3>2. report[t] = Row(f, FALSE)
      BY <1>3, <3>0, <3>1 DEF AllStored
    <3>3. report[t] # NoReport
      <4>1. Row(f, FALSE) \in ReportRow
        BY RowIsARow
      <4> QED BY <3>2, <4>1, ForumAssumption
    <3>4. LinksInStep(t)
      BY <1>3, <3>0, <3>3 DEF AllStored, LinksInStep
    <3>5. (t \in resolved) = FALSE
      BY <1>0
    <3> QED BY <3>2, <3>4, <3>5 DEF ThreadInStep, ReportInStep
  <2>2. GapsCovered(f)
    BY <1>0, <2>1, ListedAt DEF GapsCovered, OutOfStep
  <2>3. SunkInStep(f)
    BY <1>0, <2>1, ListedAt DEF SunkInStep
  <2>4. DigestInStep(f)
    <3> SUFFICES ASSUME digest[f][1] # NoDigest, NEW e \in digest[f][1] PROVE EntryInStep(f, e)
      BY DEF DigestInStep
    <3>1. digest[f][1] = {Entry(t) : t \in PageOf(f, 1)}
      BY <1>0, <1>3 DEF AllStored
    <3>2. PICK t \in PageOf(f, 1) : e = Entry(t)
      BY <3>1
    <3>3. t \in Listed(f)
      <4>1. 1 \in Nat \ {0} /\ listing \in [Feeds -> Seq(Threads)]
        BY <1>0 DEF ForumShapes, ForumTypeOK
      <4>2. PageOf(f, 1) \subseteq Listed(f)
        BY <4>1, PageMembers
      <4> QED BY <4>2
    <3>4. ThreadInStep(f, t)
      BY <2>1, <3>3
    <3>5. e.thread = t /\ e.title = title[t] /\ e.resolved = (t \in resolved)
      BY <3>2 DEF Entry
    <3> QED BY <3>4, <3>5, InStepForm DEF EntryInStep
  <2> QED BY <1>1, <2>2, <2>3, <2>4 DEF FeedInv
<1> QED BY <1>2, <1>3 DEF ForumInit

(* The thread that arrives pushes nothing out of step past what is known.   *)
LEMMA PushedGaps ==
  ASSUME ForumShapes, NEW f \in Feeds, NEW t \in Threads, PushExcuses(f, t) = {},
         NEW n \in DOMAIN listing[f], n >= PageSize, ~ThreadInStep(f, listing[f][n])
  PROVE  /\ ~IsStored(t) /\ t \notin InHand
         /\ \A i \in DOMAIN listing[f] :
              i <= n => ~IsStored(listing[f][i]) /\ listing[f][i] \notin InHand
<1> DEFINE s == listing[f]
           r == SubSeq(s, 1, n)
<1>1. \A u \in ToSet(r) \cup {t} : report[u] = NoReport /\ u \notin InHand
  BY DEF PushExcuses
<1>2. /\ s \in Seq(Threads) /\ Len(s) \in Nat /\ DOMAIN s = 1..Len(s)
      /\ n \in Nat /\ 1 <= n /\ n <= Len(s)
  BY ListedAt DEF ForumShapes, ForumTypeOK
<1>3. /\ r \in Seq(Threads) /\ Len(r) = n
      /\ \A i \in 1..n : r[i] = s[i]
  <2>1. \A i \in 1..n : s[i] \in Threads
    BY <1>2, ElementOfSeq
  <2> HIDE DEF s
  <2>2. /\ SubSeq(s, 1, n) \in Seq(Threads)
        /\ Len(SubSeq(s, 1, n)) = (IF 1 <= n THEN n - 1 + 1 ELSE 0)
        /\ \A i \in 1..(n - 1 + 1) : SubSeq(s, 1, n)[i] = s[1 + i - 1]
    BY <1>2, <2>1, SubSeqProperties
  <2>3. n - 1 + 1 = n /\ \A i \in 1..n : 1 + i - 1 = i
    BY <1>2
  <2> QED BY <1>2, <2>2, <2>3
<1>4. DOMAIN r = 1..n
  BY <1>3, LenProperties
<1> HIDE DEF r
<1>5. ASSUME NEW i \in DOMAIN s, i <= n PROVE s[i] \in ToSet(r)
  <2>1. i \in 1..n
    BY <1>2, <1>5
  <2> QED BY <1>3, <1>4, <2>1 DEF ToSet
<1> QED BY <1>1, <1>5 DEF IsStored

LEMMA MirrorAfterArrival ==
  ASSUME ForumShapes, ForumShapes', ListedInv, NEW f \in Feeds, NEW t \in Threads, FeedInv(f),
         listing'[f] = <<t>> \o listing[f], PushExcuses(f, t) = {},
         t \notin Listed(f), f = "archive" \/ ~IsListed(t),
         UNCHANGED <<title, resolved, forumTables, pageJob, walk>>
  PROVE  FeedInv(f)'
<1>0. /\ 1 \in Pages /\ PageSize \in Nat \ {0}
      /\ UNCHANGED <<plotTable, report, link, digest, backfilled, InHand>>
      /\ \A k \in DOMAIN listing[f] : k \in Nat \ {0}
      /\ DOMAIN listing'[f] \subseteq Nat
  BY ForumNumbers, ListedAt, Arrival DEF Pages, forumTables, InHand
<1>1. \A ids : Matches(ids)' = Matches(ids)
  BY <1>0 DEF Matches, Candidates
<1>2. \A u, ids : LinksFor(u, ids)' <=> LinksFor(u, ids)
  BY <1>0, <1>1 DEF LinksFor
<1>3. \A u : ThreadInStep(f, u)' <=> ThreadInStep(f, u)
  BY <1>0, <1>1 DEF ThreadInStep, ReportInStep, LinksInStep, Row, IsReportActive
<1>4. /\ \A k \in DOMAIN listing[f] :
           k + 1 \in DOMAIN listing'[f] /\ listing'[f][k + 1] = listing[f][k]
      /\ \A k \in DOMAIN listing'[f] :
           \/ k = 1 /\ listing'[f][k] = t
           \/ k \in Nat /\ k > 1 /\ k - 1 \in DOMAIN listing[f]
              /\ listing'[f][k] = listing[f][k - 1]
      /\ Listed(f)' = Listed(f) \cup {t}
  BY Arrival
<1>5. ASSUME NEW k \in DOMAIN listing'[f], k > PageSize, ~ThreadInStep(f, listing'[f][k])
      PROVE  /\ \A i \in DOMAIN listing'[f] : i <= k =>
                  ~IsStored(listing'[f][i]) /\ listing'[f][i] \notin InHand
             /\ ~IsStored(listing'[f][k])
  <2>1. k \in Nat /\ k - 1 \in DOMAIN listing[f] /\ listing'[f][k] = listing[f][k - 1]
    BY <1>0, <1>4, <1>5
  <2>2. k - 1 >= PageSize
    BY <1>0, <1>5, <2>1
  <2>3. /\ ~IsStored(t) /\ t \notin InHand
        /\ \A i \in DOMAIN listing[f] :
             i <= k - 1 => ~IsStored(listing[f][i]) /\ listing[f][i] \notin InHand
    BY <1>5, <2>1, <2>2, PushedGaps
  <2>4. ASSUME NEW i \in DOMAIN listing'[f], i <= k
        PROVE  ~IsStored(listing'[f][i]) /\ listing'[f][i] \notin InHand
    <3>1. CASE i = 1 /\ listing'[f][i] = t
      BY <2>3, <3>1
    <3>2. CASE i \in Nat /\ i > 1 /\ i - 1 \in DOMAIN listing[f] /\ listing'[f][i] = listing[f][i - 1]
      <4>1. i - 1 <= k - 1
        BY <2>1, <2>4, <3>2
      <4> QED BY <2>3, <3>2, <4>1
    <3> QED BY <1>4, <3>1, <3>2
  <2> QED BY <2>1, <2>4
<1>6. ASSUME NEW k \in DOMAIN listing'[f], OutOfStep(f, k)'
      PROVE  Unstored(f, 0, k)' /\ OutOfHand(f, k)'
  <2>1. k > PageSize /\ ~ThreadInStep(f, listing'[f][k])
    <3>1. k > PageSize /\ ~ThreadInStep(f, listing[f][k])'
      BY <1>6 DEF OutOfStep
    <3>2. ThreadInStep(f, listing[f][k])' <=> ThreadInStep(f, listing'[f][k])
      BY <1>0, <1>1 DEF ThreadInStep, ReportInStep, LinksInStep, Row, IsReportActive
    <3> QED BY <3>1, <3>2
  <2> QED BY <1>0, <1>5, <2>1 DEF Unstored, OutOfHand, IsStored
<1>7. GapsCovered(f)'
  BY <1>6 DEF GapsCovered, GapIsCovered
<1>8. HandIsTrue(f)'
  <2> SUFFICES ASSUME WalkRuns(f) PROVE HandIsTrue(f)'
    BY DEF HandIsTrue, WalkRuns
  <2>1. GapsAreNew(f)'
    BY <1>6 DEF GapsAreNew
  <2>2. walk.phase = "digested" => digest'[f][walk.page] = walk.entries
    BY <1>0 DEF FeedInv, HandIsTrue
  <2>3. ASSUME NEW e \in walk.entries
        PROVE  /\ \E k \in DOMAIN listing'[f] :
                    listing'[f][k] = e.thread /\ k > (walk.page - 1) * PageSize
               /\ e = Entry(e.thread)
               /\ walk.phase # "fetched" => report[e.thread] = Row(f, e.resolved)
               /\ walk.phase = "digested" => LinksFor(e.thread, e.title)
    <3>1. PICK k \in DOMAIN listing[f] :
            listing[f][k] = e.thread /\ k > (walk.page - 1) * PageSize
      BY <2>3 DEF FeedInv, HandIsTrue
    <3>2. (walk.page - 1) * PageSize \in Nat
      BY PageInts DEF ForumShapes, Walks
    <3> DEFINE z == (walk.page - 1) * PageSize
    <3> HIDE DEF z
    <3>3. k + 1 > z
      BY <1>0, <3>1, <3>2 DEF z
    <3>4. k + 1 \in DOMAIN listing'[f] /\ listing'[f][k + 1] = e.thread
      BY <1>4, <3>1
    <3>5. \E j \in DOMAIN listing'[f] : listing'[f][j] = e.thread /\ j > z
      BY <3>3, <3>4
    <3> QED BY <2>3, <3>5 DEF FeedInv, HandIsTrue, z
  <2>4. \A e : Entry(e.thread)' = Entry(e.thread)
    BY DEF Entry
  <2> QED BY <1>0, <1>2, <2>1, <2>2, <2>3, <2>4 DEF HandIsTrue, Row, IsReportActive
<1>9. SunkInStep(f)'
  <2> SUFFICES ASSUME digest[f][1] # NoDigest, NEW e \in digest[f][1], NEW k \in DOMAIN listing'[f],
                      listing'[f][k] = e.thread, k > PageSize
               PROVE  ThreadInStep(f, e.thread)
    BY <1>0, <1>3 DEF SunkInStep
  <2>1. IsStored(e.thread)
    BY <1>0 DEF ListedInv
  <2> QED BY <1>5, <2>1
<1>10. DigestInStep(f)'
  <2> SUFFICES ASSUME f \in backfilled \/ \E m \in Pages \ {1} : Live(f, m),
                      pageJob[f][1] # "backfill", digest[f][1] # NoDigest,
                      NEW e \in digest[f][1], e.thread \in Listed(f) \cup {t}
               PROVE  \/ EntryInStep(f, e)
                      \/ WalkRuns(f) /\ walk.phase = "stored" /\ walk.page = 1
                         /\ e.thread \in InHand
    BY <1>0, <1>2, <1>4 DEF DigestInStep, EntryInStep, Row, IsReportActive, Live, WalkRuns
  <2>1. IsListed(e.thread) /\ (f = "archive" => e.thread \in Listed("archive"))
    BY <1>0 DEF ListedInv
  <2>2. e.thread # t
    BY <2>1
  <2> QED BY <2>2 DEF FeedInv, DigestInStep
<1> QED BY <1>7, <1>8, <1>9, <1>10 DEF FeedInv

(* A thread is archived: no walk of the reports is under way.               *)
LEMMA MirrorAfterDeparture ==
  ASSUME ForumShapes, ForumShapes', EachOnce, NEW t \in Threads, FeedInv("reports"),
         Archive(t), ~WalkIn("reports")
  PROVE  FeedInv("reports")'
<1> DEFINE f == "reports"
<1>0. /\ f \in Feeds /\ 1 \in Pages /\ PageSize \in Nat \ {0}
      /\ UNCHANGED <<title, resolved, plotTable, report, link, digest, backfilled, pageJob, walk>>
      /\ ~WalkRuns(f) /\ ~WalkRuns(f)' /\ \A m \in Pages \ {1} : ~Live(f, m)
  BY ForumNumbers DEF Feeds, Pages, Archive, forumTables, WalkIn, WalkRuns, Live
<1>1. \A ids : Matches(ids)' = Matches(ids)
  BY <1>0 DEF Matches, Candidates
<1>2. \A u, ids : LinksFor(u, ids)' <=> LinksFor(u, ids)
  BY <1>0, <1>1 DEF LinksFor
<1>3. \A u : ThreadInStep(f, u)' <=> ThreadInStep(f, u)
  BY <1>0, <1>1 DEF ThreadInStep, ReportInStep, LinksInStep, Row, IsReportActive
<1>4. PICK n \in DOMAIN listing[f] :
        /\ listing[f][n] = t
        /\ listing' = [reports |-> RemoveAt(listing[f], n),
                       archive |-> <<t>> \o listing["archive"]]
  BY DEF Archive
<1>5. /\ Len(listing[f]) \in Nat /\ DOMAIN listing[f] = 1..Len(listing[f])
      /\ DOMAIN listing'[f] = 1..(Len(listing[f]) - 1)
      /\ \A k \in DOMAIN listing'[f] :
           /\ k \in DOMAIN listing[f] /\ k + 1 \in DOMAIN listing[f]
           /\ k < n => listing'[f][k] = listing[f][k]
           /\ k >= n => listing'[f][k] = listing[f][k + 1]
  <2>1. listing[f] \in Seq(Threads)
    BY <1>0 DEF ForumShapes, ForumTypeOK
  <2>2. listing'[f] = RemoveAt(listing[f], n)
    BY <1>4
  <2> QED BY <1>4, <2>1, <2>2, TakeOut
<1>6. Listed(f)' \subseteq Listed(f)
  BY Departure
<1> HIDE DEF f
<1> DEFINE was(k) == IF k < n THEN k ELSE k + 1
<1>7. ASSUME NEW k \in DOMAIN listing'[f]
      PROVE  /\ k \in Nat \ {0} /\ was(k) \in Nat /\ was(k) >= k /\ was(k) \in DOMAIN listing[f]
             /\ listing'[f][k] = listing[f][was(k)]
             /\ \A i \in DOMAIN listing'[f] : i <= k => was(i) <= was(k)
  <2>1. n \in Nat /\ k \in Nat \ {0} /\ \A i \in DOMAIN listing'[f] : i \in Nat
    BY <1>4, <1>5
  <2>2. CASE k < n
    BY <1>5, <2>1, <2>2
  <2>3. CASE k >= n
    <3>1. ~(k < n)
      BY <2>1, <2>3
    <3> QED BY <1>5, <2>1, <2>3, <3>1
  <2> QED BY <2>1, <2>2, <2>3
<1> HIDE DEF was
<1>8. GapsCovered(f)'
  <2> SUFFICES ASSUME NEW k \in DOMAIN listing'[f], OutOfStep(f, k)' PROVE GapIsCovered(f, k)'
    BY DEF GapsCovered
  <2>1. k > PageSize /\ ~ThreadInStep(f, listing'[f][k])
    <3>1. ThreadInStep(f, listing[f][k])' <=> ThreadInStep(f, listing'[f][k])
      BY <1>0, <1>1 DEF ThreadInStep, ReportInStep, LinksInStep, Row, IsReportActive
    <3> QED BY <3>1 DEF OutOfStep
  <2>2. OutOfStep(f, was(k)) /\ was(k) \in DOMAIN listing[f]
    BY <1>0, <1>7, <2>1 DEF OutOfStep
  <2>3. GapIsCovered(f, was(k))
    BY <2>2 DEF FeedInv, GapsCovered, f
  <2>4. CASE Unstored(f, 0, was(k))
    <3>1. ASSUME NEW i \in DOMAIN listing'[f], i <= k PROVE ~IsStored(listing'[f][i])
      <4>1. 0 < was(i) /\ was(i) <= was(k)
        BY <1>7, <3>1
      <4> QED BY <1>7, <2>4, <4>1 DEF Unstored
    <3>2. Unstored(f, 0, k)'
      BY <1>0, <3>1 DEF Unstored, IsStored
    <3> QED BY <3>2 DEF GapIsCovered
  <2>5. ASSUME NEW m \in Pages, JobReaches(f, m, was(k)) PROVE JobReaches(f, 1, k)'
    <3>1. m = 1 /\ Live(f, 1) /\ pageJob[f][1] = "backfill"
      BY <1>0, <2>5 DEF JobReaches
    <3>2. (1 - 1) * PageSize < k
      BY <1>0, <1>7
    <3> QED BY <1>0, <3>1, <3>2 DEF JobReaches, Live
  <2>6. BackfillIsDue(f) => BackfillIsDue(f)'
    BY <1>0 DEF BackfillIsDue, Live
  <2>7. ~WalkHolds(f, was(k)) /\ ~WalkGoesOn(f, was(k))
    BY <1>0 DEF WalkHolds, WalkGoesOn
  <2> QED BY <1>0, <2>3, <2>4, <2>5, <2>6, <2>7 DEF GapIsCovered
<1>9. SunkInStep(f)'
  <2> SUFFICES ASSUME digest[f][1] # NoDigest, NEW e \in digest[f][1], NEW k \in DOMAIN listing'[f],
                      listing'[f][k] = e.thread, k > PageSize
               PROVE  ThreadInStep(f, e.thread)
    BY <1>0, <1>3 DEF SunkInStep
  <2>1. was(k) \in DOMAIN listing[f] /\ listing[f][was(k)] = e.thread /\ was(k) > PageSize
    BY <1>0, <1>7
  <2> QED BY <2>1 DEF FeedInv, SunkInStep, f
<1>10. DigestInStep(f)'
  <2> SUFFICES ASSUME f \in backfilled \/ \E m \in Pages \ {1} : Live(f, m),
                      pageJob[f][1] # "backfill", digest[f][1] # NoDigest,
                      NEW e \in digest[f][1], e.thread \in Listed(f)
               PROVE  EntryInStep(f, e)
    BY <1>0, <1>2, <1>6 DEF DigestInStep, EntryInStep, Row, IsReportActive, Live
  <2> QED BY <1>0 DEF FeedInv, DigestInStep, f
<1>11. HandIsTrue(f)'
  BY <1>0 DEF HandIsTrue
<1> QED BY <1>8, <1>9, <1>10, <1>11 DEF FeedInv, f

(* A thread of page 1 is edited while no walk is under way.                 *)
LEMMA MirrorAfterEdit ==
  ASSUME ForumShapes, ForumShapes', EachOnce, NEW t \in Threads, NEW f \in Feeds, FeedInv(f),
         Edit(t), t \in Listed(f) => t \in PageOf(f, 1) /\ ~WalkIn(f)
  PROVE  FeedInv(f)'
<1>0. /\ UNCHANGED <<listing, plotTable, report, link, digest, backfilled, pageJob, walk>>
      /\ \A u \in Threads \ {t} : title'[u] = title[u] /\ (u \in resolved' <=> u \in resolved)
      /\ Listed(f) \subseteq Threads /\ PageSize \in Nat \ {0} /\ 1 \in Pages
  BY ListedAt, ForumNumbers DEF Edit, forumTables, ForumShapes, ForumTypeOK, Pages
<1>1. CASE t \notin Listed(f)
  <2>1. \A u \in Listed(f) : title'[u] = title[u] /\ (u \in resolved' <=> u \in resolved)
    BY <1>0, <1>1
  <2> QED BY <1>0, <2>1, FeedUntouched
<1>2. CASE t \in Listed(f)
  <2>0. ~WalkRuns(f) /\ ~WalkRuns(f)'
    BY <1>0, <1>2 DEF WalkIn, WalkRuns
  <2>1. PICK n \in DOMAIN listing[f] : listing[f][n] = t /\ n <= PageSize
    <3>1. PageOf(f, 1) = {listing[f][k] : k \in {i \in DOMAIN listing[f] :
                              (1 - 1) * PageSize < i /\ i <= 1 * PageSize}}
      <4>1. 1 \in Nat \ {0} /\ listing \in [Feeds -> Seq(Threads)]
        BY DEF ForumShapes, ForumTypeOK
      <4> QED BY <4>1, PageMembers
    <3>2. 1 * PageSize = PageSize
      BY <1>0
    <3> QED BY <1>2, <3>1, <3>2
  <2>2. \A k \in DOMAIN listing[f] : k > PageSize => listing[f][k] \in Threads \ {t}
    <3>1. \A k \in DOMAIN listing[f] : k > PageSize => k # n
      BY <1>0, <2>1, ListedAt
    <3> QED BY <2>1, <3>1, ListedAt DEF EachOnce
  <2>3. \A ids : Matches(ids)' = Matches(ids)
    BY <1>0 DEF Matches, Candidates
  <2>4. \A u, ids : LinksFor(u, ids)' <=> LinksFor(u, ids)
    BY <1>0, <2>3 DEF LinksFor
  <2>5. ASSUME NEW u \in Threads \ {t} PROVE ThreadInStep(f, u)' <=> ThreadInStep(f, u)
    <3>1. (u \in resolved') = (u \in resolved) /\ title'[u] = title[u]
      BY <1>0
    <3>2. Row(f, u \in resolved)' = Row(f, u \in resolved)
      BY <3>1 DEF Row, IsReportActive
    <3>3. LinksInStep(u)' <=> LinksInStep(u)
      BY <1>0, <2>3, <3>1 DEF LinksInStep
    <3> QED BY <1>0, <3>2, <3>3 DEF ThreadInStep, ReportInStep
  <2>6. ASSUME NEW k \in DOMAIN listing[f], k > PageSize
        PROVE  ThreadInStep(f, listing[f][k])' <=> ThreadInStep(f, listing[f][k])
    <3>1. PICK u \in Threads \ {t} : listing[f][k] = u
      BY <2>2, <2>6
    <3>2. ThreadInStep(f, listing[f][k])' <=> ThreadInStep(f, u)'
      BY <1>0, <3>1 DEF ThreadInStep, ReportInStep, LinksInStep
    <3> QED BY <2>5, <3>1, <3>2
  <2>7. \A k \in DOMAIN listing[f] : OutOfStep(f, k)' <=> OutOfStep(f, k)
    BY <2>6 DEF OutOfStep
  <2>8. \A k : GapIsCovered(f, k)' <=> GapIsCovered(f, k)
    BY <1>0 DEF GapIsCovered, Unstored, IsStored, JobReaches, Live, WalkRuns, BackfillIsDue,
       WalkHolds, WalkGoesOn, InHand
  <2>9. GapsCovered(f)'
    BY <1>0, <2>7, <2>8 DEF FeedInv, GapsCovered
  <2>10. SunkInStep(f)'
    <3> SUFFICES ASSUME digest[f][1] # NoDigest, NEW e \in digest[f][1], NEW k \in DOMAIN listing[f],
                        listing[f][k] = e.thread, k > PageSize
                 PROVE  ThreadInStep(f, e.thread)'
      BY <1>0 DEF SunkInStep
    <3>1. ThreadInStep(f, e.thread) /\ e.thread \in Threads \ {t}
      BY <2>2 DEF FeedInv, SunkInStep
    <3>2. PICK u \in Threads \ {t} : u = e.thread
      BY <3>1
    <3>3. ThreadInStep(f, e.thread)' <=> ThreadInStep(f, u)'
      BY <1>0, <3>2 DEF ThreadInStep, ReportInStep, LinksInStep
    <3> QED BY <2>5, <3>1, <3>2, <3>3
  <2>11. DigestInStep(f)'
    BY <1>0, <2>0, <2>4 DEF FeedInv, DigestInStep, EntryInStep, Row, IsReportActive, Live, Listed
  <2> QED BY <2>0, <2>9, <2>10, <2>11 DEF FeedInv, HandIsTrue
<1> QED BY <1>1, <1>2

(* A plot is stored before any report is.                                   *)
LEMMA MirrorAfterPlot ==
  ASSUME ForumShapes, ListedInv, NEW x \in Plots, NEW f \in Feeds,
         IndexPlot(x), walk.phase = "idle", \A t \in Threads : ~IsStored(t)
  PROVE  FeedInv(f)'
<1>0. /\ UNCHANGED <<listing, report, link, digest, backfilled, pageJob, walk>>
      /\ ~WalkRuns(f)' /\ 1 \in Pages
  <2>1. UNCHANGED <<listing, report, link, digest, backfilled, pageJob, walk>>
    BY DEF IndexPlot, upstreamForum
  <2>2. 1 \in Pages
    BY ForumNumbers DEF Pages
  <2> QED BY <2>1, <2>2 DEF WalkRuns
<1>1. \A k \in DOMAIN listing[f] : listing[f][k] \in Threads
  BY ListedAt
<1>2. \A k : Unstored(f, 0, k)'
  BY <1>0, <1>1 DEF Unstored, IsStored
<1>3. GapsCovered(f)'
  BY <1>2 DEF GapsCovered, GapIsCovered
<1>4. digest[f][1] # NoDigest => digest[f][1] = {}
  <2>1. \A e \in Entries : e.thread \in Threads
    BY DEF Entries
  <2>2. digest[f][1] # NoDigest => digest[f][1] \subseteq Entries
    BY <1>0 DEF ForumShapes
  <2> QED BY <1>0, <2>1, <2>2 DEF ListedInv
<1>5. SunkInStep(f)' /\ DigestInStep(f)'
  BY <1>0, <1>4 DEF SunkInStep, DigestInStep
<1> QED BY <1>0, <1>3, <1>5 DEF FeedInv, HandIsTrue

LEMMA MirrorAfterUpstream ==
  ASSUME ForumShapes, ForumShapes', EachOnce, ListedInv, MirrorInv,
         \/ \E t \in Threads : Post(t) \/ Archive(t) \/ Edit(t)
         \/ \E x \in Plots : IndexPlot(x)
  PROVE  MirrorInv'
<1> SUFFICES ASSUME forumExcuses' = {}, NEW f \in Feeds PROVE FeedInv(f)'
  BY DEF MirrorInv
<1>0. /\ "reports" \in Feeds /\ "archive" \in Feeds /\ "reports" # "archive"
      /\ f = "reports" \/ f = "archive"
  BY DEF Feeds
<1>1. forumExcuses = {} /\ FeedInv(f) /\ FeedInv("reports") /\ FeedInv("archive")
  <2>1. [ForumNext]_forumVars
    BY DEF ForumNext
  <2> QED BY <1>0, <2>1, ExcusesStay DEF MirrorInv
<1>2. ASSUME NEW t \in Threads, Post(t) PROVE FeedInv(f)'
  <2>1. /\ \A g \in Feeds : t \notin Listed(g)
        /\ listing'["reports"] = <<t>> \o listing["reports"]
        /\ listing'["archive"] = listing["archive"]
        /\ UNCHANGED <<title, resolved, forumTables, pageJob, walk>>
        /\ PushExcuses("reports", t) = {}
    BY <1>2 DEF Post, ForumShapes, ForumTypeOK, Feeds
  <2>2. CASE f = "reports"
    BY <1>0, <1>1, <2>1, <2>2, MirrorAfterArrival DEF IsListed
  <2>3. CASE f = "archive"
    <3>1. FeedInv(f)'
      BY <1>0, <1>1, <2>1, <2>3, FeedUntouched DEF forumTables
    <3> QED BY <3>1
  <2> QED BY <1>0, <2>2, <2>3
<1>3. ASSUME NEW t \in Threads, Archive(t) PROVE FeedInv(f)'
  <2>1. /\ t \notin Listed("archive")
        /\ listing'["archive"] = <<t>> \o listing["archive"]
        /\ UNCHANGED <<title, resolved, forumTables, pageJob, walk>>
        /\ PushExcuses("archive", t) = {} /\ ~WalkIn("reports")
    BY <1>3, Departure DEF Archive
  <2> QED BY <1>0, <1>1, <1>3, <2>1, MirrorAfterArrival, MirrorAfterDeparture
<1>4. ASSUME NEW t \in Threads, Edit(t) PROVE FeedInv(f)'
  <2>1. t \in Listed(f) => t \in PageOf(f, 1) /\ ~WalkIn(f)
    BY <1>4 DEF Edit
  <2> QED BY <1>1, <1>4, <2>1, MirrorAfterEdit
<1>5. ASSUME NEW x \in Plots, IndexPlot(x) PROVE FeedInv(f)'
  <2>1. walk.phase = "idle" /\ \A t \in Threads : ~IsStored(t)
    BY <1>5 DEF IndexPlot, IsStored
  <2> QED BY <1>5, <2>1, MirrorAfterPlot
<1> QED BY <1>2, <1>3, <1>4, <1>5

LEMMA MirrorAfterCoordinate ==
  ASSUME ForumShapes, ForumShapes', NEW f \in Feeds, FeedInv(f), Coordinate
  PROVE  FeedInv(f)'
<1>0. /\ UNCHANGED <<listing, title, resolved, plotTable, report, link, digest, backfilled, walk>>
      /\ 1 \in Pages
  BY ForumNumbers DEF Coordinate, upstreamForum, forumTables, Pages
<1>1. \A m \in Pages : /\ Live(f, m) => pageJob'[f][m] = pageJob[f][m] /\ Live(f, m)'
                       /\ m # 1 => pageJob'[f][m] = pageJob[f][m]
  BY <1>0, EnqueuedTypes DEF Coordinate, Modes, Live
<1>2. \A ids : Matches(ids)' = Matches(ids)
  BY <1>0 DEF Matches, Candidates
<1>3. \A u, ids : LinksFor(u, ids)' <=> LinksFor(u, ids)
  BY <1>0, <1>2 DEF LinksFor
<1>4. \A u : ThreadInStep(f, u)' <=> ThreadInStep(f, u)
  BY <1>0, <1>2 DEF ThreadInStep, ReportInStep, LinksInStep, Row, IsReportActive
<1>5. \A k : OutOfStep(f, k)' <=> OutOfStep(f, k)
  BY <1>0, <1>2 DEF OutOfStep, ThreadInStep, ReportInStep, LinksInStep, Row, IsReportActive
<1>6. /\ \A a, k : Unstored(f, a, k)' <=> Unstored(f, a, k)
      /\ WalkRuns(f)' <=> WalkRuns(f)
      /\ InHand' = InHand
  BY <1>0 DEF Unstored, IsStored, WalkRuns, InHand
<1>7. \A k : GapIsCovered(f, k) => GapIsCovered(f, k)'
  <2>1. \A m \in Pages : \A k : JobReaches(f, m, k) => JobReaches(f, m, k)'
    BY <1>0, <1>1, <1>6 DEF JobReaches
  <2>2. BackfillIsDue(f) => BackfillIsDue(f)'
    BY <1>0, <1>1 DEF BackfillIsDue, Live
  <2>3. \A k : (WalkHolds(f, k) => WalkHolds(f, k)') /\ (WalkGoesOn(f, k) => WalkGoesOn(f, k)')
    BY <1>0, <1>6 DEF WalkHolds, WalkGoesOn
  <2> QED BY <1>6, <2>1, <2>2, <2>3 DEF GapIsCovered
<1>8. GapsCovered(f)'
  BY <1>0, <1>5, <1>7 DEF FeedInv, GapsCovered
<1>9. HandIsTrue(f)'
  <2>1. GapsAreNew(f) => GapsAreNew(f)'
    BY <1>0, <1>5, <1>6 DEF GapsAreNew, OutOfHand
  <2>2. PageIsAsRead(f) => PageIsAsRead(f)'
    BY <1>0, <1>6 DEF PageIsAsRead, PageOf, LastPage
  <2>3. \A e : Entry(e.thread)' = Entry(e.thread)
    BY <1>0 DEF Entry
  <2> QED BY <1>0, <1>3, <1>6, <2>1, <2>2, <2>3 DEF FeedInv, HandIsTrue, Row, IsReportActive
<1>10. SunkInStep(f)'
  BY <1>0, <1>4 DEF FeedInv, SunkInStep
<1>11. DigestInStep(f)'
  <2>1. pageJob'[f][1] # "backfill" => pageJob[f][1] # "backfill"
    BY <1>0, <1>1 DEF Live
  <2>2. \A m \in Pages \ {1} : Live(f, m)' <=> Live(f, m)
    BY <1>1 DEF Live
  <2>3. Listed(f)' = Listed(f)
    BY <1>0 DEF Listed
  <2> QED BY <1>0, <1>3, <1>6, <2>1, <2>2, <2>3
          DEF FeedInv, DigestInStep, EntryInStep, Row, IsReportActive
<1> QED BY <1>8, <1>9, <1>10, <1>11 DEF FeedInv

(* The page holds whatever comes first after the pages before it.           *)
LEMMA FirstOfPage ==
  ASSUME ForumShapes, NEW f \in Feeds, NEW n \in Pages, NEW k \in DOMAIN listing[f],
         (n - 1) * PageSize < k
  PROVE  /\ (n - 1) * PageSize + 1 \in DOMAIN listing[f]
         /\ listing[f][(n - 1) * PageSize + 1] \in PageOf(f, n)
         /\ (n - 1) * PageSize + 1 <= k
<1> DEFINE z == (n - 1) * PageSize
<1>1. n \in Nat \ {0} /\ z \in Nat /\ n * PageSize = z + PageSize /\ PageSize \in Nat \ {0}
  BY PageInts, PageStart, ForumNumbers
<1>2. PageOf(f, n) = {listing[f][i] : i \in {j \in DOMAIN listing[f] : z < j /\ j <= n * PageSize}}
  BY <1>1, PageMembers DEF ForumShapes, ForumTypeOK
<1>3. Len(listing[f]) \in Nat /\ DOMAIN listing[f] = 1..Len(listing[f])
  BY ListedAt
<1> HIDE DEF z
<1>4. z < k
  BY DEF z
<1>5. z + 1 \in DOMAIN listing[f] /\ z + 1 <= k
  BY <1>1, <1>3, <1>4
<1>6. z < z + 1 /\ z + 1 <= n * PageSize
  BY <1>1
<1> QED BY <1>2, <1>5, <1>6 DEF z

LEMMA MirrorAfterClaim ==
  ASSUME ForumShapes, ForumShapes', EachOnce, ListedInv, NEW f \in Feeds, FeedInv(f),
         NEW g \in Feeds, NEW n \in Pages, Claim(g, n)
  PROVE  FeedInv(f)'
<1>0. /\ UNCHANGED <<listing, title, resolved, plotTable, report, link, digest, backfilled>>
      /\ walk.phase = "idle" /\ ~WalkRuns(f) /\ 1 \in Pages /\ PageSize \in Nat \ {0}
  BY ForumNumbers DEF Claim, upstreamForum, forumTables, Pages, WalkRuns
<1>1. CASE g # f
  <2>1. pageJob'[f] = pageJob[f]
    <3>1. pageJob' = [pageJob EXCEPT ![g][n] = "none"] \/ pageJob' = pageJob
      BY ClaimedWalk
    <3> QED BY <1>1, <3>1 DEF ForumShapes, ForumTypeOK
  <2>2. UNCHANGED walk \/ ~WalkRuns(f)'
    BY <1>1, ClaimedWalk DEF WalkRuns
  <2> QED BY <1>0, <2>1, <2>2, FeedUntouched
<1>2. CASE g = f
  <2> DEFINE entries == {Entry(t) : t \in PageOf(f, n)}
  <2>1. \A ids : Matches(ids)' = Matches(ids)
    BY <1>0 DEF Matches, Candidates
  <2>2. \A u, ids : LinksFor(u, ids)' <=> LinksFor(u, ids)
    BY <1>0, <2>1 DEF LinksFor
  <2>3. \A u : ThreadInStep(f, u)' <=> ThreadInStep(f, u)
    BY <1>0, <2>1 DEF ThreadInStep, ReportInStep, LinksInStep, Row, IsReportActive
  <2>4. \A k : OutOfStep(f, k)' <=> OutOfStep(f, k)
    BY <1>0, <2>1 DEF OutOfStep, ThreadInStep, ReportInStep, LinksInStep, Row, IsReportActive
  <2>5. \A a, k : Unstored(f, a, k)' <=> Unstored(f, a, k)
    BY <1>0 DEF Unstored, IsStored
  <2>6. SunkInStep(f)'
    BY <1>0, <2>3 DEF FeedInv, SunkInStep
  <2>7. Listed(f)' = Listed(f)
    BY <1>0 DEF Listed
  <2>8. \A e \in entries : e.thread \in PageOf(f, n) /\ e = Entry(e.thread)
    BY DEF Entry
  <2>9. CASE /\ entries = {} \/ (pageJob[f][n] = "incremental" /\ digest[f][n] = entries)
             /\ pageJob' = [pageJob EXCEPT ![f][n] = "none"] /\ UNCHANGED walk
    <3>1. \A m \in Pages : /\ m # n => pageJob'[f][m] = pageJob[f][m]
                           /\ Live(f, m)' => Live(f, m) /\ m # n /\ pageJob'[f][m] = pageJob[f][m]
                           /\ Live(f, m) /\ m # n => Live(f, m)'
      BY <2>9, JobDone DEF Live
    <3>2. ASSUME NEW k \in DOMAIN listing[f], JobReaches(f, n, k) PROVE FALSE
      <4> DEFINE a == (n - 1) * PageSize
      <4>1. /\ a + 1 \in DOMAIN listing[f] /\ listing[f][a + 1] \in PageOf(f, n) /\ a + 1 <= k
        BY <3>2, FirstOfPage DEF JobReaches
      <4>2. Entry(listing[f][a + 1]) \in entries /\ Entry(listing[f][a + 1]).thread = listing[f][a + 1]
        BY <4>1 DEF Entry
      <4>3. digest[f][n] = entries /\ entries # {}
        BY <2>9, <4>2
      <4>4. digest[f][n] # NoDigest
        <5>1. entries \subseteq Entries
          BY EntriesOfAPage
        <5> QED BY <4>3, <5>1, ForumAssumption
      <4>5. IsStored(listing[f][a + 1])
        BY <4>2, <4>3, <4>4 DEF ListedInv
      <4>6. Unstored(f, a, k)
        BY <2>9, <3>2, <4>3 DEF JobReaches
      <4>7. a < a + 1
        BY PageInts
      <4> QED BY <4>1, <4>5, <4>6, <4>7 DEF Unstored
    <3>3. ASSUME NEW k \in DOMAIN listing[f], GapIsCovered(f, k) PROVE GapIsCovered(f, k)'
      <4>1. ~WalkHolds(f, k) /\ ~WalkGoesOn(f, k)
        BY <1>0 DEF WalkHolds, WalkGoesOn
      <4>2. BackfillIsDue(f) => BackfillIsDue(f)'
        BY <1>0, <3>1 DEF BackfillIsDue
      <4>3. \A m \in Pages : JobReaches(f, m, k) => m # n /\ JobReaches(f, m, k)'
        BY <1>0, <2>5, <2>9, <3>1, <3>2 DEF JobReaches, WalkRuns
      <4> QED BY <2>5, <3>3, <4>1, <4>2, <4>3 DEF GapIsCovered
    <3>4. GapsCovered(f)'
      BY <1>0, <2>4, <3>3 DEF FeedInv, GapsCovered
    <3>5. HandIsTrue(f)'
      BY <1>0, <2>9 DEF HandIsTrue, WalkRuns
    <3>6. DigestInStep(f)'
      <4> SUFFICES ASSUME f \in backfilled \/ \E m \in Pages \ {1} : Live(f, m),
                          pageJob'[f][1] # "backfill", digest[f][1] # NoDigest,
                          NEW e \in digest[f][1], e.thread \in Listed(f)
                   PROVE  EntryInStep(f, e)
        BY <1>0, <2>2, <2>7, <3>1 DEF DigestInStep, EntryInStep, Row, IsReportActive
      <4>1. CASE pageJob[f][1] # "backfill"
        BY <1>0, <4>1 DEF FeedInv, DigestInStep
      <4>2. CASE pageJob[f][1] = "backfill"
        <5>1. n = 1 /\ entries = {}
          BY <1>0, <2>9, <3>1, <4>2
        <5>2. PICK k \in DOMAIN listing[f] : listing[f][k] = e.thread
          BY ListedAt
        <5>3. (n - 1) * PageSize < k
          BY <1>0, <5>1, ListedAt
        <5> QED BY <5>1, <5>3, FirstOfPage
      <4> QED BY <4>1, <4>2
    <3> QED BY <2>6, <3>4, <3>5, <3>6 DEF FeedInv
  <2>10. CASE /\ walk'.phase = "fetched" /\ walk'.feed = f /\ walk'.page = n
              /\ walk'.entries = entries /\ walk'.last = LastPage(f) /\ UNCHANGED pageJob
              /\ {e.thread : e \in walk'.entries} = PageOf(f, n)
    <3>1. \A m \in Pages : Live(f, m)' <=> Live(f, m)
      BY <2>10 DEF Live
    <3>2. ASSUME NEW k \in DOMAIN listing[f], GapIsCovered(f, k) PROVE GapIsCovered(f, k)'
      <4>1. ~WalkHolds(f, k) /\ ~WalkGoesOn(f, k)
        BY <1>0 DEF WalkHolds, WalkGoesOn
      <4>2. BackfillIsDue(f) => BackfillIsDue(f)'
        BY <1>0, <3>1 DEF BackfillIsDue
      <4>3. \A m \in Pages : JobReaches(f, m, k) => JobReaches(f, m, k)'
        BY <2>5, <2>10, <3>1 DEF JobReaches
      <4> QED BY <2>5, <3>2, <4>1, <4>2, <4>3 DEF GapIsCovered
    <3>3. GapsCovered(f)'
      BY <1>0, <2>4, <3>2 DEF FeedInv, GapsCovered
    <3>4. PageIsAsRead(f)'
      BY <1>0, <2>10 DEF PageIsAsRead, InHand, PageOf, LastPage
    <3>5. ASSUME NEW e \in entries
          PROVE  \E k \in DOMAIN listing[f] :
                   listing[f][k] = e.thread /\ k > (n - 1) * PageSize
      <4>1. PageOf(f, n) = {listing[f][k] : k \in {i \in DOMAIN listing[f] :
                              (n - 1) * PageSize < i /\ i <= n * PageSize}}
        BY PageMembers, PageInts DEF ForumShapes, ForumTypeOK
      <4>2. PICK k \in DOMAIN listing[f] : listing[f][k] = e.thread /\ (n - 1) * PageSize < k
        BY <2>8, <4>1
      <4>3. k > (n - 1) * PageSize
        BY <4>2, PageInts, ListedAt
      <4> QED BY <4>2, <4>3
    <3>6. \A e : Entry(e.thread)' = Entry(e.thread)
      BY <1>0 DEF Entry
    <3>7. HandIsTrue(f)'
      <4> HIDE DEF entries
      <4> QED BY <1>0, <2>8, <2>10, <3>4, <3>5, <3>6 DEF HandIsTrue
    <3>8. DigestInStep(f)'
      BY <1>0, <2>2, <2>7, <2>10, <3>1 DEF FeedInv, DigestInStep, EntryInStep, Row, IsReportActive
    <3> QED BY <2>6, <3>3, <3>7, <3>8 DEF FeedInv
  <2> HIDE DEF entries
  <2>11. \/ /\ entries = {} \/ (pageJob[f][n] = "incremental" /\ digest[f][n] = entries)
            /\ pageJob' = [pageJob EXCEPT ![f][n] = "none"] /\ UNCHANGED walk
         \/ /\ walk'.phase = "fetched" /\ walk'.feed = f /\ walk'.page = n
            /\ walk'.entries = entries /\ walk'.last = LastPage(f) /\ UNCHANGED pageJob
    BY <1>2 DEF Claim, entries
  <2>12. {e.thread : e \in entries} = PageOf(f, n)
    BY EntriesOfAPage DEF entries
  <2> QED BY <2>9, <2>10, <2>11, <2>12
<1> QED BY <1>1, <1>2

LEMMA PageAt ==
  ASSUME ForumShapes, EachOnce, NEW f \in Feeds, NEW n \in Pages, NEW k \in DOMAIN listing[f]
  PROVE  listing[f][k] \in PageOf(f, n) <=> (n - 1) * PageSize < k /\ k <= n * PageSize
<1>1. PageOf(f, n) = {listing[f][i] : i \in {j \in DOMAIN listing[f] :
                         (n - 1) * PageSize < j /\ j <= n * PageSize}}
  BY PageMembers, PageInts DEF ForumShapes, ForumTypeOK
<1>2. \A i \in DOMAIN listing[f] : listing[f][i] = listing[f][k] => i = k
  BY DEF EachOnce
<1> QED BY <1>1, <1>2

(* What the walk has in hand is listed on its feed.                         *)
LEMMA HandIsListed ==
  ASSUME ForumShapes, HandIsTrue(walk.feed), walk.phase # "idle", NEW t \in InHand
  PROVE  /\ t \in Listed(walk.feed) /\ t \in Threads
         /\ \E k \in DOMAIN listing[walk.feed] :
              listing[walk.feed][k] = t /\ k > (walk.page - 1) * PageSize
<1>1. PICK e \in walk.entries : e.thread = t
  BY DEF InHand
<1>2. PICK k \in DOMAIN listing[walk.feed] :
         listing[walk.feed][k] = t /\ k > (walk.page - 1) * PageSize
  BY <1>1 DEF HandIsTrue, WalkRuns
<1>3. walk.feed \in Feeds
  BY DEF ForumShapes, Walks
<1> QED BY <1>2, <1>3, ListedAt

LEMMA StoredRows ==
  ASSUME ForumShapes, HandIsTrue(walk.feed), StoreReports
  PROVE  /\ \A t \in Threads : report'[t] = IF t \in InHand THEN Row(walk.feed, t \in resolved)
                                            ELSE report[t]
         /\ walk.phase = "fetched" /\ walk'.phase = "stored" /\ walk'.feed = walk.feed
         /\ walk'.page = walk.page /\ walk'.mode = walk.mode /\ walk'.last = walk.last
         /\ walk'.entries = walk.entries /\ InHand' = InHand
         /\ walk'.new = {t \in InHand : ~IsStored(t)}
         /\ UNCHANGED <<listing, title, resolved, plotTable, link, digest, backfilled, pageJob>>
<1>1. ASSUME NEW t \in Threads, t \in InHand
      PROVE  report'[t] = Row(walk.feed, t \in resolved)
  <2>1. report'[t] = Row(walk.feed, \E e \in walk.entries : e.thread = t /\ e.resolved)
    BY <1>1 DEF StoreReports, InHand
  <2>2. \A e \in walk.entries : e.thread = t => e.resolved = (t \in resolved)
    BY DEF HandIsTrue, WalkRuns, Entry, StoreReports
  <2>3. \E e \in walk.entries : e.thread = t
    BY <1>1 DEF InHand
  <2> DEFINE b == \E e \in walk.entries : e.thread = t /\ e.resolved
  <2>4. b <=> t \in resolved
    BY <2>2, <2>3
  <2>5. b \in BOOLEAN
    OBVIOUS
  <2> HIDE DEF b
  <2>6. b = (t \in resolved)
    BY <2>4, <2>5
  <2> QED BY <2>1, <2>6 DEF b
<1>2. ASSUME NEW t \in Threads, t \notin InHand PROVE report'[t] = report[t]
  BY <1>2 DEF StoreReports, InHand
<1>3. /\ walk.phase = "fetched" /\ walk'.phase = "stored" /\ walk'.feed = walk.feed
      /\ walk'.page = walk.page /\ walk'.mode = walk.mode /\ walk'.last = walk.last
      /\ walk'.entries = walk.entries /\ walk'.new = {t \in InHand : ~IsStored(t)}
  BY DEF StoreReports, ForumShapes, Walks, InHand, IsStored
<1>4. UNCHANGED <<listing, title, resolved, plotTable, link, digest, backfilled, pageJob>>
  BY DEF StoreReports, upstreamForum
<1>5. InHand' = InHand
  BY <1>3 DEF InHand
<1> QED BY <1>1, <1>2, <1>3, <1>4, <1>5

LEMMA MirrorAfterStore ==
  ASSUME ForumShapes, ForumShapes', EachOnce, ListedInv, MirrorInv, forumExcuses = {},
         NEW f \in Feeds, StoreReports
  PROVE  FeedInv(f)'
<1>0. /\ FeedInv(f) /\ HandIsTrue(walk.feed) /\ walk.phase = "fetched"
      /\ walk.feed \in Feeds /\ walk.page \in Pages /\ 1 \in Pages /\ PageSize \in Nat \ {0}
  <2>1. walk.feed \in Feeds /\ walk.page \in Pages /\ walk.phase = "fetched"
    BY DEF StoreReports, ForumShapes, Walks
  <2>2. FeedInv(f) /\ FeedInv(walk.feed)
    BY <2>1 DEF MirrorInv
  <2> QED BY <2>1, <2>2, ForumNumbers DEF FeedInv, Pages
<1>1. /\ \A t \in Threads : report'[t] = IF t \in InHand THEN Row(walk.feed, t \in resolved)
                                         ELSE report[t]
      /\ walk'.phase = "stored" /\ walk'.feed = walk.feed
      /\ walk'.page = walk.page /\ walk'.mode = walk.mode /\ walk'.last = walk.last
      /\ walk'.entries = walk.entries /\ InHand' = InHand
      /\ walk'.new = {t \in InHand : ~IsStored(t)}
      /\ UNCHANGED <<listing, title, resolved, plotTable, link, digest, backfilled, pageJob>>
  BY <1>0, StoredRows
<1>2. CASE walk.feed # f
  <2>1. \A t \in Listed(f) : t \in Threads /\ t \notin InHand
    BY <1>0, <1>2, HandIsListed, OneFeed, ListedAt
  <2>2. \A t \in Listed(f) : report'[t] = report[t]
    BY <1>1, <2>1
  <2>3. ~WalkRuns(f) /\ ~WalkRuns(f)'
    BY <1>1, <1>2 DEF WalkRuns
  <2> QED BY <1>0, <1>1, <2>2, <2>3, FeedUntouched
<1>3. CASE walk.feed = f
  <2> DEFINE n == walk.page
             a == (n - 1) * PageSize
             b == n * PageSize
  <2>0. /\ WalkRuns(f) /\ WalkRuns(f)' /\ pageJob[f][n] = walk.mode
        /\ n \in Nat \ {0} /\ a \in Nat /\ b \in Nat /\ b = a + PageSize /\ PageSize <= b
        /\ \A k \in DOMAIN listing[f] : k \in Nat \ {0} /\ listing[f][k] \in Threads
                                        /\ listing[f][k] \in Listed(f)
    BY <1>0, <1>1, <1>3, PageInts, PageStart, ListedAt DEF WalkRuns, ForumShapes, ForumTypeOK
  <2>1. \A ids : Matches(ids)' = Matches(ids)
    BY <1>1 DEF Matches, Candidates
  <2>2. \A u, ids : LinksFor(u, ids)' <=> LinksFor(u, ids)
    BY <1>1, <2>1 DEF LinksFor
  <2>3. ASSUME NEW u \in Threads
        PROVE  /\ u \in InHand => (ThreadInStep(f, u)' <=> LinksFor(u, title[u]))
               /\ u \notin InHand => (ThreadInStep(f, u)' <=> ThreadInStep(f, u))
    <3>1. ThreadInStep(f, u)' <=> report'[u] = Row(f, u \in resolved) /\ LinksFor(u, title[u])'
      BY <1>1 DEF ThreadInStep, ReportInStep, LinksInStep, LinksFor, Row, IsReportActive
    <3>2. LinksFor(u, title[u])' <=> LinksFor(u, title[u])
      BY <1>1, <2>1 DEF LinksFor
    <3> QED BY <1>1, <1>3, <3>1, <3>2, InStepForm
  <2>4. ASSUME NEW k \in DOMAIN listing[f]
        PROVE  OutOfStep(f, k)' <=> k > PageSize /\ ~ThreadInStep(f, listing[f][k])'
    BY <1>1 DEF OutOfStep
  <2>5. ASSUME NEW k \in DOMAIN listing[f], OutOfStep(f, k)'
        PROVE  \/ OutOfStep(f, k)
               \/ /\ k > PageSize /\ listing[f][k] \in InHand
                  /\ ~LinksFor(listing[f][k], title[listing[f][k]])
    <3>1. PICK u \in Threads : u = listing[f][k]
      BY <2>0
    <3>2. ThreadInStep(f, listing[f][k])' <=> ThreadInStep(f, u)'
      BY <1>1, <3>1 DEF ThreadInStep, ReportInStep, LinksInStep
    <3> QED BY <2>3, <2>4, <2>5, <3>1, <3>2 DEF OutOfStep
  <2>6. \A k \in DOMAIN listing[f] : listing[f][k] \in InHand => k > a
    <3> SUFFICES ASSUME NEW k \in DOMAIN listing[f], listing[f][k] \in InHand PROVE k > a
      OBVIOUS
    <3>1. PICK j \in DOMAIN listing[f] : listing[f][j] = listing[f][k] /\ j > a
      BY <1>0, <1>3, HandIsListed
    <3> QED BY <3>1 DEF EachOnce
  <2>7. ASSUME NEW i \in Nat, NEW k \in Nat, Unstored(f, i, k),
               \A j \in DOMAIN listing[f] : i < j /\ j <= k => listing[f][j] \notin InHand
        PROVE  Unstored(f, i, k)'
    <3>1. \A j \in DOMAIN listing[f] : i < j /\ j <= k => report'[listing[f][j]] = NoReport
      BY <1>1, <2>0, <2>7 DEF Unstored, IsStored
    <3> QED BY <1>1, <3>1 DEF Unstored, IsStored
  <2>8. PageIsAsRead(f) => PageIsAsRead(f)'
    BY <1>1 DEF PageIsAsRead, PageOf, LastPage
  <2>9. ASSUME GapsAreNew(f), NEW k \in DOMAIN listing[f], OutOfStep(f, k)'
        PROVE  Unstored(f, 0, k)' /\ OutOfHand(f, k)'
    <3>1. OutOfStep(f, k)
      BY <2>5, <2>9, InStepForm DEF OutOfStep
    <3>2. Unstored(f, 0, k) /\ OutOfHand(f, k)
      BY <2>9, <3>1 DEF GapsAreNew
    <3>3. Unstored(f, 0, k)'
      BY <2>0, <2>7, <3>2 DEF OutOfHand
    <3> QED BY <1>1, <3>2, <3>3 DEF OutOfHand
  <2>10. ASSUME PageIsAsRead(f), NEW k \in DOMAIN listing[f], OutOfStep(f, k)'
         PROVE  GapIsCovered(f, k)'
    <3> HIDE DEF n, a, b
    <3>1. \A j \in DOMAIN listing[f] : listing[f][j] \in InHand <=> a < j /\ j <= b
      BY <1>0, <2>10, PageAt DEF PageIsAsRead, n, a, b
    <3>2. k \in Nat /\ k > PageSize
      BY <2>0, <2>4, <2>10
    <3>3. CASE listing[f][k] \in InHand
      <4>1. a < k /\ k <= b
        BY <3>1, <3>3
      <4> QED BY <1>1, <2>0, <4>1 DEF GapIsCovered, WalkHolds, n, a, b
    <3>4. CASE listing[f][k] \notin InHand
      <4>1. GapIsCovered(f, k) /\ (k <= a \/ k > b)
        <5>1. OutOfStep(f, k)
          BY <2>5, <2>10, <3>4
        <5> QED BY <1>0, <2>0, <3>1, <3>2, <3>4, <5>1 DEF FeedInv, GapsCovered
      <4>2. ASSUME NEW i \in Nat, i <= a, k > b, Unstored(f, i, k)
            PROVE  walk'.new = InHand' /\ Unstored(f, b, k)'
        <5>1. \A j \in DOMAIN listing[f] : a < j /\ j <= b => ~IsStored(listing[f][j])
          BY <2>0, <3>2, <4>2 DEF Unstored
        <5>2. \A t \in InHand : ~IsStored(t)
          <6>1. \A t \in InHand : \E j \in DOMAIN listing[f] : listing[f][j] = t
            BY <1>0, <1>3, HandIsListed
          <6> QED BY <3>1, <5>1, <6>1
        <5>3. Unstored(f, b, k)
          <6>1. i <= b
            BY <1>0, <2>0, <4>2
          <6>2. \A j \in DOMAIN listing[f] : b < j => i < j
            BY <2>0, <6>1
          <6> QED BY <4>2, <6>2 DEF Unstored
        <5>4. Unstored(f, b, k)'
          <6>1. \A j \in DOMAIN listing[f] : b < j /\ j <= k => listing[f][j] \notin InHand
            BY <2>0, <3>1
          <6>2. b \in Nat /\ b' = b
            BY <1>1, <2>0 DEF b, n
          <6>3. PICK z \in Nat : z = b /\ z = b'
            BY <6>2
          <6>4. Unstored(f, z, k)'
            BY <2>7, <3>2, <5>3, <6>1, <6>3
          <6> QED BY <6>3, <6>4 DEF Unstored
        <5> QED BY <1>1, <5>2, <5>4
      <4>3. ASSUME k > b, walk.mode = "backfill" \/ (\E i \in Nat : i <= a /\ Unstored(f, i, k))
            PROVE  WalkGoesOn(f, k)'
        BY <1>1, <2>0, <4>2, <4>3 DEF WalkGoesOn, n, b
      <4>4. CASE Unstored(f, 0, k)
        <5>1. CASE k > b
          BY <2>0, <4>3, <4>4, <5>1 DEF GapIsCovered
        <5>2. CASE k <= a
          <6>1. \A j \in DOMAIN listing[f] : j <= k => listing[f][j] \notin InHand
            BY <2>0, <3>1, <3>2, <5>2
          <6>2. Unstored(f, 0, k)'
            BY <2>7, <3>2, <4>4, <6>1
          <6> QED BY <6>2 DEF GapIsCovered
        <5> QED BY <4>1, <5>1, <5>2
      <4>5. ASSUME NEW m \in Pages, JobReaches(f, m, k) PROVE GapIsCovered(f, k)'
        <5> DEFINE c == (m - 1) * PageSize
        <5>1. /\ Live(f, m) /\ c < k /\ c \in Nat /\ m \in Nat \ {0}
              /\ pageJob[f][m] = "backfill" \/ (m > 1 /\ Unstored(f, c, k))
          BY <4>5, PageInts DEF JobReaches
        <5>2. CASE m = n
          <6>1. c = a
            BY <5>2 DEF a
          <6>2. k > b
            BY <2>0, <3>2, <4>1, <5>1, <6>1
          <6>3. walk.mode = "backfill" \/ Unstored(f, a, k)
            BY <2>0, <5>1, <5>2, <6>1
          <6>4. a <= a
            BY <2>0
          <6> QED BY <2>0, <4>3, <6>2, <6>3, <6>4 DEF GapIsCovered
        <5>3. CASE m # n
          <6>1. Live(f, m)' /\ pageJob'[f][m] = pageJob[f][m] /\ walk'.page # m
            BY <1>1, <5>1, <5>3 DEF Live, n
          <6>2. CASE pageJob[f][m] = "backfill"
            BY <5>1, <6>1, <6>2 DEF GapIsCovered, JobReaches
          <6>3. CASE m > 1 /\ Unstored(f, c, k) /\ (k <= a \/ n < m)
            <7>1. n < m => b <= c
              <8>1. n < m => n <= m - 1 /\ m - 1 \in Nat \ {0}
                BY <2>0, <5>1
              <8> QED BY <2>0, <8>1, PageBound DEF b
            <7>2. \A j \in DOMAIN listing[f] : c < j /\ j <= k => listing[f][j] \notin InHand
              <8> HIDE DEF c
              <8> QED BY <2>0, <3>1, <3>2, <5>1, <6>3, <7>1
            <7>3. Unstored(f, c, k)'
              <8> HIDE DEF c
              <8> QED BY <2>7, <3>2, <5>1, <6>3, <7>2
            <7> QED BY <5>1, <6>1, <6>3, <7>3 DEF GapIsCovered, JobReaches
          <6>4. CASE m > 1 /\ Unstored(f, c, k) /\ k > b /\ m < n
            <7>1. c <= a
              <8>1. m - 1 <= n - 1 /\ m - 1 \in Nat \ {0} /\ n - 1 \in Nat \ {0}
                BY <2>0, <5>1, <6>4
              <8> QED BY <8>1, PageBound DEF a
            <7> HIDE DEF c
            <7> QED BY <4>3, <5>1, <6>4, <7>1 DEF GapIsCovered
          <6>5. m < n \/ n < m
            BY <2>0, <5>1, <5>3
          <6> QED BY <4>1, <5>1, <6>2, <6>3, <6>4, <6>5
        <5> QED BY <5>2, <5>3
      <4>6. BackfillIsDue(f) => BackfillIsDue(f)'
        BY <1>1 DEF BackfillIsDue, Live
      <4>7. ~WalkHolds(f, k) /\ ~WalkGoesOn(f, k)
        BY <1>0 DEF WalkHolds, WalkGoesOn
      <4> QED BY <4>1, <4>4, <4>5, <4>6, <4>7 DEF GapIsCovered
    <3> QED BY <3>3, <3>4
  <2>11. PageIsAsRead(f) \/ GapsAreNew(f)
    BY <1>0, <2>0, <1>3 DEF HandIsTrue
  <2>12. GapsCovered(f)'
    <3>1. ASSUME NEW k \in DOMAIN listing[f], OutOfStep(f, k)' PROVE GapIsCovered(f, k)'
      BY <2>9, <2>10, <2>11, <3>1 DEF GapIsCovered
    <3> QED BY <1>1, <3>1 DEF GapsCovered
  <2>13. HandIsTrue(f)'
    <3>1. GapsAreNew(f) => GapsAreNew(f)'
      BY <1>1, <2>9 DEF GapsAreNew
    <3>2. ASSUME NEW e \in walk.entries
          PROVE  /\ \E k \in DOMAIN listing[f] : listing[f][k] = e.thread /\ k > a
                 /\ e = Entry(e.thread) /\ report'[e.thread] = Row(f, e.resolved)
      <4>1. /\ \E k \in DOMAIN listing[f] : listing[f][k] = e.thread /\ k > a
            /\ e = Entry(e.thread)
        BY <1>0, <1>3, <2>0 DEF HandIsTrue
      <4>2. e.thread \in Threads /\ e.thread \in InHand /\ e.resolved = (e.thread \in resolved)
        <5>1. e.resolved = (e.thread \in resolved)
          BY <4>1 DEF Entry
        <5> QED BY <2>0, <4>1, <5>1 DEF InHand
      <4> QED BY <1>1, <1>3, <4>1, <4>2
    <3>3. \A e : Entry(e.thread)' = Entry(e.thread)
      BY <1>1 DEF Entry
    <3>4. \A e : Row(f, e.resolved)' = Row(f, e.resolved)
      BY DEF Row, IsReportActive
    <3> QED BY <1>1, <2>8, <2>11, <3>1, <3>2, <3>3, <3>4 DEF HandIsTrue
  <2>14. SunkInStep(f)'
    <3> SUFFICES ASSUME digest[f][1] # NoDigest, NEW e \in digest[f][1], NEW k \in DOMAIN listing[f],
                        listing[f][k] = e.thread, k > PageSize
                 PROVE  ThreadInStep(f, e.thread)'
      BY <1>1 DEF SunkInStep
    <3>1. ThreadInStep(f, e.thread)
      BY <1>0 DEF FeedInv, SunkInStep
    <3>2. PICK u \in Threads : u = e.thread
      BY <2>0
    <3>3. ThreadInStep(f, u)'
      BY <2>3, <3>1, <3>2, InStepForm
    <3> QED BY <3>2, <3>3 DEF ThreadInStep, ReportInStep, LinksInStep
  <2>15. DigestInStep(f)'
    <3> SUFFICES ASSUME f \in backfilled \/ \E m \in Pages \ {1} : Live(f, m),
                        pageJob[f][1] # "backfill", digest[f][1] # NoDigest,
                        NEW e \in digest[f][1], e.thread \in Listed(f)
                 PROVE  \/ report'[e.thread] = Row(f, e.resolved) /\ LinksFor(e.thread, e.title)
                        \/ n = 1 /\ e.thread \in InHand
      BY <1>1, <2>0, <2>2 DEF DigestInStep, EntryInStep, Row, IsReportActive, Live, Listed
    <3>1. EntryInStep(f, e) /\ e.thread \in Threads
      BY <1>0, ListedAt DEF FeedInv, DigestInStep
    <3>2. CASE e.thread \notin InHand
      BY <1>1, <3>1, <3>2 DEF EntryInStep
    <3>3. CASE e.thread \in InHand /\ n # 1
      <4>1. PICK k \in DOMAIN listing[f] : listing[f][k] = e.thread /\ k > a
        BY <1>0, <1>3, <3>3, HandIsListed
      <4>2. PageSize <= a
        <5>1. n - 1 \in Nat \ {0}
          BY <2>0, <3>3
        <5> QED BY <5>1, PageStart
      <4>3. k > PageSize
        <5> HIDE DEF a
        <5> QED BY <1>0, <2>0, <4>1, <4>2
      <4>4. ThreadInStep(f, e.thread)
        BY <1>0, <4>1, <4>3 DEF FeedInv, SunkInStep
      <4>5. report[e.thread] = Row(f, e.thread \in resolved)
        BY <4>4, InStepForm
      <4> QED BY <1>1, <1>3, <3>1, <3>3, <4>5 DEF EntryInStep
    <3> QED BY <3>2, <3>3
  <2> QED BY <2>12, <2>13, <2>14, <2>15 DEF FeedInv
<1> QED BY <1>2, <1>3

(* The links derived afresh are those the title gives, and no others change. *)
LEMMA RelinkedLinks ==
  ASSUME ForumShapes, NEW t \in Threads, NEW ids,
         link'[t] = Relinked(link[t], ids), UNCHANGED plotTable
  PROVE  /\ LinksFor(t, ids)'
         /\ LinksFor(t, ids) => link'[t] = link[t]
<1>1. link[t] \in [Plots -> LinkSource]
  BY DEF ForumShapes, ForumTypeOK
<1>2. Matches(ids)' = Matches(ids)
  BY DEF Matches, Candidates
<1>3. \A x \in Plots : link'[t][x] = IF x \in Matches(ids) /\ link[t][x] \in {"none", "parsed"} THEN "parsed"
                                     ELSE IF link[t][x] = "parsed" THEN "none" ELSE link[t][x]
  BY <1>1 DEF Relinked, WithParsed, WithoutParsed, LinkSource
<1>4. LinksFor(t, ids)'
  <2>1. \A x \in Plots : /\ x \in Matches(ids) => link'[t][x] # "none"
                         /\ link'[t][x] = "parsed" => x \in Matches(ids)
    BY <1>1, <1>3 DEF LinkSource
  <2> QED BY <1>2, <2>1 DEF LinksFor
<1>5. ASSUME LinksFor(t, ids) PROVE link'[t] = link[t]
  <2>1. \A x \in Plots : link'[t][x] = link[t][x]
    BY <1>1, <1>3, <1>5 DEF LinksFor, LinkSource
  <2> DEFINE r == [x \in Plots |-> link'[t][x]]
  <2>2. link'[t] = r
    BY DEF Relinked, WithParsed
  <2>3. link[t] = [x \in Plots |-> link[t][x]]
    BY <1>1
  <2> QED BY <2>1, <2>2, <2>3
<1> QED BY <1>4, <1>5

LEMMA MirrorAfterRelink ==
  ASSUME ForumShapes, ForumShapes', EachOnce, MirrorInv, forumExcuses = {},
         NEW f \in Feeds, Relink
  PROVE  FeedInv(f)'
<1>0. /\ FeedInv(f) /\ HandIsTrue(walk.feed) /\ walk.phase = "stored"
      /\ walk.feed \in Feeds /\ walk.page \in Pages /\ 1 \in Pages /\ PageSize \in Nat \ {0}
  <2>1. walk.feed \in Feeds /\ walk.page \in Pages /\ walk.phase = "stored"
    BY DEF Relink, ForumShapes, Walks
  <2>2. FeedInv(f) /\ FeedInv(walk.feed)
    BY <2>1 DEF MirrorInv
  <2> QED BY <2>1, <2>2, ForumNumbers DEF FeedInv, Pages
<1>1. /\ walk'.phase = "digested" /\ walk'.feed = walk.feed
      /\ walk'.page = walk.page /\ walk'.mode = walk.mode /\ walk'.last = walk.last
      /\ walk'.entries = walk.entries /\ walk'.new = walk.new /\ InHand' = InHand
      /\ digest' = [digest EXCEPT ![walk.feed][walk.page] = walk.entries]
      /\ UNCHANGED <<listing, title, resolved, plotTable, report, backfilled, pageJob>>
  BY DEF Relink, ForumShapes, Walks, upstreamForum, InHand
<1>2. ASSUME NEW t \in Threads, t \notin InHand PROVE link'[t] = link[t]
  BY <1>2 DEF Relink, InHand
<1>3. ASSUME NEW t \in Threads, t \in InHand PROVE link'[t] = Relinked(link[t], title[t])
  <2> DEFINE e == CHOOSE x \in walk.entries : x.thread = t
  <2>1. e \in walk.entries /\ e.thread = t
    BY <1>3 DEF InHand
  <2>2. e = Entry(t)
    BY <1>0, <2>1 DEF HandIsTrue, WalkRuns
  <2>3. link'[t] = Relinked(link[t], e.title)
    BY <2>1 DEF Relink
  <2> HIDE DEF e
  <2>4. e.title = title[t]
    BY <2>2 DEF Entry
  <2> QED BY <2>3, <2>4
<1>4. CASE walk.feed # f
  <2>1. \A t \in Listed(f) : t \in Threads /\ t \notin InHand
    BY <1>0, <1>4, HandIsListed, OneFeed, ListedAt
  <2>2. \A t \in Listed(f) : link'[t] = link[t]
    BY <1>2, <2>1
  <2>3. ~WalkRuns(f) /\ ~WalkRuns(f)' /\ digest'[f] = digest[f]
    BY <1>0, <1>1, <1>4 DEF WalkRuns, ForumShapes
  <2> QED BY <1>0, <1>1, <2>2, <2>3, FeedUntouched
<1>5. CASE walk.feed = f
  <2> DEFINE n == walk.page
             a == (n - 1) * PageSize
             b == n * PageSize
  <2>0. /\ WalkRuns(f) /\ WalkRuns(f)' /\ HandIsTrue(f)
        /\ n \in Nat \ {0} /\ a \in Nat /\ b \in Nat
        /\ \A k \in DOMAIN listing[f] : k \in Nat \ {0} /\ listing[f][k] \in Threads
                                        /\ listing[f][k] \in Listed(f)
        /\ digest'[f][n] = walk.entries /\ (n # 1 => digest'[f][1] = digest[f][1])
    BY <1>0, <1>1, <1>5, PageInts, ListedAt DEF WalkRuns, ForumShapes
  <2>1. \A ids : Matches(ids)' = Matches(ids)
    BY <1>1 DEF Matches, Candidates
  <2>2. ASSUME NEW u \in Threads, u \notin InHand
        PROVE  \A ids : LinksFor(u, ids)' <=> LinksFor(u, ids)
    BY <1>2, <2>1, <2>2 DEF LinksFor
  <2>3. ASSUME NEW u \in Threads, u \in InHand
        PROVE  /\ LinksFor(u, title[u])' /\ report[u] = Row(f, u \in resolved)
               /\ LinksFor(u, title[u]) => link'[u] = link[u]
    <3>1. report[u] = Row(f, u \in resolved)
      <4>1. PICK e \in walk.entries : e.thread = u
        BY <2>3 DEF InHand
      <4>2. report[u] = Row(f, e.resolved) /\ e = Entry(u)
        BY <1>0, <2>0, <4>1 DEF HandIsTrue
      <4> QED BY <4>2 DEF Entry
    <3>2. PICK ids : ids = title[u] /\ ids = title'[u]
      BY <1>1
    <3>3. link'[u] = Relinked(link[u], ids)
      BY <1>3, <2>3, <3>2
    <3>4. LinksFor(u, ids)' /\ (LinksFor(u, ids) => link'[u] = link[u])
      BY <1>1, <3>3, RelinkedLinks
    <3>5. LinksFor(u, title[u])'
      BY <3>2, <3>4 DEF LinksFor
    <3> QED BY <3>1, <3>2, <3>4, <3>5
  <2>4. ASSUME NEW u \in Threads
        PROVE  /\ u \in InHand => ThreadInStep(f, u)'
               /\ ThreadInStep(f, u) => ThreadInStep(f, u)'
    <3>1. ThreadInStep(f, u)' <=> report[u] = Row(f, u \in resolved) /\ LinksFor(u, title[u])'
      BY <1>1 DEF ThreadInStep, ReportInStep, LinksInStep, LinksFor, Row, IsReportActive
    <3>2. u \notin InHand => (LinksFor(u, title[u])' <=> LinksFor(u, title[u]))
      BY <1>1, <1>2, <2>1 DEF LinksFor
    <3> QED BY <2>3, <3>1, <3>2, InStepForm
  <2>5. ASSUME NEW k \in DOMAIN listing[f], OutOfStep(f, k)'
        PROVE  OutOfStep(f, k) /\ listing[f][k] \notin InHand
    <3>1. PICK u \in Threads : u = listing[f][k]
      BY <2>0
    <3>2. ThreadInStep(f, listing[f][k])' <=> ThreadInStep(f, u)'
      BY <1>1, <3>1 DEF ThreadInStep, ReportInStep, LinksInStep
    <3> QED BY <2>4, <2>5, <3>1, <3>2 DEF OutOfStep
  <2>6. \A i, k : Unstored(f, i, k)' <=> Unstored(f, i, k)
    BY <1>1 DEF Unstored, IsStored
  <2>7. PageIsAsRead(f) \/ GapsAreNew(f)
    BY <2>0 DEF HandIsTrue
  <2>8. GapsCovered(f)'
    <3> SUFFICES ASSUME NEW k \in DOMAIN listing[f], OutOfStep(f, k)' PROVE GapIsCovered(f, k)'
      BY <1>1 DEF GapsCovered
    <3>1. GapIsCovered(f, k) /\ OutOfStep(f, k) /\ listing[f][k] \notin InHand
      BY <1>0, <2>5 DEF FeedInv, GapsCovered
    <3>2. \A m \in Pages : JobReaches(f, m, k) => JobReaches(f, m, k)'
      BY <1>0, <1>1, <2>0, <2>6 DEF JobReaches, Live
    <3>3. BackfillIsDue(f) => BackfillIsDue(f)'
      BY <1>1 DEF BackfillIsDue, Live
    <3>4. WalkHolds(f, k) => Unstored(f, 0, k)
      <4>1. PageIsAsRead(f) => ~WalkHolds(f, k)
        BY <1>0, <3>1, PageAt DEF PageIsAsRead, WalkHolds
      <4> QED BY <2>7, <3>1, <4>1 DEF GapsAreNew
    <3>5. WalkGoesOn(f, k) => WalkGoesOn(f, k)'
      BY <1>1, <2>0, <2>6 DEF WalkGoesOn, Unstored, IsStored
    <3> QED BY <2>6, <3>1, <3>2, <3>3, <3>4, <3>5 DEF GapIsCovered
  <2>9. HandIsTrue(f)'
    <3>1. GapsAreNew(f) => GapsAreNew(f)'
      BY <1>1, <2>5, <2>6 DEF GapsAreNew, OutOfHand
    <3>2. PageIsAsRead(f) => PageIsAsRead(f)'
      BY <1>1 DEF PageIsAsRead, PageOf, LastPage
    <3>3. ASSUME NEW e \in walk.entries
          PROVE  /\ \E k \in DOMAIN listing[f] : listing[f][k] = e.thread /\ k > a
                 /\ e = Entry(e.thread) /\ report[e.thread] = Row(f, e.resolved)
                 /\ LinksFor(e.thread, e.title)'
      <4>1. /\ \E k \in DOMAIN listing[f] : listing[f][k] = e.thread /\ k > a
            /\ e = Entry(e.thread) /\ report[e.thread] = Row(f, e.resolved)
        BY <1>0, <2>0 DEF HandIsTrue
      <4>2. PICK u \in Threads : u = e.thread /\ u \in InHand /\ e.title = title[u]
        <5>1. e.title = title[e.thread]
          BY <4>1 DEF Entry
        <5> QED BY <2>0, <4>1, <5>1 DEF InHand
      <4>3. LinksFor(e.thread, e.title)'
        BY <1>1, <2>3, <4>2 DEF LinksFor
      <4> QED BY <4>1, <4>3
    <3>4. \A e : Entry(e.thread)' = Entry(e.thread)
      BY <1>1 DEF Entry
    <3>5. \A e : Row(f, e.resolved)' = Row(f, e.resolved)
      BY DEF Row, IsReportActive
    <3>6. \A e \in walk.entries : e.thread \in InHand
      BY DEF InHand
    <3> QED BY <1>1, <2>0, <2>7, <3>1, <3>2, <3>3, <3>4, <3>5 DEF HandIsTrue
  <2>10. SunkInStep(f)'
    <3> SUFFICES ASSUME digest'[f][1] # NoDigest, NEW e \in digest'[f][1], NEW k \in DOMAIN listing[f],
                        listing[f][k] = e.thread, k > PageSize
                 PROVE  ThreadInStep(f, e.thread)'
      BY <1>1 DEF SunkInStep
    <3>1. PICK u \in Threads : u = e.thread
      BY <2>0
    <3>2. ThreadInStep(f, u)'
      <4>1. CASE n = 1
        BY <2>0, <2>4, <3>1, <4>1 DEF InHand
      <4>2. CASE n # 1
        BY <1>0, <2>0, <2>4, <3>1, <4>2 DEF FeedInv, SunkInStep
      <4> QED BY <4>1, <4>2
    <3> QED BY <3>1, <3>2 DEF ThreadInStep, ReportInStep, LinksInStep
  <2>11. DigestInStep(f)'
    <3> SUFFICES ASSUME f \in backfilled \/ \E m \in Pages \ {1} : Live(f, m),
                        pageJob[f][1] # "backfill", digest'[f][1] # NoDigest,
                        NEW e \in digest'[f][1], e.thread \in Listed(f)
                 PROVE  report[e.thread] = Row(f, e.resolved) /\ LinksFor(e.thread, e.title)'
      BY <1>1 DEF DigestInStep, EntryInStep, Row, IsReportActive, Live, Listed
    <3>0. PICK u \in Threads : u = e.thread
      BY ListedAt
    <3>1. CASE n = 1
      <4>1. e \in walk.entries
        BY <2>0, <3>1
      <4>2. e = Entry(e.thread) /\ report[e.thread] = Row(f, e.resolved) /\ u \in InHand
        BY <1>0, <2>0, <3>0, <4>1 DEF HandIsTrue, InHand
      <4>3. e.title = title[u]
        BY <3>0, <4>2 DEF Entry
      <4> QED BY <1>1, <2>3, <3>0, <4>2, <4>3 DEF LinksFor
    <3>2. CASE n # 1
      <4>1. EntryInStep(f, e) /\ digest[f][1] # NoDigest /\ e \in digest[f][1]
        BY <1>0, <2>0, <3>2 DEF FeedInv, DigestInStep
      <4>2. link'[u] = link[u]
        <5>1. CASE u \notin InHand
          BY <1>2, <5>1
        <5>2. CASE u \in InHand
          <6>1. PICK k \in DOMAIN listing[f] : listing[f][k] = u /\ k > a
            BY <1>0, <1>5, <5>2, HandIsListed
          <6>2. PageSize <= a
            <7>1. n - 1 \in Nat \ {0}
              BY <2>0, <3>2
            <7> QED BY <7>1, PageStart
          <6>3. k > PageSize
            <7> HIDE DEF a
            <7> QED BY <1>0, <2>0, <6>1, <6>2
          <6>4. ThreadInStep(f, u)
            BY <1>0, <3>0, <4>1, <6>1, <6>3 DEF FeedInv, SunkInStep
          <6> QED BY <2>3, <5>2, <6>4, InStepForm
        <5> QED BY <5>1, <5>2
      <4>3. LinksFor(e.thread, e.title)'
        BY <2>1, <3>0, <4>1, <4>2 DEF EntryInStep, LinksFor
      <4> QED BY <4>1, <4>3 DEF EntryInStep
    <3> QED BY <3>1, <3>2
  <2> QED BY <2>8, <2>9, <2>10, <2>11 DEF FeedInv
<1> QED BY <1>4, <1>5

LEMMA MirrorAfterChain ==
  ASSUME ForumShapes, ForumShapes', EachOnce, ModeInv, NEW f \in Feeds, FeedInv(f), Chain
  PROVE  FeedInv(f)'
<1>0. /\ walk.phase = "digested" /\ walk.feed \in Feeds /\ walk.page \in Pages /\ walk.mode \in Modes
      /\ 1 \in Pages /\ PageSize \in Nat \ {0} /\ ~WalkRuns(f)'
      /\ UNCHANGED <<listing, title, resolved, plotTable, report, link, digest>>
      /\ backfilled \subseteq backfilled'
      /\ backfilled' = IF ~HasNextPage /\ walk.mode = "backfill"
                       THEN backfilled \cup {walk.feed} ELSE backfilled
  BY ForumNumbers DEF Chain, ForumShapes, Walks, Pages, upstreamForum, WalkRuns, Idle
<1>1. \A g \in Feeds, m \in Pages :
        pageJob'[g][m] =
          IF g = walk.feed /\ m = walk.page THEN "none"
          ELSE IF HasNextPage /\ g = walk.feed /\ m = walk.page + 1 /\ ~Live(g, m)
               THEN walk.mode ELSE pageJob[g][m]
  BY ChainedJobs
<1>2. CASE walk.feed # f
  <2>1. pageJob'[f] = pageJob[f]
    <3>1. \A m \in Pages : pageJob'[f][m] = pageJob[f][m]
      BY <1>1, <1>2
    <3>2. pageJob[f] \in [Pages -> Modes \cup {"none"}] /\ pageJob'[f] \in [Pages -> Modes \cup {"none"}]
      BY DEF ForumShapes, ForumTypeOK
    <3> QED BY <3>1, <3>2
  <2>2. ~WalkRuns(f) /\ (f \in backfilled' <=> f \in backfilled)
    BY <1>0, <1>2 DEF WalkRuns
  <2> QED BY <1>0, <2>1, <2>2, FeedUntouched
<1>3. CASE walk.feed = f
  <2> DEFINE n == walk.page
  <2>0. /\ WalkRuns(f) /\ pageJob[f][n] = walk.mode /\ Live(f, n)
        /\ n \in Nat \ {0} /\ n * PageSize \in Nat /\ n < n + 1
        /\ \A k \in DOMAIN listing[f] : k \in Nat \ {0}
        /\ \A m \in Pages : m \in Nat \ {0}
    <3>1. WalkRuns(f) /\ pageJob[f][n] = walk.mode /\ Live(f, n)
      BY <1>0, <1>3 DEF WalkRuns, ForumShapes, ForumTypeOK, Live, Modes
    <3>2. n \in Nat \ {0} /\ n * PageSize \in Nat /\ \A m \in Pages : m \in Nat \ {0}
      BY <1>0, PageInts
    <3>3. n < n + 1
      BY <3>2
    <3> QED BY <3>1, <3>2, <3>3, ListedAt
  <2>1. \A ids : Matches(ids)' = Matches(ids)
    BY <1>0 DEF Matches, Candidates
  <2>2. \A u, ids : LinksFor(u, ids)' <=> LinksFor(u, ids)
    BY <1>0, <2>1 DEF LinksFor
  <2>3. \A u : ThreadInStep(f, u)' <=> ThreadInStep(f, u)
    BY <1>0, <2>1 DEF ThreadInStep, ReportInStep, LinksInStep, Row, IsReportActive
  <2>4. \A k : OutOfStep(f, k)' <=> OutOfStep(f, k)
    BY <1>0, <2>1 DEF OutOfStep, ThreadInStep, ReportInStep, LinksInStep, Row, IsReportActive
  <2>5. \A i, k : Unstored(f, i, k)' <=> Unstored(f, i, k)
    BY <1>0 DEF Unstored, IsStored
  <2>6. \A m \in Pages : m # n /\ Live(f, m) => Live(f, m)' /\ pageJob'[f][m] = pageJob[f][m]
    BY <1>1 DEF Live
  <2>7. PageIsAsRead(f) \/ GapsAreNew(f)
    BY <2>0 DEF FeedInv, HandIsTrue
  <2>8. ASSUME PageIsAsRead(f), walk.mode = "backfill" \/ walk.new = InHand,
               NEW k \in DOMAIN listing[f], k > n * PageSize
        PROVE  HasNextPage
    <3>1. /\ walk.last = LastPage(f) /\ walk.last \in Nat \ {0} /\ k <= walk.last * PageSize
          /\ MaxListingPages \in Nat \ {0} /\ k <= MaxListingPages * PageSize
      <4>1. MaxListingPages \in Nat \ {0} /\ PageSize * MaxListingPages = MaxListingPages * PageSize
        BY ForumNumbers
      <4> QED BY <2>8, <4>1, LastPageCovers, ListingsFit DEF PageIsAsRead, ForumShapes, ForumTypeOK
    <3>2. ASSUME NEW m \in Nat \ {0}, k <= m * PageSize PROVE n < m
      <4>1. m <= n => m * PageSize <= n * PageSize
        BY <2>0, PageBound
      <4>2. m * PageSize \in Nat
        BY PageStart
      <4> DEFINE x == m * PageSize
                 y == n * PageSize
      <4>3. x \in Nat /\ y \in Nat /\ k \in Nat /\ k <= x /\ k > y /\ (m <= n => x <= y)
        BY <2>0, <2>8, <3>2, <4>1, <4>2
      <4> HIDE DEF x, y
      <4> QED BY <2>0, <3>2, <4>3
    <3>3. n < walk.last /\ n < MaxListingPages
      BY <3>1, <3>2
    <3>4. walk.page < Min({walk.last, MaxListingPages})
      BY <3>1, <3>3, MinOfTwo
    <3> QED BY <2>8, <3>4 DEF HasNextPage, InHand
  <2>9. ASSUME HasNextPage, NEW k \in DOMAIN listing[f], k > n * PageSize,
               walk.mode = "backfill" \/ Unstored(f, n * PageSize, k)
        PROVE  GapIsCovered(f, k)'
    <3>1. n + 1 \in Pages /\ (n + 1 - 1) * PageSize = n * PageSize /\ n + 1 > 1
      BY <2>0, <2>9, NextPageIsAPage, PageStart
    <3>2. PICK m \in Pages : m = n + 1
      BY <3>1
    <3>3. m # n /\ n < m /\ m > 1 /\ (m - 1) * PageSize = n * PageSize
      BY <2>0, <3>1, <3>2
    <3>4. pageJob'[f][m] = IF Live(f, m) THEN pageJob[f][m] ELSE walk.mode
      BY <1>1, <1>3, <2>9, <3>2, <3>3 DEF Live
    <3>5. Live(f, m)'
      BY <1>0, <3>4 DEF Live, Modes
    <3>6. walk.mode = "backfill" => pageJob'[f][m] = "backfill"
      <4>1. walk.mode = "backfill" => pageJob[f][m] # "incremental"
        BY <1>0, <2>0, <3>3 DEF ModeInv
      <4>2. pageJob[f][m] \in Modes \cup {"none"}
        BY DEF ForumShapes, ForumTypeOK
      <4> QED BY <3>4, <4>1, <4>2 DEF Live, Modes
    <3>7. (m - 1) * PageSize < k
      BY <2>0, <2>9, <3>3
    <3>8. pageJob'[f][m] = "backfill" \/ Unstored(f, (m - 1) * PageSize, k)'
      BY <2>5, <2>9, <3>3, <3>6
    <3>9. JobReaches(f, m, k)'
      BY <1>0, <3>3, <3>5, <3>7, <3>8 DEF JobReaches
    <3> QED BY <3>9 DEF GapIsCovered
  <2>10. GapsCovered(f)'
    <3> SUFFICES ASSUME NEW k \in DOMAIN listing[f], OutOfStep(f, k) PROVE GapIsCovered(f, k)'
      BY <1>0, <2>4 DEF GapsCovered
    <3>1. GapIsCovered(f, k) /\ k > PageSize
      BY DEF FeedInv, GapsCovered, OutOfStep
    <3>2. GapsAreNew(f) => Unstored(f, 0, k)
      BY DEF GapsAreNew
    <3>3. Unstored(f, 0, k) => GapIsCovered(f, k)'
      BY <2>5 DEF GapIsCovered
    <3>4. ASSUME NEW m \in Pages, JobReaches(f, m, k) PROVE GapIsCovered(f, k)'
      <4>1. m # n
        BY <1>0, <2>0, <3>4 DEF JobReaches
      <4>2. JobReaches(f, m, k)'
        BY <1>0, <2>5, <2>6, <3>4, <4>1 DEF JobReaches
      <4> QED BY <4>2 DEF GapIsCovered
    <3>5. ASSUME BackfillIsDue(f) PROVE GapIsCovered(f, k)'
      <4>1. n = 1 /\ walk.mode = "backfill"
        <5>1. n = 1
          BY <1>0, <2>0, <3>5 DEF BackfillIsDue
        <5>2. walk.mode # "incremental"
          BY <1>0, <2>0, <3>5 DEF BackfillIsDue, ModeInv
        <5> QED BY <1>0, <5>1, <5>2 DEF Modes
      <4>2. k > n * PageSize
        BY <1>0, <3>1, <4>1
      <4> QED BY <2>7, <2>8, <2>9, <3>2, <3>3, <4>1, <4>2
    <3>6. ASSUME WalkGoesOn(f, k) PROVE GapIsCovered(f, k)'
      BY <2>7, <2>8, <2>9, <3>2, <3>3, <3>6 DEF WalkGoesOn
    <3>7. ~WalkHolds(f, k)
      BY <1>0 DEF WalkHolds
    <3> QED BY <3>1, <3>3, <3>4, <3>5, <3>6, <3>7 DEF GapIsCovered
  <2>11. SunkInStep(f)'
    BY <1>0, <2>3 DEF FeedInv, SunkInStep
  <2>12. DigestInStep(f)'
    <3> SUFFICES ASSUME f \in backfilled' \/ \E m \in Pages \ {1} : Live(f, m)',
                        pageJob'[f][1] # "backfill", digest[f][1] # NoDigest,
                        NEW e \in digest[f][1], e.thread \in Listed(f)
                 PROVE  EntryInStep(f, e)
      <4>1. Listed(f)' = Listed(f)
        BY <1>0 DEF Listed
      <4> QED BY <1>0, <2>2, <4>1 DEF DigestInStep, EntryInStep, Row, IsReportActive
    <3>1. CASE n = 1
      <4>1. e \in walk.entries
        BY <1>0, <2>0, <3>1 DEF FeedInv, HandIsTrue
      <4> QED BY <1>0, <2>0, <4>1 DEF FeedInv, HandIsTrue, EntryInStep
    <3>2. CASE n # 1
      <4>1. \E m \in Pages \ {1} : Live(f, m)
        BY <1>0, <2>0, <3>2
      <4>2. pageJob[f][1] # "backfill"
        BY <1>0, <2>6, <3>2 DEF Live
      <4> QED BY <1>0, <4>1, <4>2 DEF FeedInv, DigestInStep
    <3> QED BY <3>1, <3>2
  <2> QED BY <1>0, <2>10, <2>11, <2>12 DEF FeedInv, HandIsTrue
<1> QED BY <1>2, <1>3

LEMMA MirrorAfterCut ==
  ASSUME ForumShapes, ForumShapes', ModeInv, NEW f \in Feeds, FeedInv(f), CutPage, forumExcuses' = {}
  PROVE  FeedInv(f)'
<1>0. /\ walk.phase # "idle" /\ walk.feed \in Feeds /\ walk.page \in Pages /\ walk.mode \in Modes
      /\ 1 \in Pages /\ PageSize \in Nat \ {0} /\ ~WalkRuns(f)' /\ walk'.phase = "idle"
      /\ UNCHANGED <<listing, title, resolved, plotTable, report, link, digest, backfilled>>
  BY ForumNumbers DEF CutPage, ForumShapes, Walks, Pages, upstreamForum, forumTables, WalkRuns, Idle
<1>1. PICK n \in Pages : n = walk.page
  BY <1>0
<1>2. PICK g \in Feeds : g = walk.feed
  BY <1>0
<1>3. UNCHANGED pageJob \/ (pageJob' = [pageJob EXCEPT ![g][n] = "none"] /\ pageJob' # pageJob)
  BY <1>1, <1>2 DEF CutPage
<1>4. CASE g # f
  <2>1. pageJob'[f] = pageJob[f]
    BY <1>3, <1>4 DEF ForumShapes, ForumTypeOK
  <2>2. ~WalkRuns(f)
    BY <1>2, <1>4 DEF WalkRuns
  <2> QED BY <1>0, <2>1, <2>2, FeedUntouched
<1>5. CASE g = f
  <2>0. /\ WalkRuns(f) /\ pageJob[f][n] = walk.mode /\ Live(f, n)
        /\ n \in Nat \ {0} /\ (n - 1) * PageSize \in Nat /\ n * PageSize \in Nat
        /\ (n - 1) * PageSize <= n * PageSize
        /\ \A k \in DOMAIN listing[f] : k \in Nat \ {0}
        /\ \A m \in Pages : m \in Nat \ {0}
    <3>1. WalkRuns(f) /\ pageJob[f][n] = walk.mode /\ Live(f, n)
      BY <1>0, <1>1, <1>2, <1>5 DEF WalkRuns, ForumShapes, ForumTypeOK, Live, Modes
    <3>2. /\ n \in Nat \ {0} /\ (n - 1) * PageSize \in Nat /\ n * PageSize \in Nat
          /\ \A m \in Pages : m \in Nat \ {0}
      BY PageInts
    <3>3. (n - 1) * PageSize <= n * PageSize
      BY <1>0, <3>2, PageStart
    <3> QED BY <3>1, <3>2, <3>3, ListedAt
  <2>1. \A ids : Matches(ids)' = Matches(ids)
    BY <1>0 DEF Matches, Candidates
  <2>2. \A u, ids : LinksFor(u, ids)' <=> LinksFor(u, ids)
    BY <1>0, <2>1 DEF LinksFor
  <2>3. \A u : ThreadInStep(f, u)' <=> ThreadInStep(f, u)
    BY <1>0, <2>1 DEF ThreadInStep, ReportInStep, LinksInStep, Row, IsReportActive
  <2>4. \A k : OutOfStep(f, k)' <=> OutOfStep(f, k)
    BY <1>0, <2>1 DEF OutOfStep, ThreadInStep, ReportInStep, LinksInStep, Row, IsReportActive
  <2>5. \A i, k : Unstored(f, i, k)' <=> Unstored(f, i, k)
    BY <1>0 DEF Unstored, IsStored
  <2>6. SunkInStep(f)' /\ HandIsTrue(f)'
    BY <1>0, <2>3 DEF FeedInv, SunkInStep, HandIsTrue
  <2>7. Listed(f)' = Listed(f)
    BY <1>0 DEF Listed
  <2>8. walk.mode = "incremental" =>
          walk.phase = "fetched" /\ (pageJob' # pageJob => n = 1)
    <3>1. walk.mode = "incremental" =>
            walk.phase = "fetched" /\ ~(walk.page > 1 /\ pageJob' # pageJob)
      BY DEF CutPage
    <3> QED BY <1>1, <2>0, <3>1
  <2>9. walk.mode = "backfill" /\ pageJob' # pageJob =>
          f \notin backfilled /\ \A m \in Pages : m > n => ~Live(f, m)
    BY <1>1, <1>2, <1>5 DEF CutPage
  <2>10. ASSUME NEW k, NEW m \in Pages, Live(f, m)', (m - 1) * PageSize < k,
                pageJob'[f][m] = "backfill" \/ (m > 1 /\ Unstored(f, (m - 1) * PageSize, k))
         PROVE  GapIsCovered(f, k)'
    <3>1. JobReaches(f, m, k)'
      BY <1>0, <2>5, <2>10 DEF JobReaches
    <3> QED BY <3>1 DEF GapIsCovered
  <2>11. ASSUME NEW k \in DOMAIN listing[f], WalkHolds(f, k) \/ WalkGoesOn(f, k)
         PROVE  walk.mode = "backfill" /\ (n - 1) * PageSize < k
    <3>1. walk.mode = "backfill"
      BY <1>0, <2>8, <2>11 DEF WalkHolds, WalkGoesOn, Modes
    <3>2. CASE WalkHolds(f, k)
      BY <1>1, <3>1, <3>2 DEF WalkHolds
    <3>3. CASE WalkGoesOn(f, k)
      <4> DEFINE a == (n - 1) * PageSize
                 b == n * PageSize
      <4>1. a \in Nat /\ b \in Nat /\ a <= b /\ k \in Nat /\ k > b
        BY <1>1, <2>0, <2>11, <3>3 DEF WalkGoesOn
      <4> HIDE DEF a, b
      <4>2. a < k
        BY <4>1
      <4> QED BY <3>1, <4>2 DEF a
    <3> QED BY <2>11, <3>1, <3>2, <3>3
  <2>12. CASE UNCHANGED pageJob
    <3>1. ASSUME NEW k \in DOMAIN listing[f], GapIsCovered(f, k) PROVE GapIsCovered(f, k)'
      <4>1. CASE Unstored(f, 0, k) \/ BackfillIsDue(f)
        BY <1>0, <2>5, <2>12, <4>1 DEF GapIsCovered, BackfillIsDue, Live
      <4>2. ASSUME NEW m \in Pages, JobReaches(f, m, k) PROVE GapIsCovered(f, k)'
        BY <2>10, <2>12, <4>2 DEF JobReaches, Live
      <4>3. CASE WalkHolds(f, k) \/ WalkGoesOn(f, k)
        BY <2>0, <2>10, <2>11, <2>12, <4>3 DEF Live
      <4> QED BY <3>1, <4>1, <4>2, <4>3 DEF GapIsCovered
    <3>2. GapsCovered(f)'
      BY <1>0, <2>4, <3>1 DEF FeedInv, GapsCovered
    <3>3. ~(walk.phase = "stored" /\ walk.page = 1) \/ pageJob[f][1] = "backfill"
      BY <1>0, <1>1, <2>0, <2>8 DEF Modes
    <3>4. DigestInStep(f)'
      BY <1>0, <2>2, <2>7, <2>12, <3>3 DEF FeedInv, DigestInStep, EntryInStep, Row, IsReportActive, Live
    <3> QED BY <2>6, <3>2, <3>4 DEF FeedInv
  <2>13. CASE pageJob' # pageJob
    <3>0. \A m \in Pages : /\ pageJob'[f][m] = IF m = n THEN "none" ELSE pageJob[f][m]
                           /\ Live(f, m)' <=> Live(f, m) /\ m # n
      BY <1>3, <1>5, <2>13, JobDone DEF Live
    <3>1. ASSUME NEW k \in DOMAIN listing[f], (n - 1) * PageSize < k, walk.mode = "backfill"
          PROVE  GapIsCovered(f, k)'
      <4>1. f \notin backfilled /\ \A m \in Pages : m > n => ~Live(f, m)
        BY <2>9, <2>13, <3>1
      <4>2. CASE \E m \in Pages \ {1} : Live(f, m)'
        <5>1. PICK m \in Pages \ {1} : Live(f, m)'
          BY <4>2
        <5>2. m < n /\ Live(f, m) /\ pageJob'[f][m] = pageJob[f][m]
          <6>1. Live(f, m) /\ m # n /\ pageJob'[f][m] = pageJob[f][m]
            BY <3>0, <5>1
          <6>2. m \in Nat /\ n \in Nat /\ ~(m > n)
            BY <2>0, <4>1, <6>1
          <6>3. m < n
            BY <6>1, <6>2
          <6> QED BY <6>1, <6>3
        <5>3. pageJob[f][m] = "backfill"
          <6>1. pageJob[f][m] \in Modes
            BY <5>2 DEF ForumShapes, ForumTypeOK, Live
          <6> QED BY <4>1, <6>1 DEF ModeInv, Modes
        <5>4. (m - 1) * PageSize < k
          <6>1. m - 1 \in Nat \ {0} /\ n - 1 \in Nat \ {0} /\ m - 1 <= n - 1
            BY <2>0, <5>1, <5>2
          <6>2. (m - 1) * PageSize <= (n - 1) * PageSize /\ (m - 1) * PageSize \in Nat
            BY <6>1, PageBound, PageStart
          <6> DEFINE a == (n - 1) * PageSize
                     c == (m - 1) * PageSize
          <6>3. a \in Nat /\ c \in Nat /\ c <= a /\ a < k /\ k \in Nat
            BY <2>0, <3>1, <6>2
          <6> HIDE DEF a, c
          <6>4. c < k
            BY <6>3
          <6> QED BY <6>4 DEF c
        <5> QED BY <2>10, <5>1, <5>2, <5>3, <5>4
      <4>3. CASE \A m \in Pages \ {1} : ~Live(f, m)'
        BY <1>0, <4>1, <4>3 DEF BackfillIsDue, GapIsCovered
      <4> QED BY <4>2, <4>3
    <3>2. ASSUME NEW k \in DOMAIN listing[f], GapIsCovered(f, k), OutOfStep(f, k)
          PROVE  GapIsCovered(f, k)'
      <4>1. CASE Unstored(f, 0, k) \/ BackfillIsDue(f)
        BY <1>0, <2>5, <3>0, <4>1 DEF GapIsCovered, BackfillIsDue
      <4>2. ASSUME NEW m \in Pages, JobReaches(f, m, k) PROVE GapIsCovered(f, k)'
        <5>1. CASE m # n
          BY <2>10, <3>0, <4>2, <5>1 DEF JobReaches
        <5>2. CASE m = n
          <6>1. walk.mode # "incremental"
            <7>1. walk.mode = "incremental" => n = 1
              BY <2>8, <2>13
            <7>2. pageJob[f][n] = "backfill" \/ n > 1
              BY <4>2, <5>2 DEF JobReaches
            <7> QED BY <2>0, <7>1, <7>2
          <6>2. walk.mode = "backfill" /\ (n - 1) * PageSize < k
            BY <1>0, <4>2, <5>2, <6>1 DEF JobReaches, Modes
          <6> QED BY <3>1, <6>2
        <5> QED BY <5>1, <5>2
      <4>3. CASE WalkHolds(f, k) \/ WalkGoesOn(f, k)
        BY <2>11, <3>1, <4>3
      <4> QED BY <3>2, <4>1, <4>2, <4>3 DEF GapIsCovered
    <3>3. GapsCovered(f)'
      BY <1>0, <2>4, <3>2 DEF FeedInv, GapsCovered
    <3>4. DigestInStep(f)'
      <4> SUFFICES ASSUME f \in backfilled \/ \E m \in Pages \ {1} : Live(f, m) /\ m # n,
                          pageJob'[f][1] # "backfill", digest[f][1] # NoDigest,
                          NEW e \in digest[f][1], e.thread \in Listed(f)
                   PROVE  EntryInStep(f, e)
        BY <1>0, <2>2, <2>7, <3>0 DEF DigestInStep, EntryInStep, Row, IsReportActive
      <4>1. CASE n # 1
        <5>1. pageJob[f][1] # "backfill" /\ walk.page # 1
          BY <1>0, <1>1, <3>0, <4>1
        <5> QED BY <5>1 DEF FeedInv, DigestInStep
      <4>2. CASE n = 1
        <5>1. walk.mode # "backfill"
          <6>1. walk.mode = "backfill" => f \notin backfilled /\ \A m \in Pages : m > n => ~Live(f, m)
            BY <2>9, <2>13
          <6>2. \A m \in Pages : m # 1 => m > n
            BY <2>0, <4>2
          <6> QED BY <6>1, <6>2
        <5>2. walk.phase = "fetched" /\ pageJob[f][1] # "backfill"
          BY <1>0, <2>0, <2>8, <4>2, <5>1 DEF Modes
        <5> QED BY <5>2 DEF FeedInv, DigestInStep
      <4> QED BY <4>1, <4>2
    <3> QED BY <2>6, <3>3, <3>4 DEF FeedInv
  <2> QED BY <2>12, <2>13
<1> QED BY <1>4, <1>5

(* Links an operator adds by hand put no thread out of step.                *)
LEMMA MirrorAfterManual ==
  ASSUME ForumShapes, ForumShapes', NEW f \in Feeds, FeedInv(f),
         UNCHANGED <<listing, title, resolved, plotTable, report, digest, backfilled, pageJob, walk>>,
         \A t \in Threads, x \in Plots : link'[t][x] = link[t][x] \/ link'[t][x] = "manual"
  PROVE  FeedInv(f)'
<1>1. \A ids : Matches(ids)' = Matches(ids)
  BY DEF Matches, Candidates
<1>2. \A u \in Threads : \A ids : LinksFor(u, ids) => LinksFor(u, ids)'
  BY <1>1 DEF LinksFor
<1>3. \A u \in Threads : ThreadInStep(f, u) => ThreadInStep(f, u)'
  BY <1>1 DEF ThreadInStep, ReportInStep, LinksInStep, Row, IsReportActive
<1>4. \A k \in DOMAIN listing[f] : OutOfStep(f, k)' => OutOfStep(f, k)
  <2> SUFFICES ASSUME NEW k \in DOMAIN listing[f], OutOfStep(f, k)' PROVE OutOfStep(f, k)
    OBVIOUS
  <2>1. PICK u \in Threads : u = listing[f][k]
    BY ListedAt
  <2>2. ThreadInStep(f, listing[f][k])' <=> ThreadInStep(f, u)'
    BY <2>1 DEF ThreadInStep, ReportInStep, LinksInStep
  <2> QED BY <1>3, <2>1, <2>2 DEF OutOfStep
<1>5. \A i, k : Unstored(f, i, k)' <=> Unstored(f, i, k)
  BY DEF Unstored, IsStored
<1>6. \A k : GapIsCovered(f, k)' <=> GapIsCovered(f, k)
  BY DEF GapIsCovered, Unstored, IsStored, JobReaches, Live, WalkRuns, BackfillIsDue,
     WalkHolds, WalkGoesOn, InHand
<1>7. GapsCovered(f)'
  BY <1>4, <1>6 DEF FeedInv, GapsCovered
<1>8. InHand' = InHand /\ (WalkRuns(f)' <=> WalkRuns(f)) /\ Listed(f)' = Listed(f)
  BY DEF InHand, WalkRuns, Listed
<1>9. HandIsTrue(f)'
  <2> SUFFICES ASSUME WalkRuns(f) PROVE HandIsTrue(f)'
    BY <1>8 DEF HandIsTrue
  <2>1. GapsAreNew(f) => GapsAreNew(f)'
    BY <1>4, <1>5, <1>8 DEF GapsAreNew, OutOfHand
  <2>2. PageIsAsRead(f) => PageIsAsRead(f)'
    BY <1>8 DEF PageIsAsRead, PageOf, LastPage
  <2>3. ASSUME NEW e \in walk.entries
        PROVE  /\ e.thread \in Threads
               /\ \E k \in DOMAIN listing[f] :
                    listing[f][k] = e.thread /\ k > (walk.page - 1) * PageSize
               /\ e = Entry(e.thread)
               /\ walk.phase # "fetched" => report[e.thread] = Row(f, e.resolved)
               /\ walk.phase = "digested" => LinksFor(e.thread, e.title)
    BY <2>3, ListedAt DEF FeedInv, HandIsTrue
  <2>4. \A e : Entry(e.thread)' = Entry(e.thread)
    BY DEF Entry
  <2>5. \A e : Row(f, e.resolved)' = Row(f, e.resolved)
    BY DEF Row, IsReportActive
  <2>6. \A e \in walk.entries : LinksFor(e.thread, e.title) => LinksFor(e.thread, e.title)'
    BY <1>2, <2>3
  <2>7. walk.phase = "digested" => digest[f][walk.page] = walk.entries
    BY DEF FeedInv, HandIsTrue
  <2>8. PageIsAsRead(f)' \/ GapsAreNew(f)'
    BY <2>1, <2>2 DEF FeedInv, HandIsTrue
  <2> QED BY <2>3, <2>4, <2>5, <2>6, <2>7, <2>8 DEF HandIsTrue
<1>10. SunkInStep(f)'
  <2> SUFFICES ASSUME digest[f][1] # NoDigest, NEW e \in digest[f][1], NEW k \in DOMAIN listing[f],
                      listing[f][k] = e.thread, k > PageSize
               PROVE  ThreadInStep(f, e.thread)'
    BY DEF SunkInStep
  <2>1. PICK u \in Threads : u = e.thread
    BY ListedAt
  <2>2. ThreadInStep(f, u)'
    BY <1>3, <2>1 DEF FeedInv, SunkInStep
  <2> QED BY <2>1, <2>2 DEF ThreadInStep, ReportInStep, LinksInStep
<1>11. DigestInStep(f)'
  <2> SUFFICES ASSUME f \in backfilled \/ \E m \in Pages \ {1} : Live(f, m),
                      pageJob[f][1] # "backfill", digest[f][1] # NoDigest,
                      NEW e \in digest[f][1], e.thread \in Listed(f)
               PROVE  \/ report[e.thread] = Row(f, e.resolved) /\ LinksFor(e.thread, e.title)'
                      \/ WalkRuns(f) /\ walk.phase = "stored" /\ walk.page = 1
                         /\ e.thread \in InHand
    BY <1>8 DEF DigestInStep, EntryInStep, Row, IsReportActive, Live
  <2>1. e.thread \in Threads
    BY ListedAt
  <2>2. LinksFor(e.thread, e.title) => LinksFor(e.thread, e.title)'
    BY <1>2, <2>1
  <2> QED BY <2>2 DEF FeedInv, DigestInStep, EntryInStep
<1> QED BY <1>7, <1>9, <1>10, <1>11 DEF FeedInv

(* A paste stores a thread the crawl has not read yet, on a feed of one     *)
(* page that is not being walked.                                           *)
LEMMA MirrorAfterPaste ==
  ASSUME ForumShapes, ForumShapes', ListedInv, NEW f \in Feeds, FeedInv(f),
         NEW t \in Threads, ~IsStored(t), Len(listing[f]) <= PageSize, ~WalkIn(f),
         UNCHANGED <<listing, title, resolved, plotTable, digest, backfilled, pageJob, walk>>,
         \A u \in Threads \ {t} : report'[u] = report[u] /\ link'[u] = link[u]
  PROVE  FeedInv(f)'
<1>0. ~WalkRuns(f) /\ ~WalkRuns(f)' /\ 1 \in Pages
  BY ForumNumbers DEF WalkIn, WalkRuns, Pages
<1>1. \A k \in DOMAIN listing[f] : ~(k > PageSize)
  BY ListedAt, ForumNumbers
<1>2. GapsCovered(f)' /\ SunkInStep(f)' /\ HandIsTrue(f)'
  BY <1>0, <1>1 DEF GapsCovered, OutOfStep, SunkInStep, HandIsTrue
<1>3. \A ids : Matches(ids)' = Matches(ids)
  BY DEF Matches, Candidates
<1>4. DigestInStep(f)'
  <2> SUFFICES ASSUME f \in backfilled \/ \E m \in Pages \ {1} : Live(f, m),
                      pageJob[f][1] # "backfill", digest[f][1] # NoDigest,
                      NEW e \in digest[f][1], e.thread \in Listed(f)
               PROVE  EntryInStep(f, e)'
    BY DEF DigestInStep, Live, Listed
  <2>1. e.thread \in Threads \ {t}
    BY <1>0, ListedAt DEF ListedInv
  <2>2. report'[e.thread] = report[e.thread] /\ link'[e.thread] = link[e.thread]
    BY <2>1
  <2>3. LinksFor(e.thread, e.title) => LinksFor(e.thread, e.title)'
    BY <1>3, <2>2 DEF LinksFor
  <2>4. EntryInStep(f, e)
    BY <1>0 DEF FeedInv, DigestInStep
  <2> QED BY <2>2, <2>3, <2>4 DEF EntryInStep, Row, IsReportActive
<1> QED BY <1>2, <1>4 DEF FeedInv

LEMMA MirrorAfterOperator ==
  ASSUME ForumShapes, ForumShapes', ListedInv, NEW f \in Feeds, FeedInv(f),
         OperatorStep, forumExcuses' = {}
  PROVE  FeedInv(f)'
<1>1. UNCHANGED <<listing, title, resolved, plotTable, digest, backfilled, pageJob, walk>>
  BY DEF OperatorStep, Unlink, Unassign, ReadForLink, Assign, FinishLink, upstreamForum, forumTables
<1>2. ASSUME NEW t \in Threads, NEW x \in Plots, Unlink(t, x) \/ Unassign(t, x) PROVE FALSE
  BY <1>2 DEF Unlink, Unassign
<1>3. ASSUME NEW t \in Threads, NEW x \in Plots, NEW v \in BOOLEAN, ReadForLink(t, x, v)
      PROVE  FeedInv(f)'
  <2>1. UNCHANGED <<report, link>>
    BY <1>3 DEF ReadForLink, forumTables
  <2> QED BY <1>1, <2>1, FeedUntouched
<1>4. ASSUME NEW t \in Threads, NEW id \in UNION Titles, Assign(t, id) PROVE FeedInv(f)'
  <2>1. PICK x \in Plots : link' = [link EXCEPT ![t][x] = "manual"]
    BY <1>4 DEF Assign
  <2>2. \A u \in Threads, y \in Plots : link'[u][y] = link[u][y] \/ link'[u][y] = "manual"
    BY <2>1 DEF ForumShapes, ForumTypeOK
  <2>3. UNCHANGED report
    BY <1>4 DEF Assign
  <2> QED BY <1>1, <2>2, <2>3, MirrorAfterManual
<1>5. ASSUME FinishLink PROVE FeedInv(f)'
  <2>1. PICK t : t = paste.thread
    OBVIOUS
  <2>2. /\ report' = [report EXCEPT ![t] = AfterPaste(@)]
        /\ link' = [link EXCEPT ![t] =
                      [x \in Plots |-> IF x \in paste.plots THEN "manual" ELSE @[x]]]
        /\ report[t] # NoReport => report'[t] = report[t]
        /\ report[t] = NoReport => \A g \in Feeds :
             t \in Listed(g) => ~(Len(listing[g]) > PageSize) /\ ~WalkIn(g)
    BY <1>5, <2>1 DEF FinishLink
  <2>3. t \in Threads
    BY <1>5, <2>1 DEF FinishLink, ForumShapes, Pastes, NoPaste
  <2>4. \A u \in Threads \ {t} : report'[u] = report[u] /\ link'[u] = link[u]
    BY <2>2 DEF ForumShapes, ForumTypeOK
  <2>5. CASE report[t] # NoReport
    <3>1. report' = report
      <4>1. \A u \in Threads : report'[u] = report[u]
        BY <2>2, <2>4, <2>5
      <4> QED BY <4>1 DEF ForumShapes, ForumTypeOK
    <3>2. \A u \in Threads, y \in Plots : link'[u][y] = link[u][y] \/ link'[u][y] = "manual"
      BY <2>2 DEF ForumShapes, ForumTypeOK
    <3> QED BY <1>1, <3>1, <3>2, MirrorAfterManual
  <2>6. CASE report[t] = NoReport /\ t \notin Listed(f)
    <3>1. \A u \in Listed(f) : report'[u] = report[u] /\ link'[u] = link[u]
      BY <2>4, <2>6, ListedAt
    <3> QED BY <1>1, <3>1, FeedUntouched
  <2>7. CASE report[t] = NoReport /\ t \in Listed(f)
    <3>1. Len(listing[f]) <= PageSize /\ ~WalkIn(f)
      <4>1. ~(Len(listing[f]) > PageSize) /\ ~WalkIn(f)
        BY <2>2, <2>7
      <4> QED BY <4>1, ListedAt, ForumNumbers
    <3>2. ~IsStored(t)
      BY <2>7 DEF IsStored
    <3> QED BY <1>1, <2>3, <2>4, <3>1, <3>2, MirrorAfterPaste
  <2> QED BY <2>5, <2>6, <2>7
<1> QED BY <1>2, <1>3, <1>4, <1>5 DEF OperatorStep

LEMMA MirrorStep ==
  /\ ForumShapes /\ ForumShapes' /\ EachOnce /\ ListedInv /\ ModeInv /\ MirrorInv
  /\ [ForumNext]_forumVars
  => MirrorInv'
<1> SUFFICES ASSUME ForumShapes, ForumShapes', EachOnce, ListedInv, ModeInv, MirrorInv,
                    [ForumNext]_forumVars, forumExcuses' = {}
             PROVE  MirrorInv'
  BY DEF MirrorInv
<1>0. forumExcuses = {} /\ \A f \in Feeds : FeedInv(f)
  BY ExcusesStay DEF MirrorInv
<1>1. CASE \/ \E t \in Threads : Post(t) \/ Archive(t) \/ Edit(t)
           \/ \E x \in Plots : IndexPlot(x)
  BY <1>1, MirrorAfterUpstream
<1> SUFFICES ASSUME NEW f \in Feeds, ~ \/ \E t \in Threads : Post(t) \/ Archive(t) \/ Edit(t)
                                       \/ \E x \in Plots : IndexPlot(x)
             PROVE  FeedInv(f)'
  BY <1>1 DEF MirrorInv
<1>2. CASE Coordinate
  BY <1>0, <1>2, MirrorAfterCoordinate
<1>3. ASSUME NEW g \in Feeds, NEW n \in Pages, Claim(g, n) PROVE FeedInv(f)'
  BY <1>0, <1>3, MirrorAfterClaim
<1>4. CASE WalkStep
  BY <1>0, <1>4, MirrorAfterStore, MirrorAfterRelink, MirrorAfterChain DEF WalkStep
<1>5. CASE CutPage
  BY <1>0, <1>5, MirrorAfterCut
<1>6. CASE OperatorStep
  BY <1>0, <1>6, MirrorAfterOperator
<1>7. CASE UNCHANGED forumVars
  BY <1>0, <1>7, FeedUntouched DEF forumVars, upstreamForum, forumTables
<1> QED BY <1>2, <1>3, <1>4, <1>5, <1>6, <1>7 DEF ForumNext

(* When the next check of a feed would change nothing, nothing covers a gap. *)
LEMMA SettledIsInStep ==
  ASSUME ForumShapes, EachOnce, ListedInv, NEW f \in Feeds, FeedInv(f), FeedSettled(f),
         NEW t \in Listed(f)
  PROVE  ThreadInStep(f, t)
<1>0. /\ f \in backfilled /\ ~WalkRuns(f) /\ \A m \in Pages : ~Live(f, m)
      /\ digest[f][1] = {Entry(u) : u \in PageOf(f, 1)} /\ digest[f][1] # NoDigest
      /\ 1 \in Pages /\ PageSize \in Nat \ {0} /\ (1 - 1) * PageSize = 0
  <2>1. 1 \in Pages /\ PageSize \in Nat \ {0} /\ (1 - 1) * PageSize = 0
    BY ForumNumbers DEF Pages
  <2>2. digest[f][1] = {Entry(u) : u \in PageOf(f, 1)}
    BY DEF FeedSettled
  <2>3. digest[f][1] # NoDigest
    BY <2>1, <2>2, EntriesOfAPage, ForumAssumption
  <2> QED BY <2>1, <2>2, <2>3 DEF FeedSettled, WalkIn, WalkRuns, Live
<1>1. PICK k \in DOMAIN listing[f] : listing[f][k] = t
  BY ListedAt
<1>2. k \in Nat \ {0}
  BY ListedAt
<1>3. CASE k > PageSize
  <2> SUFFICES ASSUME ~ThreadInStep(f, t) PROVE FALSE
    OBVIOUS
  <2>1. GapIsCovered(f, k)
    BY <1>1, <1>3 DEF FeedInv, GapsCovered, OutOfStep
  <2>2. Unstored(f, 0, k)
    BY <1>0, <2>1 DEF GapIsCovered, JobReaches, BackfillIsDue, WalkHolds, WalkGoesOn
  <2>3. PICK i \in DOMAIN listing[f] : listing[f][i] \in PageOf(f, 1) /\ 0 < i /\ i <= k
    <3>1. (1 - 1) * PageSize < k
      BY <1>0, <1>2
    <3>2. /\ (1 - 1) * PageSize + 1 \in DOMAIN listing[f]
          /\ listing[f][(1 - 1) * PageSize + 1] \in PageOf(f, 1)
          /\ (1 - 1) * PageSize + 1 <= k
      BY <1>0, <3>1, FirstOfPage
    <3>3. (1 - 1) * PageSize + 1 = 1
      BY <1>0
    <3> QED BY <3>2, <3>3
  <2>4. IsStored(listing[f][i])
    <3>1. Entry(listing[f][i]) \in digest[f][1] /\ Entry(listing[f][i]).thread = listing[f][i]
      BY <1>0, <2>3 DEF Entry
    <3> QED BY <1>0, <3>1 DEF ListedInv
  <2> QED BY <2>2, <2>3, <2>4 DEF Unstored
<1>4. CASE k <= PageSize
  <2>1. t \in PageOf(f, 1)
    <3>1. 1 * PageSize = PageSize
      BY <1>0
    <3>2. (1 - 1) * PageSize < k /\ k <= 1 * PageSize
      BY <1>0, <1>2, <1>4, <3>1
    <3> QED BY <1>0, <1>1, <3>2, PageAt
  <2>2. Entry(t) \in digest[f][1] /\ Entry(t).thread = t
    BY <1>0, <2>1 DEF Entry
  <2>3. EntryInStep(f, Entry(t))
    BY <1>0, <2>2 DEF FeedInv, DigestInStep, Live
  <2> QED BY <2>3, InStepForm DEF EntryInStep, Entry
<1> QED BY <1>0, <1>2, <1>3, <1>4

(* When the next tick would change nothing every thread listed is stored    *)
(* with its feed and activity and carries the links its title gives, for    *)
(* any listings, page sizes, orders of arrivals, edits, cuts and pastes -   *)
(* unless one of the named causes of a gap came about (handlers/forum.ts,   *)
(* app/regions/actions.ts, app/reports/actions.ts).                         *)
THEOREM ListedThreadsAreInStep == ForumSpec => []ForumGapsAreExcused
<1> DEFINE Inv == ForumShapes /\ EachOnce /\ ListedInv /\ ModeInv /\ MirrorInv
<1>1. ForumInit => Inv
  BY ShapesInit, OnceInit, ListedInit, ModeInit, MirrorInit
<1>2. Inv /\ [ForumNext]_forumVars => Inv'
  BY ShapesStep, OnceStep, ListedStep, ModeStep, MirrorStep
<1>3. Inv => ForumGapsAreExcused
  <2> SUFFICES ASSUME Inv, NEW f \in Feeds, FeedSettled(f), forumExcuses = {}, NEW t \in Listed(f)
               PROVE  /\ ThreadInStep(f, t)
                      /\ t \in ListReports("unmatched") => Matches(title[t]) = {}
    BY DEF ForumGapsAreExcused
  <2>1. ThreadInStep(f, t)
    BY SettledIsInStep DEF MirrorInv
  <2>2. Matches(title[t]) \subseteq Plots
    BY DEF Matches, Candidates, ForumShapes, ForumTypeOK
  <2>3. t \in ListReports("unmatched") => \A x \in Plots : link[t][x] = "none"
    BY DEF ListReports
  <2>4. \A x \in Plots : x \in Matches(title[t]) => link[t][x] # "none"
    BY <2>1 DEF ThreadInStep, LinksInStep
  <2> QED BY <2>1, <2>2, <2>3, <2>4
<1> QED BY <1>1, <1>2, <1>3, PTL DEF ForumSpec
=============================================================================
