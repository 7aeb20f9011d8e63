----------------------------- MODULE LibraryProofs -----------------------------
(***************************************************************************)
(* Proofs about Library for all constants.  The clean-up of duplicates     *)
(* comes first, then the folders of a photo root, then the people: for     *)
(* each part an inductive invariant, one lemma per action, and what        *)
(* follows.  Those of the documents are in DocumentsProofs.  At the end    *)
(* the library is shown to behave as each of its parts.                    *)
(***************************************************************************)
EXTENDS Library, DocumentsProofs, WellFoundedInduction

-------------------------------------------------------------------------------
\* An instance has operators of its own for the ones its module takes from the library.
LEMMA SameCounts ==
  /\ \A S : Tree!Cardinality(S) = Cardinality(S)
  /\ \A S : People!Cardinality(S) = Cardinality(S)
  /\ \A S : People!IsFiniteSet(S) <=> IsFiniteSet(S)
  BY DEF Tree!Cardinality, People!Cardinality, Cardinality, People!IsFiniteSet, IsFiniteSet

-------------------------------------------------------------------------------
(***************************************************************************)
(* Duplicate clean-up.  The photos in the hands of clean-ups are to be     *)
(* trashed, or were moved and are not yet marked so.  Of each picture in   *)
(* their hands there is a keeper: an active copy in its place that comes   *)
(* before all of them, and so is in no hands itself.                       *)
(***************************************************************************)
InHands(i) == \E w \in Cleaners : cleaner[w] # Cleanup!Idle /\ i \in cleaner[w].ids \cup cleaner[w].moved
InMoved(i) == \E w \in Cleaners : cleaner[w] # Cleanup!Idle /\ i \in cleaner[w].moved

Keeps(m, s) ==
  /\ m \in Cleanup!Group(s) /\ m \in onDisk
  /\ \A i \in Copies : InHands(i) /\ Sha[i] = s => Cleanup!Before(m, i)

Safe(s) ==
  /\ \E i \in onDisk : Sha[i] = s
  /\ Cleanup!Trashing(s) => \E m \in Copies : Keeps(m, s)

\* A photo without a SHA is in its place and in nobody's hands.
Fresh == \A i \in Copies : status[i] = "new" => i \in onDisk /\ ~InHands(i)

\* The file of an active photo is in its place, unless a cleanup is about to commit.
InPlace == \A i \in Copies : Cleanup!Active(i) /\ ~InMoved(i) => i \in onDisk

LooksEmpty == \A w \in Cleaners : cleaner[w].pc = "look" =>
                cleaner[w].ids = {} /\ cleaner[w].moved = {}

DInv == /\ Cleanup!TypeOK /\ Fresh /\ InPlace /\ LooksEmpty
        /\ \A s \in Cleanup!Shas \ upset : Safe(s)

-------------------------------------------------------------------------------
Work == [pc : {"look", "trash"}, job : Cleanup!Jobs, ids : SUBSET Copies, moved : SUBSET Copies,
         skipped : SUBSET Copies]

\* Of any photos one comes first.
LEMMA NatMin ==
  ASSUME NEW T \in SUBSET Nat, T # {}
  PROVE  \E x \in T : \A y \in T : x <= y
<1> DEFINE R == {ss \in Nat \X Nat : ss[1] < ss[2]}
<1>1. IsWellFoundedOn(R, Nat)
  BY NatLessThanWellFounded DEF OpToRel
<1> HIDE DEF R
<1>2. PICK x \in T : \A y \in T : ~(<<y, x>> \in R)
  BY <1>1, WFMin
<1>3. ASSUME NEW y \in T PROVE x <= y
  <2>1. <<y, x>> \notin R
    BY <1>2
  <2>2. ~(y < x)
    BY <2>1 DEF R
  <2>3. x \in Nat /\ y \in Nat
    OBVIOUS
  <2>4. QED
    BY <2>2, <2>3
<1>4. QED
  BY <1>3

LEMMA FirstCopy ==
  ASSUME Cleanup!DedupConstants, Cleanup!TypeOK, NEW T \in SUBSET Copies, T # {}
  PROVE  \E m \in T : \A i \in T : i = m \/ Cleanup!Before(m, i)
<1> DEFINE D == {taken[i] : i \in T}
<1>1. \A i \in Copies : i \in Nat /\ taken[i] \in Nat
  BY DEF Cleanup!DedupConstants, Cleanup!TypeOK
<1>2. D \in SUBSET Nat /\ D # {}
  BY <1>1
<1>3. PICK d \in D : \A e \in D : d <= e
  BY <1>2, NatMin
<1> DEFINE U == {i \in T : taken[i] = d}
<1>4. U \in SUBSET Nat /\ U # {}
  BY <1>1
<1>5. PICK m \in U : \A i \in U : m <= i
  BY <1>4, NatMin
<1>6. ASSUME NEW i \in T
      PROVE  i = m \/ Cleanup!Before(m, i)
  <2>1. m \in T /\ taken[m] = d /\ d <= taken[i] /\ (taken[i] = d => m <= i)
    BY <1>3, <1>5
  <2>2. QED
    BY <1>1, <2>1 DEF Cleanup!Before
<1>7. QED
  BY <1>5, <1>6

LEMMA BeforeOrder ==
  ASSUME Cleanup!DedupConstants, Cleanup!TypeOK, NEW i \in Copies, NEW j \in Copies, NEW k \in Copies
  PROVE  /\ ~Cleanup!Before(i, i)
         /\ Cleanup!Before(i, j) /\ Cleanup!Before(j, k) => Cleanup!Before(i, k)
<1>1. /\ i \in Nat /\ taken[i] \in Nat /\ j \in Nat /\ taken[j] \in Nat
      /\ k \in Nat /\ taken[k] \in Nat
  BY DEF Cleanup!DedupConstants, Cleanup!TypeOK
<1>2. QED
  BY <1>1 DEF Cleanup!Before

LEMMA HandsOfPicture ==
  ASSUME Cleanup!TypeOK, NEW s
  PROVE  Cleanup!Trashing(s) <=> \E i \in Copies : InHands(i) /\ Sha[i] = s
  BY DEF Cleanup!Trashing, InHands, Cleanup!TypeOK

LEMMA HandsAfterwards ==
  ASSUME Cleanup!TypeOK', NEW s
  PROVE  Cleanup!Trashing(s)' <=> \E i \in Copies : InHands(i)' /\ Sha[i] = s
  BY DEF Cleanup!Trashing, InHands, Cleanup!TypeOK

\* Who keeps a picture is in nobody's hands.
LEMMA KeeperFree ==
  ASSUME Cleanup!DedupConstants, Cleanup!TypeOK, NEW s, NEW m \in Copies, Keeps(m, s)
  PROVE  ~InHands(m) /\ Cleanup!Active(m) /\ Sha[m] = s /\ m \in onDisk
  BY BeforeOrder DEF Keeps, Cleanup!Group

\* A picture stays safe when no copy of it gets into other hands or another order,
\* and what is in no hands stays active and in its place.
LEMMA StaysSafe ==
  ASSUME Cleanup!DedupConstants, Cleanup!TypeOK, Cleanup!TypeOK', NEW s, Safe(s), Cleanup!Trashing(s) \/ ~Cleanup!Trashing(s)',
         Cleanup!Trashing(s) \/ \E i \in onDisk' : Sha[i] = s,
         \A i \in Copies : Sha[i] = s =>
           /\ InHands(i)' => InHands(i)
           /\ Cleanup!Trashing(s) => taken'[i] = taken[i]
           /\ Cleanup!Trashing(s) /\ Cleanup!Active(i) /\ ~InHands(i) =>
                status'[i] = "active" /\ (i \in onDisk => i \in onDisk')
  PROVE  Safe(s)'
<1>1. CASE ~Cleanup!Trashing(s)
  BY <1>1 DEF Safe
<1>2. CASE Cleanup!Trashing(s)
  <2>1. PICK m \in Copies : Keeps(m, s)
    BY <1>2 DEF Safe
  <2>2. ~InHands(m) /\ Cleanup!Active(m) /\ Sha[m] = s /\ m \in onDisk
    BY <2>1, KeeperFree
  <2>3. m \in onDisk' /\ status'[m] = "active"
    BY <1>2, <2>2
  <2>4. ASSUME NEW i \in Copies, InHands(i)', Sha[i] = s
        PROVE  Cleanup!Before(m, i)'
    <3>1. InHands(i) /\ taken'[i] = taken[i] /\ taken'[m] = taken[m]
      BY <1>2, <2>2, <2>4
    <3>2. Cleanup!Before(m, i)
      BY <2>1, <2>4, <3>1 DEF Keeps
    <3>3. QED
      BY <3>1, <3>2 DEF Cleanup!Before
  <2>5. Keeps(m, s)'
    BY <2>2, <2>3, <2>4 DEF Keeps, Cleanup!Group, Cleanup!Active
  <2>6. QED
    BY <2>2, <2>3, <2>5 DEF Safe
<1>3. QED
  BY <1>1, <1>2

-------------------------------------------------------------------------------
(***************************************************************************)
(* Steps that leave the photos and the hands alone.                        *)
(***************************************************************************)
LEMMA PhotosKept ==
  ASSUME Cleanup!DedupConstants, DInv, Cleanup!TypeOK', LooksEmpty',
         status' = status, onDisk' = onDisk, taken' = taken, upset' = upset,
         \A i \in Copies : (InHands(i)' <=> InHands(i)) /\ (InMoved(i)' <=> InMoved(i))
  PROVE  DInv'
<1>1. Fresh' /\ InPlace'
  BY DEF DInv, Fresh, InPlace, Cleanup!Active
<1>2. ASSUME NEW s \in Cleanup!Shas \ upset
      PROVE  Safe(s)'
  <2>1. Safe(s) /\ Cleanup!TypeOK
    BY DEF DInv
  <2>2. Cleanup!Trashing(s)' <=> Cleanup!Trashing(s)
    BY <2>1, HandsOfPicture, HandsAfterwards
  <2>3. QED
    BY <2>1, <2>2, StaysSafe DEF Safe, Cleanup!Active
<1>3. QED
  BY <1>1, <1>2 DEF DInv

\* A worker with nothing in its hands before and after.
LEMMA EmptyHands ==
  ASSUME Cleanup!TypeOK, NEW w \in Cleaners, NEW q, cleaner' = [cleaner EXCEPT ![w] = q],
         cleaner[w] # Cleanup!Idle => cleaner[w].ids = {} /\ cleaner[w].moved = {},
         q # Cleanup!Idle => q.ids = {} /\ q.moved = {}
  PROVE  \A i \in Copies : (InHands(i)' <=> InHands(i)) /\ (InMoved(i)' <=> InMoved(i))
<1>1. cleaner'[w] = q /\ \A v \in Cleaners : v # w => cleaner'[v] = cleaner[v]
  BY DEF Cleanup!TypeOK
<1>2. QED
  BY <1>1 DEF InHands, InMoved

LEMMA WorkerTypes ==
  ASSUME Cleanup!TypeOK, NEW w \in Cleaners
  PROVE  /\ cleaner[w] # Cleanup!Idle => cleaner[w] \in Work
         /\ cleaner[w].pc \in {"look", "trash"} => cleaner[w] # Cleanup!Idle /\ cleaner[w] \in Work
  BY DEF Cleanup!TypeOK, Work, Cleanup!Idle

LEMMA JobsStep ==
  ASSUME Cleanup!DedupConstants, DInv,
         \/ \E a \in Admins : Cleanup!StartLook(a) \/ Cleanup!StartEnqueue(a)
         \/ Cleanup!Cancel \/ UNCHANGED Cleanup!vars
  PROVE  DInv'
<1>1. Cleanup!TypeOK
  BY DEF DInv
<1>2. Cleanup!TypeOK'
  <2>1. ASSUME NEW a \in Admins, Cleanup!StartLook(a) \/ Cleanup!StartEnqueue(a)
        PROVE  asked' \subseteq Admins /\ (cleanup' = cleanup \/ \E j \in Cleanup!Jobs : cleanup' = [cleanup EXCEPT ![j] = "queued"])
    BY <1>1, <2>1 DEF Cleanup!StartLook, Cleanup!StartEnqueue, Cleanup!TypeOK
  <2>2. CASE Cleanup!Cancel
    BY <1>1, <2>2 DEF Cleanup!Cancel, Cleanup!TypeOK
  <2>3. CASE UNCHANGED Cleanup!vars
    BY <1>1, <2>3 DEF Cleanup!vars, Cleanup!TypeOK
  <2>4. ASSUME NEW a \in Admins, Cleanup!StartLook(a) \/ Cleanup!StartEnqueue(a)
        PROVE  Cleanup!TypeOK'
    BY <1>1, <2>1, <2>4 DEF Cleanup!StartLook, Cleanup!StartEnqueue, Cleanup!TypeOK
  <2>5. QED
    BY <2>2, <2>3, <2>4
<1>3. UNCHANGED <<status, onDisk, taken, cleaner, upset>>
  BY DEF Cleanup!StartLook, Cleanup!StartEnqueue, Cleanup!Cancel, Cleanup!vars
<1>4. LooksEmpty' /\ \A i \in Copies : (InHands(i)' <=> InHands(i)) /\ (InMoved(i)' <=> InMoved(i))
  BY <1>3 DEF DInv, LooksEmpty, InHands, InMoved
<1>5. QED
  BY <1>2, <1>3, <1>4, PhotosKept

LEMMA ClaimStep ==
  ASSUME Cleanup!DedupConstants, DInv, NEW w \in Cleaners, NEW j \in Cleanup!Jobs, Cleanup!Claim(w, j)
  PROVE  DInv'
<1> DEFINE q == [pc |-> "look", job |-> j, ids |-> {}, moved |-> {}, skipped |-> {}]
<1>1. Cleanup!TypeOK /\ q \in Work /\ q.ids = {} /\ q.moved = {}
  BY DEF DInv, Work
<1>2. cleaner' = [cleaner EXCEPT ![w] = q]
  BY DEF Cleanup!Claim
<1> HIDE DEF q
<1>3. cleaner' \in [Cleaners -> {Cleanup!Idle} \cup Work]
  BY <1>1, <1>2 DEF Cleanup!TypeOK, Work
<1>4. Cleanup!TypeOK'
  BY <1>1, <1>3 DEF Cleanup!TypeOK, Cleanup!Claim, Work
<1>5. LooksEmpty'
  BY <1>1, <1>2 DEF DInv, LooksEmpty, Cleanup!TypeOK
<1>6. \A i \in Copies : (InHands(i)' <=> InHands(i)) /\ (InMoved(i)' <=> InMoved(i))
  BY <1>1, <1>2, EmptyHands DEF Cleanup!Claim
<1>7. QED
  BY <1>4, <1>5, <1>6, PhotosKept DEF Cleanup!Claim

\* A cleanup that ends has nothing in its hands.
LEMMA EndsStep ==
  ASSUME Cleanup!DedupConstants, DInv, NEW w \in Cleaners, NEW how \in {"done", "failed"}, Cleanup!Ends(w, how),
         cleaner[w] # Cleanup!Idle, cleaner[w].ids = {}, cleaner[w].moved = {},
         UNCHANGED <<status, onDisk, taken, asked, upset>>, quiet' \subseteq Cleaners
  PROVE  DInv'
<1>1. Cleanup!TypeOK
  BY DEF DInv
<1>2. cleaner' \in [Cleaners -> {Cleanup!Idle} \cup Work]
  BY <1>1 DEF Cleanup!TypeOK, Cleanup!Ends, Work
<1>3. cleanup' \in [Cleanup!Jobs -> {"none", "queued", "running", "done", "failed", "cancelled"}]
  BY <1>1 DEF Cleanup!TypeOK, Cleanup!Ends
<1>4. Cleanup!TypeOK'
  BY <1>1, <1>2, <1>3 DEF Cleanup!TypeOK, Work
<1>5. LooksEmpty'
  <2>1. \A v \in Cleaners : cleaner'[v] = cleaner[v] \/ cleaner'[v] = Cleanup!Idle
    BY <1>1 DEF Cleanup!TypeOK, Cleanup!Ends
  <2>2. QED
    BY <2>1 DEF DInv, LooksEmpty, Cleanup!Idle
<1>6. \A i \in Copies : (InHands(i)' <=> InHands(i)) /\ (InMoved(i)' <=> InMoved(i))
  BY <1>1, EmptyHands DEF Cleanup!Ends
<1>7. QED
  BY <1>4, <1>5, <1>6, PhotosKept

-------------------------------------------------------------------------------
(***************************************************************************)
(* A round: the groups are looked at, photos are moved, rows are written.  *)
(***************************************************************************)
LEMMA LookStep ==
  ASSUME Cleanup!DedupConstants, DInv, NEW w \in Cleaners, Cleanup!Look(w)
  PROVE  DInv'
<1>1. Cleanup!TypeOK /\ cleaner[w] # Cleanup!Idle /\ cleaner[w] \in Work /\ cleaner[w].ids = {} /\ cleaner[w].moved = {}
  BY WorkerTypes DEF DInv, Cleanup!Look, LooksEmpty
<1>2. CASE cleanup[cleaner[w].job] = "cancelled" \/ Cleanup!Rest = {}
  BY <1>1, <1>2, EndsStep DEF Cleanup!Look, Cleanup!TypeOK
<1>3. CASE ~(cleanup[cleaner[w].job] = "cancelled" \/ Cleanup!Rest = {})
  <2> DEFINE q == [cleaner[w] EXCEPT !.pc = "trash", !.ids = Cleanup!Rest]
  <2>1. cleaner' = [cleaner EXCEPT ![w] = q] /\ quiet' = quiet \cup {w}
        /\ UNCHANGED <<status, onDisk, taken, asked, upset, cleanup>>
    BY <1>3 DEF Cleanup!Look
  <2>2. Cleanup!Rest \subseteq Copies
    BY DEF Cleanup!Rest
  <2>3. q \in Work /\ q # Cleanup!Idle /\ q.ids = Cleanup!Rest /\ q.moved = {} /\ q.pc = "trash"
    BY <1>1, <2>2 DEF Work, Cleanup!Idle
  <2> HIDE DEF q
  <2>4. cleaner'[w] = q /\ \A v \in Cleaners : v # w => cleaner'[v] = cleaner[v]
    BY <1>1, <2>1 DEF Cleanup!TypeOK
  <2>5. cleaner' \in [Cleaners -> {Cleanup!Idle} \cup Work]
    BY <1>1, <2>1, <2>3 DEF Cleanup!TypeOK, Work
  <2>6. Cleanup!TypeOK'
    BY <1>1, <2>1, <2>5 DEF Cleanup!TypeOK, Work
  <2>7. \A i \in Copies : /\ InHands(i)' <=> InHands(i) \/ i \in Cleanup!Rest
                          /\ InMoved(i)' <=> InMoved(i)
    BY <1>1, <2>3, <2>4 DEF InHands, InMoved
  <2>8. LooksEmpty'
    BY <2>3, <2>4 DEF DInv, LooksEmpty
  <2>9. Fresh' /\ InPlace'
    <3>1. \A i \in Cleanup!Rest : status[i] = "active"
      BY DEF Cleanup!Rest, Cleanup!Active
    <3>2. QED
      BY <2>1, <2>7, <3>1 DEF DInv, Fresh, InPlace, Cleanup!Active
  <2>10. ASSUME NEW s \in Cleanup!Shas \ upset
         PROVE  Safe(s)'
    <3>1. Safe(s)
      BY DEF DInv
    <3>2. CASE \A i \in Cleanup!Rest : Sha[i] # s
      <4>1. \A i \in Copies : Sha[i] = s => (InHands(i)' <=> InHands(i))
        BY <2>7, <3>2
      <4>2. Cleanup!Trashing(s)' <=> Cleanup!Trashing(s)
        BY <1>1, <2>6, <4>1, HandsOfPicture, HandsAfterwards
      <4>3. QED
        BY <1>1, <2>1, <2>6, <3>1, <4>1, <4>2, StaysSafe DEF Safe, Cleanup!Active
    <3>3. CASE \E i \in Cleanup!Rest : Sha[i] = s
      <4>1. PICK x \in Cleanup!Rest : Sha[x] = s
        BY <3>3
      <4>2. Cleanup!Group(s) \in SUBSET Copies /\ x \in Cleanup!Group(s) /\ s \in Cleanup!FirstPage
        BY <4>1 DEF Cleanup!Rest, Cleanup!Group
      <4>3. PICK m \in Cleanup!Group(s) : \A i \in Cleanup!Group(s) : i = m \/ Cleanup!Before(m, i)
        BY <1>1, <4>2, FirstCopy
      <4>4. m \in Copies /\ Cleanup!Active(m) /\ Sha[m] = s
        BY <4>3 DEF Cleanup!Group
      <4>5. m \notin Cleanup!Rest
        <5>1. \A j \in Cleanup!Group(s) : ~Cleanup!Before(j, m)
          <6>1. ASSUME NEW j \in Cleanup!Group(s), Cleanup!Before(j, m)
                PROVE  FALSE
            <7>1. j \in Copies /\ Cleanup!Before(m, m)
              BY <1>1, <4>3, <4>4, <6>1, BeforeOrder DEF Cleanup!Group
            <7>2. QED
              BY <1>1, <4>4, <7>1, BeforeOrder
          <6>2. QED
            BY <6>1
        <5>2. QED
          BY <4>4, <5>1 DEF Cleanup!Rest
      <4>6. \A i \in Copies : InHands(i) /\ Sha[i] = s => Cleanup!Before(m, i)
        <5>1. SUFFICES ASSUME NEW i \in Copies, InHands(i), Sha[i] = s
                       PROVE  Cleanup!Before(m, i)
          OBVIOUS
        <5>2. PICK k \in Copies : Keeps(k, s)
          BY <1>1, <3>1, <5>1, HandsOfPicture DEF Safe
        <5>3. k \in Cleanup!Group(s) /\ Cleanup!Before(k, i)
          BY <5>1, <5>2 DEF Keeps
        <5>4. QED
          BY <1>1, <4>3, <4>4, <5>1, <5>2, <5>3, BeforeOrder
      <4>7. ~InHands(m)
        BY <1>1, <4>4, <4>6, BeforeOrder
      <4>8. m \in onDisk
        BY <4>4, <4>7 DEF DInv, InPlace, InHands, InMoved
      <4>9. \A i \in Cleanup!Rest : Sha[i] = s => Cleanup!Before(m, i)
        <5>1. \A i \in Cleanup!Rest : Sha[i] = s => i \in Cleanup!Group(s)
          BY DEF Cleanup!Rest, Cleanup!Group
        <5>2. QED
          BY <4>3, <4>5, <5>1
      <4>10. \A i \in Copies : InHands(i)' /\ Sha[i] = s => Cleanup!Before(m, i)
        BY <2>7, <4>6, <4>9
      <4>11. Keeps(m, s)'
        BY <2>1, <4>4, <4>8, <4>10 DEF Keeps, Cleanup!Group, Cleanup!Active, Cleanup!Before
      <4>12. QED
        BY <2>1, <4>4, <4>8, <4>11 DEF Safe
    <3>4. QED
      BY <3>2, <3>3
  <2>11. QED
    BY <2>1, <2>6, <2>8, <2>9, <2>10 DEF DInv
<1>4. QED
  BY <1>2, <1>3

LEMMA MoveStep ==
  ASSUME Cleanup!DedupConstants, DInv, NEW w \in Cleaners, NEW i \in Copies, Cleanup!Move(w, i)
  PROVE  DInv'
<1>1. Cleanup!TypeOK /\ cleaner[w] # Cleanup!Idle /\ cleaner[w] \in Work /\ i \in cleaner[w].ids
  BY WorkerTypes DEF DInv, Cleanup!Move
<1>2. PICK q \in Work :
        /\ cleaner' = [cleaner EXCEPT ![w] = q]
        /\ q.pc = "trash" /\ q.ids = cleaner[w].ids \ {i}
        /\ q.moved = IF Cleanup!Blocked(i) THEN cleaner[w].moved ELSE cleaner[w].moved \cup {i}
  <2> DEFINE q == [cleaner[w] EXCEPT !.ids = @ \ {i},
                     !.moved = IF Cleanup!Blocked(i) THEN @ ELSE @ \cup {i},
                     !.skipped = IF Cleanup!Blocked(i) THEN @ \cup {i} ELSE @]
  <2>1. q \in Work /\ q.pc = "trash" /\ q.ids = cleaner[w].ids \ {i}
        /\ q.moved = IF Cleanup!Blocked(i) THEN cleaner[w].moved ELSE cleaner[w].moved \cup {i}
    <3>1. cleaner[w].pc = "trash"
      BY DEF Cleanup!Move
    <3>2. CASE Cleanup!Blocked(i)
      BY <1>1, <3>1, <3>2 DEF Work
    <3>3. CASE ~Cleanup!Blocked(i)
      BY <1>1, <3>1, <3>3 DEF Work
    <3>4. QED
      BY <3>2, <3>3
  <2>2. cleaner' = [cleaner EXCEPT ![w] = q]
    BY DEF Cleanup!Move
  <2> HIDE DEF q
  <2>3. QED
    BY <2>1, <2>2
<1>3. q # Cleanup!Idle /\ cleaner'[w] = q /\ \A v \in Cleaners : v # w => cleaner'[v] = cleaner[v]
  BY <1>1, <1>2 DEF Cleanup!TypeOK, Cleanup!Idle
<1>4. /\ UNCHANGED <<status, taken, cleanup, asked, upset>> /\ quiet' \subseteq Cleaners
      /\ onDisk' = IF Cleanup!Blocked(i) THEN onDisk ELSE onDisk \ {i}
  BY DEF Cleanup!Move
<1>5. Cleanup!TypeOK'
  <2>1. cleaner' \in [Cleaners -> {Cleanup!Idle} \cup Work]
    BY <1>1, <1>2 DEF Cleanup!TypeOK, Work
  <2>2. QED
    BY <1>1, <1>4, <2>1 DEF Cleanup!TypeOK, Work
<1>6. InHands(i)
  BY <1>1 DEF InHands
<1>7. \A j \in Copies : InHands(j)' => InHands(j)
  BY <1>1, <1>2, <1>3 DEF InHands
<1>8. \A j \in Copies : InMoved(j) \/ (j = i /\ ~Cleanup!Blocked(i)) => InMoved(j)'
  BY <1>1, <1>2, <1>3 DEF InMoved
<1>9. LooksEmpty'
  BY <1>2, <1>3 DEF DInv, LooksEmpty
<1>10. Fresh' /\ InPlace'
  BY <1>4, <1>6, <1>7, <1>8 DEF DInv, Fresh, InPlace, Cleanup!Active
<1>11. ASSUME NEW s \in Cleanup!Shas \ upset
       PROVE  Safe(s)'
  <2>1. Safe(s)
    BY DEF DInv
  <2>2. Cleanup!Trashing(s)' => Cleanup!Trashing(s)
    BY <1>1, <1>5, <1>7, HandsOfPicture, HandsAfterwards
  <2>3. Cleanup!Trashing(s) \/ \E j \in onDisk' : Sha[j] = s
    <3>1. CASE Sha[i] = s
      BY <1>1, <1>6, <3>1, HandsOfPicture
    <3>2. CASE Sha[i] # s
      BY <1>4, <2>1, <3>2 DEF Safe
    <3>3. QED
      BY <3>1, <3>2
  <2>4. \A j \in Copies : ~InHands(j) /\ j \in onDisk => j \in onDisk'
    BY <1>4, <1>6
  <2>5. QED
    BY <1>1, <1>4, <1>5, <1>7, <2>1, <2>2, <2>3, <2>4, StaysSafe DEF Cleanup!Active
<1>12. QED
  BY <1>4, <1>5, <1>9, <1>10, <1>11 DEF DInv

LEMMA CommitStep ==
  ASSUME Cleanup!DedupConstants, DInv, NEW w \in Cleaners, Cleanup!Commit(w)
  PROVE  DInv'
<1> DEFINE old == cleaner[w]
<1>1. Cleanup!TypeOK /\ old # Cleanup!Idle /\ old \in Work /\ old.pc = "trash" /\ old.ids = {}
  BY WorkerTypes DEF DInv, Cleanup!Commit
<1>2. /\ status' = [i \in Copies |-> IF i \in old.moved THEN "trashed" ELSE status[i]]
      /\ UNCHANGED <<onDisk, taken, asked, upset>> /\ quiet' \subseteq Cleaners
  BY <1>1 DEF Cleanup!Commit, Cleanup!TypeOK
<1>3. /\ cleanup' \in [Cleanup!Jobs -> {"none", "queued", "running", "done", "failed", "cancelled"}]
      /\ \E q \in {Cleanup!Idle} \cup Work :
           /\ cleaner' = [cleaner EXCEPT ![w] = q]
           /\ q = Cleanup!Idle \/ (q.pc = "look" /\ q.ids = {} /\ q.moved = {})
  <2>1. ASSUME NEW how \in {"done", "failed"}, Cleanup!Ends(w, how)
        PROVE  /\ cleanup' \in [Cleanup!Jobs -> {"none", "queued", "running", "done", "failed", "cancelled"}]
               /\ cleaner' = [cleaner EXCEPT ![w] = Cleanup!Idle]
    BY <1>1, <2>1 DEF Cleanup!Ends, Cleanup!TypeOK
  <2> DEFINE q == [old EXCEPT !.pc = "look", !.moved = {}, !.skipped = {}]
  <2>2. q \in Work /\ q.pc = "look" /\ q.ids = {} /\ q.moved = {}
    BY <1>1 DEF Work
  <2>3. Cleanup!Ends(w, "done") \/ Cleanup!Ends(w, "failed") \/ (cleaner' = [cleaner EXCEPT ![w] = q] /\ cleanup' = cleanup)
    BY DEF Cleanup!Commit
  <2> HIDE DEF q
  <2>4. CASE cleaner' = [cleaner EXCEPT ![w] = q] /\ cleanup' = cleanup
    BY <1>1, <2>2, <2>4 DEF Cleanup!TypeOK
  <2>5. QED
    BY <2>1, <2>3, <2>4
<1>4. PICK q \in {Cleanup!Idle} \cup Work :
        /\ cleaner' = [cleaner EXCEPT ![w] = q]
        /\ q = Cleanup!Idle \/ (q.pc = "look" /\ q.ids = {} /\ q.moved = {})
  BY <1>3
<1>5. cleaner'[w] = q /\ \A v \in Cleaners : v # w => cleaner'[v] = cleaner[v]
  BY <1>1, <1>4 DEF Cleanup!TypeOK
<1>6. Cleanup!TypeOK'
  <2>1. cleaner' \in [Cleaners -> {Cleanup!Idle} \cup Work]
    BY <1>1, <1>4 DEF Cleanup!TypeOK, Work
  <2>2. status' \in [Copies -> {"new", "active", "trashed"}]
    BY <1>1, <1>2 DEF Cleanup!TypeOK
  <2>3. QED
    BY <1>1, <1>2, <1>3, <2>1, <2>2 DEF Cleanup!TypeOK, Work
<1>7. \A i \in Copies : /\ InHands(i)' => InHands(i)
                        /\ InMoved(i) => InMoved(i)' \/ i \in old.moved
                        /\ i \in old.moved => InHands(i)
  BY <1>1, <1>4, <1>5 DEF InHands, InMoved
<1>8. LooksEmpty'
  BY <1>4, <1>5 DEF DInv, LooksEmpty, Cleanup!Idle
<1>9. Fresh' /\ InPlace'
  <2>1. \A i \in Copies : status'[i] = IF i \in old.moved THEN "trashed" ELSE status[i]
    BY <1>2
  <2>2. Fresh'
    BY <1>2, <1>7, <2>1 DEF DInv, Fresh
  <2>3. InPlace'
    BY <1>2, <1>7, <2>1 DEF DInv, InPlace, Cleanup!Active
  <2>4. QED
    BY <2>2, <2>3
<1>10. ASSUME NEW s \in Cleanup!Shas \ upset
       PROVE  Safe(s)'
  <2>1. Safe(s)
    BY DEF DInv
  <2>2. Cleanup!Trashing(s)' => Cleanup!Trashing(s)
    BY <1>1, <1>6, <1>7, HandsOfPicture, HandsAfterwards
  <2>3. \A i \in Copies : Cleanup!Active(i) /\ ~InHands(i) => status'[i] = "active"
    BY <1>2, <1>7 DEF Cleanup!Active
  <2>4. \E i \in onDisk' : Sha[i] = s
    BY <1>2, <2>1 DEF Safe
  <2>5. QED
    BY <1>1, <1>2, <1>6, <1>7, <2>1, <2>2, <2>3, <2>4, StaysSafe
<1>11. QED
  BY <1>2, <1>6, <1>8, <1>9, <1>10 DEF DInv

-------------------------------------------------------------------------------
(***************************************************************************)
(* What others do to the photos.                                           *)
(***************************************************************************)
LEMMA OthersStep ==
  ASSUME Cleanup!DedupConstants, DInv, Cleanup!TypeOK', cleaner' = cleaner, upset \subseteq upset',
         NEW i \in Copies, \A j \in Copies : j # i => status'[j] = status[j] /\ taken'[j] = taken[j],
         onDisk' \subseteq onDisk, onDisk \ {i} \subseteq onDisk',
         status'[i] # "trashed" => i \in onDisk' \/ i \notin onDisk,
         status'[i] = "new" => status[i] = "new",
         status'[i] = "active" => status[i] \in {"new", "active"},
         Sha[i] \notin upset' => Safe(Sha[i])'
  PROVE  DInv'
<1>1. Cleanup!TypeOK
  BY DEF DInv
<1>2. LooksEmpty' /\ \A j \in Copies : (InHands(j)' <=> InHands(j)) /\ (InMoved(j)' <=> InMoved(j))
  BY DEF DInv, LooksEmpty, InHands, InMoved
<1>3. Fresh'
  BY <1>2 DEF DInv, Fresh
<1>4. InPlace'
  BY <1>2 DEF DInv, InPlace, Fresh, Cleanup!Active, InHands, InMoved
<1>5. ASSUME NEW s \in Cleanup!Shas \ upset', s # Sha[i]
      PROVE  Safe(s)'
  <2>1. Safe(s)
    BY DEF DInv
  <2>2. Cleanup!Trashing(s)' <=> Cleanup!Trashing(s)
    BY DEF Cleanup!Trashing
  <2>3. \E j \in onDisk' : Sha[j] = s
    BY <1>5, <2>1 DEF Safe
  <2>4. \A j \in Copies : Sha[j] = s => j # i
    BY <1>5
  <2>5. QED
    BY <1>1, <1>2, <2>1, <2>2, <2>3, <2>4, StaysSafe DEF Cleanup!Active
<1>6. QED
  BY <1>2, <1>3, <1>4, <1>5 DEF DInv

LEMMA IndexStep ==
  ASSUME Cleanup!DedupConstants, DInv, NEW i \in Copies, Cleanup!IndexKeeps(i) \/ Cleanup!IndexTrashes(i)
  PROVE  DInv'
<1> DEFINE s == Sha[i]
<1>1. Cleanup!TypeOK /\ status[i] = "new" /\ i \in onDisk /\ ~InHands(i)
  BY DEF DInv, Fresh, Cleanup!IndexKeeps, Cleanup!IndexTrashes
<1>2. UNCHANGED <<taken, cleanup, asked, cleaner, upset>> /\ quiet' = {}
  BY DEF Cleanup!IndexKeeps, Cleanup!IndexTrashes
<1>3. PICK new \in {"active", "trashed"} : status' = [status EXCEPT ![i] = new]
                                       /\ onDisk' = IF new = "active" THEN onDisk ELSE onDisk \ {i}
  BY DEF Cleanup!IndexKeeps, Cleanup!IndexTrashes
<1>4. Cleanup!TypeOK'
  BY <1>1, <1>2, <1>3 DEF Cleanup!TypeOK
<1>5. status'[i] = new /\ \A j \in Copies : j # i => status'[j] = status[j]
  BY <1>1, <1>3 DEF Cleanup!TypeOK
<1>6. ASSUME s \notin upset
      PROVE  Safe(s)'
  <2>1. Safe(s)
    BY <1>6 DEF DInv, Cleanup!Shas
  <2>2. Cleanup!Trashing(s)' <=> Cleanup!Trashing(s)
    BY <1>2 DEF Cleanup!Trashing
  <2>3. Cleanup!Trashing(s) \/ \E j \in onDisk' : Sha[j] = s
    <3>1. CASE Cleanup!IndexKeeps(i)
      BY <2>1, <3>1 DEF Cleanup!IndexKeeps, Safe
    <3>2. CASE Cleanup!IndexTrashes(i) /\ ~Cleanup!Trashing(s)
      <4>1. PICK j \in Cleanup!Group(s) : j < i
        BY <3>2 DEF Cleanup!IndexTrashes
      <4>2. j \in Copies /\ Cleanup!Active(j) /\ Sha[j] = s /\ j # i
        BY <1>1, <4>1 DEF Cleanup!Group, Cleanup!Active
      <4>3. ~InMoved(j)
        BY <1>1, <3>2, <4>2, HandsOfPicture DEF InMoved, InHands
      <4>4. j \in onDisk
        BY <4>2, <4>3 DEF DInv, InPlace
      <4>5. QED
        BY <1>3, <4>2, <4>4
    <3>3. QED
      BY <3>1, <3>2
  <2>4. \A j \in Copies : InHands(j)' <=> InHands(j)
    BY <1>2 DEF InHands
  <2>5. \A j \in Copies : Cleanup!Active(j) => status'[j] = "active" /\ (j \in onDisk => j \in onDisk')
    BY <1>1, <1>3, <1>5 DEF Cleanup!Active
  <2>6. QED
    BY <1>1, <1>2, <1>4, <2>1, <2>2, <2>3, <2>4, <2>5, StaysSafe
<1>7. QED
  BY <1>1, <1>2, <1>3, <1>4, <1>5, <1>6, OthersStep

LEMMA UserStep ==
  ASSUME Cleanup!DedupConstants, DInv, NEW i \in Copies,
         Cleanup!UserTrash(i) \/ \E d \in Days : Cleanup!SetTaken(i, d)
  PROVE  DInv'
<1> DEFINE s == Sha[i]
<1>1. Cleanup!TypeOK /\ status[i] = "active"
  BY DEF DInv, Cleanup!UserTrash, Cleanup!SetTaken, Cleanup!Active
<1>2. UNCHANGED <<cleanup, asked, cleaner>> /\ quiet' = {}
  BY DEF Cleanup!UserTrash, Cleanup!SetTaken
<1>3. upset' \subseteq Cleanup!Shas /\ upset \subseteq upset' /\ (s \notin upset' => ~Cleanup!Trashing(s) /\ s \notin upset)
  BY <1>1 DEF Cleanup!UserTrash, Cleanup!SetTaken, Cleanup!Upset, Cleanup!TypeOK, Cleanup!Shas
<1>4. Cleanup!TypeOK'
  <2>1. CASE Cleanup!UserTrash(i)
    BY <1>1, <1>2, <1>3, <2>1 DEF Cleanup!UserTrash, Cleanup!TypeOK
  <2>2. ASSUME NEW d \in Days, Cleanup!SetTaken(i, d)
        PROVE  Cleanup!TypeOK'
    BY <1>1, <1>2, <1>3, <2>2 DEF Cleanup!SetTaken, Cleanup!TypeOK
  <2>3. QED
    BY <2>1, <2>2
<1>5. \A j \in Copies : j # i => status'[j] = status[j] /\ taken'[j] = taken[j]
  BY <1>1 DEF Cleanup!UserTrash, Cleanup!SetTaken, Cleanup!TypeOK
<1>6. \/ status'[i] = "trashed" /\ onDisk' = onDisk \ {i}
      \/ status'[i] = "active" /\ onDisk' = onDisk
  BY <1>1 DEF Cleanup!UserTrash, Cleanup!SetTaken, Cleanup!TypeOK
<1>7. ASSUME s \notin upset'
      PROVE  Safe(s)'
  <2>1. Safe(s) /\ ~Cleanup!Trashing(s)
    BY <1>3, <1>7 DEF DInv, Cleanup!Shas
  <2>2. ~Cleanup!Trashing(s)'
    BY <1>2, <2>1 DEF Cleanup!Trashing
  <2>3. \E j \in onDisk' : Sha[j] = s
    <3>1. CASE Cleanup!UserTrash(i)
      BY <1>7, <3>1 DEF Cleanup!UserTrash, Cleanup!Upset
    <3>2. CASE \E d \in Days : Cleanup!SetTaken(i, d)
      BY <2>1, <3>2 DEF Cleanup!SetTaken, Safe
    <3>3. QED
      BY <3>1, <3>2
  <2>4. QED
    BY <2>2, <2>3 DEF Safe
<1>8. QED
  BY <1>1, <1>2, <1>3, <1>4, <1>5, <1>6, <1>7, OthersStep

-------------------------------------------------------------------------------
LEMMA InitDInv == Cleanup!DedupConstants /\ Cleanup!Init => DInv
<1> SUFFICES ASSUME Cleanup!DedupConstants, Cleanup!Init PROVE DInv
  OBVIOUS
<1>1. Cleanup!TypeOK
  BY DEF Cleanup!Init, Cleanup!TypeOK
<1>2. Fresh /\ InPlace /\ LooksEmpty
  BY DEF Cleanup!Init, Fresh, InPlace, LooksEmpty, InHands, Cleanup!Idle
<1>3. ASSUME NEW s \in Cleanup!Shas PROVE Safe(s)
  BY <1>3 DEF Cleanup!Init, Safe, Cleanup!Trashing, Cleanup!Shas
<1>4. QED
  BY <1>1, <1>2, <1>3 DEF DInv

LEMMA StepDInv == Cleanup!DedupConstants /\ DInv /\ [Cleanup!Next]_(Cleanup!vars) => DInv'
  BY JobsStep, ClaimStep, LookStep, MoveStep, CommitStep, IndexStep, UserStep DEF Cleanup!Next

THEOREM DedupHolds ==
  ASSUME Cleanup!DedupConstants
  PROVE  Cleanup!Spec => []DInv
<1>1. Cleanup!Init => DInv
  BY InitDInv
<1>2. DInv /\ [Cleanup!Next]_(Cleanup!vars) => DInv'
  BY StepDInv
<1>3. QED
  BY <1>1, <1>2, PTL DEF Cleanup!Spec

\* Photos, jobs and cleanups keep their types.
THEOREM DedupTypes ==
  ASSUME Cleanup!DedupConstants
  PROVE  Cleanup!Spec => []Cleanup!TypeOK
<1>1. DInv => Cleanup!TypeOK
  BY DEF DInv
<1>2. QED
  BY <1>1, DedupHolds, PTL

\* A copy of each picture stays in its place, unless a user trashed or re-dated one
\* while a cleanup had its copies in its hands, or trashed the last.
THEOREM CopiesStay ==
  ASSUME Cleanup!DedupConstants
  PROVE  Cleanup!Spec => []Cleanup!CopyStays
<1>1. DInv => Cleanup!CopyStays
  BY DEF DInv, Safe, Cleanup!CopyStays
<1>2. QED
  BY <1>1, DedupHolds, PTL

-------------------------------------------------------------------------------
(***************************************************************************)
(* What a cleanup that nobody disturbed knows when it commits: the copies  *)
(* to be trashed are those it has looked at, and what it skipped it cannot *)
(* move.                                                                   *)
(***************************************************************************)
CalmKnows ==
  \A w \in quiet : cleaner[w].pc = "trash" =>
    Cleanup!Rest \subseteq cleaner[w].ids \cup cleaner[w].moved \cup cleaner[w].skipped

SkipsBlocked ==
  \A w \in Cleaners : cleaner[w] # Cleanup!Idle => \A i \in cleaner[w].skipped : Cleanup!Blocked(i)

LEMMA KnownStep ==
  ASSUME DInv, DInv', [Cleanup!Next]_(Cleanup!vars), CalmKnows, SkipsBlocked
  PROVE  CalmKnows' /\ SkipsBlocked'
<1>1. Cleanup!TypeOK
  BY DEF DInv
<1>2. \A i \in Copies : Cleanup!Blocked(i) => Cleanup!Blocked(i)'
  BY DEF Cleanup!Next, Cleanup!StartLook, Cleanup!StartEnqueue, Cleanup!Cancel, Cleanup!Look,
     Cleanup!Commit, Cleanup!Claim, Cleanup!Move, Cleanup!IndexKeeps,
     Cleanup!IndexTrashes, Cleanup!UserTrash, Cleanup!SetTaken, Cleanup!vars, Cleanup!Blocked
<1>3. ASSUME UNCHANGED <<status, taken>>
      PROVE  Cleanup!Rest' = Cleanup!Rest
  BY <1>3 DEF Cleanup!Rest, Cleanup!FirstPage, Cleanup!Group, Cleanup!Active, Cleanup!Before
<1>4. CASE UNCHANGED <<status, taken, cleaner, quiet>>
  BY <1>1, <1>2, <1>3, <1>4, WorkerTypes DEF CalmKnows, SkipsBlocked, Work
<1>5. ASSUME NEW w \in Cleaners, NEW q,
             cleaner' = [cleaner EXCEPT ![w] = q],
             q # Cleanup!Idle => \A i \in q.skipped : i \in Copies /\ Cleanup!Blocked(i)',
             \A v \in quiet' \ {w} : v \in quiet /\ UNCHANGED <<status, taken>>,
             w \in quiet' /\ q.pc = "trash" => Cleanup!Rest' \subseteq q.ids \cup q.moved \cup q.skipped
      PROVE  CalmKnows' /\ SkipsBlocked'
  <2>1. cleaner'[w] = q /\ \A v \in Cleaners : v # w => cleaner'[v] = cleaner[v]
    BY <1>1, <1>5 DEF Cleanup!TypeOK
  <2>2. ASSUME NEW v \in Cleaners, cleaner'[v] # Cleanup!Idle, NEW i \in cleaner'[v].skipped
        PROVE  Cleanup!Blocked(i)'
    <3>1. CASE v = w
      BY <1>5, <2>1, <2>2, <3>1
    <3>2. CASE v # w
      <4>1. cleaner[v] # Cleanup!Idle /\ i \in cleaner[v].skipped /\ cleaner[v] \in Work
        BY <1>1, <2>1, <2>2, <3>2, WorkerTypes
      <4>2. i \in Copies /\ Cleanup!Blocked(i)
        BY <4>1 DEF Work, SkipsBlocked
      <4>3. QED
        BY <1>2, <4>2
    <3>3. QED
      BY <3>1, <3>2
  <2>3. ASSUME NEW v \in quiet', cleaner'[v].pc = "trash"
        PROVE  Cleanup!Rest' \subseteq cleaner'[v].ids \cup cleaner'[v].moved \cup cleaner'[v].skipped
    <3>1. CASE v = w
      BY <1>5, <2>1, <2>3, <3>1
    <3>2. CASE v # w
      <4>1. v \in quiet /\ UNCHANGED <<status, taken>> /\ v \in Cleaners
        BY <1>1, <1>5, <2>3, <3>2 DEF Cleanup!TypeOK
      <4>2. Cleanup!Rest' = Cleanup!Rest /\ cleaner'[v] = cleaner[v]
        BY <1>3, <2>1, <3>2, <4>1
      <4>3. QED
        BY <2>3, <4>1, <4>2 DEF CalmKnows
    <3>3. QED
      BY <3>1, <3>2
  <2>4. QED
    BY <2>2, <2>3 DEF CalmKnows, SkipsBlocked
<1>6. ASSUME NEW w \in Cleaners, NEW j \in Cleanup!Jobs, Cleanup!Claim(w, j)
      PROVE  CalmKnows' /\ SkipsBlocked'
  <2> DEFINE q == [pc |-> "look", job |-> j, ids |-> {}, moved |-> {}, skipped |-> {}]
  <2>1. cleaner' = [cleaner EXCEPT ![w] = q] /\ UNCHANGED <<status, taken, quiet>>
    BY <1>6 DEF Cleanup!Claim
  <2>2. q.pc = "look" /\ q.skipped = {}
    OBVIOUS
  <2> HIDE DEF q
  <2>3. QED
    BY <1>5, <2>1, <2>2
<1>7. ASSUME NEW w \in Cleaners, Cleanup!Look(w)
      PROVE  CalmKnows' /\ SkipsBlocked'
  <2>1. /\ cleaner[w] # Cleanup!Idle /\ cleaner[w] \in Work /\ UNCHANGED <<status, taken, onDisk>>
        /\ \A i \in cleaner[w].skipped : i \in Copies /\ Cleanup!Blocked(i)
    BY <1>1, <1>7, WorkerTypes DEF Cleanup!Look, SkipsBlocked, Work
  <2>2. CASE Cleanup!Ends(w, "done") /\ UNCHANGED quiet
    <3>1. cleaner' = [cleaner EXCEPT ![w] = Cleanup!Idle] /\ Cleanup!Idle.pc = "idle" /\ quiet' = quiet
      BY <2>2 DEF Cleanup!Ends, Cleanup!Idle
    <3>2. QED
      BY <1>5, <2>1, <3>1
  <2>3. CASE cleaner' = [cleaner EXCEPT ![w].pc = "trash", ![w].ids = Cleanup!Rest] /\ quiet' = quiet \cup {w}
    <3> DEFINE q == [cleaner[w] EXCEPT !.pc = "trash", !.ids = Cleanup!Rest]
    <3>1. cleaner' = [cleaner EXCEPT ![w] = q]
      BY <2>3
    <3>2. q.ids = Cleanup!Rest /\ q.skipped = cleaner[w].skipped
      BY <2>1 DEF Work
    <3> HIDE DEF q
    <3>3. Cleanup!Rest' = Cleanup!Rest
      BY <1>3, <2>1
    <3>4. QED
      BY <1>2, <1>5, <2>1, <2>3, <3>1, <3>2, <3>3
  <2>4. QED
    BY <1>7, <2>2, <2>3 DEF Cleanup!Look
<1>8. ASSUME NEW w \in Cleaners, NEW i \in Copies, Cleanup!Move(w, i)
      PROVE  CalmKnows' /\ SkipsBlocked'
  <2> DEFINE q == [cleaner[w] EXCEPT !.ids = @ \ {i},
                     !.moved = IF Cleanup!Blocked(i) THEN @ ELSE @ \cup {i},
                     !.skipped = IF Cleanup!Blocked(i) THEN @ \cup {i} ELSE @]
  <2>1. /\ cleaner[w] # Cleanup!Idle /\ cleaner[w] \in Work /\ UNCHANGED <<status, taken>>
        /\ quiet' = quiet \cap {w} /\ cleaner[w].pc = "trash"
        /\ \A j \in cleaner[w].skipped : j \in Copies /\ Cleanup!Blocked(j)
    BY <1>1, <1>8, WorkerTypes DEF Cleanup!Move, SkipsBlocked, Work
  <2>2. cleaner' = [cleaner EXCEPT ![w] = q]
    BY <1>8 DEF Cleanup!Move
  <2>3. /\ q.skipped = IF Cleanup!Blocked(i) THEN cleaner[w].skipped \cup {i} ELSE cleaner[w].skipped
        /\ q.ids \cup q.moved \cup q.skipped =
             cleaner[w].ids \cup cleaner[w].moved \cup cleaner[w].skipped \cup {i}
    <3>1. CASE Cleanup!Blocked(i)
      BY <1>8, <2>1, <3>1 DEF Work, Cleanup!Move
    <3>2. CASE ~Cleanup!Blocked(i)
      BY <1>8, <2>1, <3>2 DEF Work, Cleanup!Move
    <3>3. QED
      BY <3>1, <3>2
  <2> HIDE DEF q
  <2>4. \A j \in q.skipped : j \in Copies /\ Cleanup!Blocked(j)'
    BY <1>2, <2>1, <2>3
  <2>5. w \in quiet' => Cleanup!Rest' \subseteq q.ids \cup q.moved \cup q.skipped
    BY <1>3, <2>1, <2>3 DEF CalmKnows
  <2>6. \A v \in quiet' \ {w} : v \in quiet /\ UNCHANGED <<status, taken>>
    BY <2>1
  <2>7. QED
    BY <1>5, <2>2, <2>4, <2>5, <2>6
<1>9. ASSUME NEW w \in Cleaners, Cleanup!Commit(w)
      PROVE  CalmKnows' /\ SkipsBlocked'
  <2>1. cleaner[w] # Cleanup!Idle /\ cleaner[w] \in Work
    BY <1>1, <1>9, WorkerTypes DEF Cleanup!Commit
  <2>2. \E q : /\ cleaner' = [cleaner EXCEPT ![w] = q] /\ q.pc # "trash"
               /\ q # Cleanup!Idle => q.skipped = {}
    <3> DEFINE q == [cleaner[w] EXCEPT !.pc = "look", !.moved = {}, !.skipped = {}]
    <3>1. q.pc = "look" /\ q.skipped = {}
      BY <2>1 DEF Work
    <3>2. \/ Cleanup!Ends(w, "done") \/ Cleanup!Ends(w, "failed")
          \/ cleaner' = [cleaner EXCEPT ![w] = q]
      BY <1>9 DEF Cleanup!Commit
    <3> HIDE DEF q
    <3>3. Cleanup!Idle.pc # "trash"
      BY DEF Cleanup!Idle
    <3>4. QED
      BY <3>1, <3>2, <3>3 DEF Cleanup!Ends
  <2>3. \A v \in quiet' \ {w} : v \in quiet /\ UNCHANGED <<status, taken>>
    <3>1. CASE cleaner[w].moved = {}
      <4>1. status' = [i \in Copies |-> status[i]] /\ quiet' = quiet /\ taken' = taken
        BY <1>9, <3>1 DEF Cleanup!Commit
      <4>2. status' = status
        BY <1>1, <4>1 DEF Cleanup!TypeOK
      <4>3. QED
        BY <4>1, <4>2
    <3>2. CASE cleaner[w].moved # {}
      BY <1>9, <3>2 DEF Cleanup!Commit
    <3>3. QED
      BY <3>1, <3>2
  <2>4. QED
    BY <1>5, <2>2, <2>3
<1>10. ASSUME NEW i \in Copies,
              Cleanup!IndexKeeps(i) \/ Cleanup!IndexTrashes(i) \/ Cleanup!UserTrash(i) \/ \E d \in Days : Cleanup!SetTaken(i, d)
       PROVE  CalmKnows' /\ SkipsBlocked'
  <2>1. quiet' = {} /\ cleaner' = cleaner
    BY <1>10 DEF Cleanup!IndexKeeps, Cleanup!IndexTrashes, Cleanup!UserTrash, Cleanup!SetTaken
  <2>2. \A v \in Cleaners : cleaner[v] # Cleanup!Idle => \A j \in cleaner[v].skipped : j \in Copies
    BY <1>1, WorkerTypes DEF Work
  <2>3. QED
    BY <1>2, <2>1, <2>2 DEF CalmKnows, SkipsBlocked
<1>11. ASSUME (\E a \in Admins : Cleanup!StartLook(a) \/ Cleanup!StartEnqueue(a)) \/ Cleanup!Cancel \/ UNCHANGED Cleanup!vars
       PROVE  UNCHANGED <<status, taken, cleaner, quiet>>
  BY <1>11 DEF Cleanup!StartLook, Cleanup!StartEnqueue, Cleanup!Cancel, Cleanup!vars
<1>12. QED
  BY <1>4, <1>6, <1>7, <1>8, <1>9, <1>10, <1>11 DEF Cleanup!Next

\* A cleanup that is not cancelled, and ends with nobody else at the photos since it
\* last looked, leaves no copy of the first page that it could move.
THEOREM CleanupsClean ==
  ASSUME Cleanup!DedupConstants
  PROVE  Cleanup!Spec => Cleanup!CleanupCleans
<1> DEFINE KInv == DInv /\ CalmKnows /\ SkipsBlocked
           P == \A w \in Cleaners :
                  cleaner[w] # Cleanup!Idle /\ cleaner'[w] = Cleanup!Idle /\ cleanup[cleaner[w].job] = "running"
                    /\ (w \in quiet \/ cleaner[w].pc = "look")
                  => \A s \in Cleanup!FirstPage : \A i, j \in Cleanup!Group(s) : Cleanup!Before(i, j) => Cleanup!Blocked(j)
<1>1. Cleanup!Init => KInv
  BY InitDInv DEF Cleanup!Init, CalmKnows, SkipsBlocked, Cleanup!Idle
<1>2. KInv /\ [Cleanup!Next]_(Cleanup!vars) => KInv'
  BY StepDInv, KnownStep
<1>3. KInv /\ [Cleanup!Next]_(Cleanup!vars) => [P]_(Cleanup!vars)
  <2> SUFFICES ASSUME KInv, Cleanup!Next, NEW w \in Cleaners, cleaner[w] # Cleanup!Idle, cleaner'[w] = Cleanup!Idle,
                      cleanup[cleaner[w].job] = "running", w \in quiet \/ cleaner[w].pc = "look",
                      NEW s \in Cleanup!FirstPage, NEW i \in Cleanup!Group(s), NEW j \in Cleanup!Group(s), Cleanup!Before(i, j)
               PROVE  Cleanup!Blocked(j)
    OBVIOUS
  <2>1. Cleanup!TypeOK
    BY DEF DInv
  <2>2. j \in Cleanup!Rest
    BY DEF Cleanup!Rest, Cleanup!Group
  <2>3. Cleanup!Look(w) \/ Cleanup!Commit(w)
    <3>1. cleaner' # cleaner
      OBVIOUS
    <3>2. ASSUME NEW v \in Cleaners, v # w, Cleanup!Look(v) \/ Cleanup!Commit(v)
          PROVE  cleaner'[w] = cleaner[w]
      BY <2>1, <3>2 DEF Cleanup!Look, Cleanup!Commit, Cleanup!Ends, Cleanup!TypeOK
    <3>3. ASSUME NEW v \in Cleaners, NEW k \in Cleanup!Jobs, Cleanup!Claim(v, k)
          PROVE  cleaner'[w] # Cleanup!Idle
      <4>1. CASE v = w
        BY <3>3, <4>1 DEF Cleanup!Claim
      <4>2. CASE v # w
        BY <2>1, <3>3, <4>2 DEF Cleanup!Claim, Cleanup!TypeOK
      <4>3. QED
        BY <4>1, <4>2
    <3>4. ASSUME NEW v \in Cleaners, NEW k \in Copies, Cleanup!Move(v, k)
          PROVE  cleaner'[w] # Cleanup!Idle
      <4>1. CASE v = w
        <5>1. cleaner'[w].pc = "trash"
          <6>1. cleaner[w] \in Work /\ cleaner[w].pc = "trash"
            BY <2>1, <3>4, <4>1, WorkerTypes DEF Cleanup!Move
          <6>2. QED
            BY <2>1, <3>4, <4>1, <6>1 DEF Cleanup!Move, Cleanup!TypeOK, Work
        <5>2. QED
          BY <5>1 DEF Cleanup!Idle
      <4>2. CASE v # w
        BY <2>1, <3>4, <4>2 DEF Cleanup!Move, Cleanup!TypeOK
      <4>3. QED
        BY <4>1, <4>2
    <3>5. ASSUME \/ \E a \in Admins : Cleanup!StartLook(a) \/ Cleanup!StartEnqueue(a)
                 \/ Cleanup!Cancel
                 \/ \E k \in Copies : \/ Cleanup!IndexKeeps(k) \/ Cleanup!IndexTrashes(k) \/ Cleanup!UserTrash(k)
                                      \/ \E d \in Days : Cleanup!SetTaken(k, d)
          PROVE  cleaner' = cleaner
      BY <3>5 DEF Cleanup!StartLook, Cleanup!StartEnqueue, Cleanup!Cancel, Cleanup!IndexKeeps,
         Cleanup!IndexTrashes, Cleanup!UserTrash, Cleanup!SetTaken
    <3>6. QED
      BY <3>1, <3>2, <3>3, <3>4, <3>5 DEF Cleanup!Next
  <2>4. CASE Cleanup!Look(w)
    <3>1. CASE cleanup[cleaner[w].job] = "cancelled" \/ Cleanup!Rest = {}
      BY <2>2, <3>1
    <3>2. CASE ~(cleanup[cleaner[w].job] = "cancelled" \/ Cleanup!Rest = {})
      <4>1. cleaner[w] \in Work
        BY <2>1, WorkerTypes
      <4>2. cleaner'[w].pc = "trash"
        BY <2>1, <2>4, <3>2, <4>1 DEF Cleanup!Look, Cleanup!TypeOK, Work
      <4>3. QED
        BY <4>2 DEF Cleanup!Idle
    <3>3. QED
      BY <3>1, <3>2
  <2>5. CASE Cleanup!Commit(w)
    <3>1. cleaner[w] \in Work /\ cleaner[w].pc = "trash" /\ cleaner[w].ids = {} /\ w \in quiet
      BY <2>1, <2>5, WorkerTypes DEF Cleanup!Commit
    <3>2. Cleanup!Stuck(cleaner[w])
      <4>1. SUFFICES ASSUME ~Cleanup!Stuck(cleaner[w])
                     PROVE  FALSE
        OBVIOUS
      <4>2. cleaner' = [cleaner EXCEPT ![w] = [cleaner[w] EXCEPT !.pc = "look", !.moved = {},
                                                                 !.skipped = {}]]
        BY <2>5, <4>1 DEF Cleanup!Commit
      <4>3. cleaner'[w].pc = "look"
        BY <2>1, <3>1, <4>2 DEF Cleanup!TypeOK, Work
      <4>4. QED
        BY <4>3 DEF Cleanup!Idle
    <3>3. j \in cleaner[w].skipped
      BY <2>2, <3>1, <3>2 DEF CalmKnows, Cleanup!Stuck
    <3>4. QED
      BY <3>3 DEF SkipsBlocked
  <2>6. QED
    BY <2>3, <2>4, <2>5
<1>4. QED
  BY <1>1, <1>2, <1>3, PTL DEF Cleanup!Spec, Cleanup!CleanupCleans


-------------------------------------------------------------------------------
(***************************************************************************)
(* Folders.  A request that is deleting a folder has loaded rows that are  *)
(* there still, and answers for the pictures it knows: each was destroyed  *)
(* in a way that is named, is in the trash, or is to be moved there; after *)
(* a failed move it removes nothing.  A note that is not marked is about   *)
(* the picture at its path, and so is one that is yet to be committed.     *)
(***************************************************************************)
Filed(c) == c \in bin \cup spent

Deletes(r) == folderRequest[r].op = "delete"

Answers(r, c) ==
  \/ Filed(c)
  \/ folderRequest[r].failed
  \/ \E x \in folderRequest[r].todo : x[2][1] = folderRequest[r].dir /\ photoDisk[x[2]] = c

RowsLast ==
  /\ \A i \in folderScan.unseen : rows[i] # Tree!NoRow
  /\ \A r \in Requests : Deletes(r) =>
       /\ \A i \in folderRequest[r].moved : rows[i] # Tree!NoRow
       /\ \A x \in folderRequest[r].todo : rows[x[1]] # Tree!NoRow

DeletesAnswer ==
  \A r \in Requests : Deletes(r) =>
    /\ folderRequest[r].pc = "select" => folderRequest[r].known = {}
    /\ folderRequest[r].pc = "rmtree" => ~folderRequest[r].failed /\ folderRequest[r].todo = {}
    /\ \A c \in folderRequest[r].known : Answers(r, c)

UploadsSpare == \A r \in Requests : folderRequest[r].op = "upload" => folderRequest[r].spares

OnlyMade == \A p \in Tree!Spots : photoDisk[p] # Tree!None => photoDisk[p] \in Tree!Made

NotesRight ==
  \A p \in Tree!Spots : pending[p] # Tree!Nobody /\ p \notin strayed =>
    photoDisk[p] # Tree!None /\ by[photoDisk[p]] = pending[p]

Awaits(r, p) == folderRequest[r].op = "upload" /\ \E x \in folderRequest[r].notes : x[1] = p

NotesAwaited ==
  \A r \in Requests, p \in Tree!Spots : Awaits(r, p) /\ p \notin strayed =>
    photoDisk[p] # Tree!None /\ by[photoDisk[p]] = folderRequest[r].user

TreeInv == /\ Tree!TypeOK /\ RowsLast /\ DeletesAnswer /\ UploadsSpare /\ OnlyMade /\ NotesRight
           /\ NotesAwaited /\ Tree!PicturesSurvive

-------------------------------------------------------------------------------
LEMMA SpotTypes ==
  /\ \A p \in Tree!Spots : p[1] \in Dirs /\ p[2] \in FileNames /\ p = <<p[1], p[2]>> /\ p # <<>>
  /\ \A d \in Dirs, n \in FileNames : <<d, n>> \in Tree!Spots /\ <<d, n>>[1] = d /\ <<d, n>>[2] = n
  /\ \A d : Tree!In(d) \subseteq Tree!Spots
  BY DEF Tree!Spots, Tree!In

LEMMA MadeTypes ==
  ASSUME Tree!FoldersConstants, Tree!TypeOK
  PROVE  /\ Cardinality(Tree!Made) \in 0..MaxMade /\ Tree!Made = 1..Cardinality(Tree!Made)
         /\ by \in [Tree!Made -> Users \cup {Tree!Nobody}] /\ Tree!Made \subseteq Tree!Pictures
<1>1. PICK n \in 0..MaxMade : by \in [1..n -> Users \cup {Tree!Nobody}]
  BY DEF Tree!TypeOK
<1>2. Tree!Made = 1..n
  BY <1>1 DEF Tree!Made
<1>3. Cardinality(1..n) = n
  BY <1>1, FS_Interval DEF Tree!FoldersConstants
<1>4. QED
  BY <1>1, <1>2, <1>3 DEF Tree!FoldersConstants, Tree!Pictures

LEMMA RequestTypes ==
  ASSUME Tree!TypeOK, NEW r \in Requests
  PROVE  /\ folderRequest[r].op = "upload" => folderRequest[r] \in Tree!Upload
         /\ folderRequest[r].op = "rename" => folderRequest[r] \in Tree!Rename
         /\ folderRequest[r].op = "delete" => folderRequest[r] \in Tree!Delete
         /\ folderRequest[r].op \in {"none", "served", "upload", "rename", "delete"}
  BY DEF Tree!TypeOK, Tree!Upload, Tree!Rename, Tree!Delete, Tree!NoRequest, Tree!Served

LEMMA NoneIsNoPicture ==
  ASSUME Tree!FoldersConstants PROVE Tree!None \notin Tree!Pictures
  BY DEF Tree!FoldersConstants, Tree!Pictures, Tree!None

-------------------------------------------------------------------------------
\* A request that is put in the place of another is of its type.
LEMMA SetTypes ==
  ASSUME Tree!TypeOK, NEW r \in Requests,
         NEW q \in Tree!Upload \cup Tree!Rename \cup Tree!Delete \cup {Tree!NoRequest, Tree!Served},
         folderRequest' = [folderRequest EXCEPT ![r] = q]
  PROVE  /\ folderRequest' \in [Requests -> Tree!Upload \cup Tree!Rename \cup Tree!Delete \cup {Tree!NoRequest, Tree!Served}]
         /\ folderRequest'[r] = q
         /\ \A s \in Requests : s # r => folderRequest'[s] = folderRequest[s]
  BY DEF Tree!TypeOK

\* Pictures that stay on disk, go to the trash, or are destroyed in a way that is named.
LEMMA StaysFiled ==
  ASSUME Tree!PicturesSurvive, by' = by,
         \A c \in Tree!Made : Filed(c) \/ (\E p \in Tree!Spots : photoDisk[p] = c) =>
           Filed(c)' \/ \E p \in Tree!Spots : photoDisk'[p] = c
  PROVE  Tree!PicturesSurvive'
  BY DEF Tree!PicturesSurvive, Filed, Tree!Made

-------------------------------------------------------------------------------
(***************************************************************************)
(* Steps that leave the disk, the trash and the notes alone: a request     *)
(* begins or ends, rows change.                                            *)
(***************************************************************************)
QuietDisk == UNCHANGED <<photoDisk, bin, by, spent>>

LEMMA QuietSurvives ==
  ASSUME Tree!PicturesSurvive, OnlyMade, QuietDisk
  PROVE  Tree!PicturesSurvive' /\ OnlyMade'
  BY DEF Tree!PicturesSurvive, OnlyMade, QuietDisk, Tree!Made

LEMMA QuietNotes ==
  ASSUME NotesRight, UNCHANGED <<photoDisk, by>>,
         \A p \in Tree!Spots : pending'[p] = Tree!Nobody
             \/ (pending'[p] = pending[p] /\ (p \in strayed => p \in strayed'))
  PROVE  NotesRight'
  BY DEF NotesRight

\* A path with a note to come is one that a request awaits.
LEMMA AwaitedNotes ==
  \A p : p \in Tree!Awaited <=> \E r \in Requests : Awaits(r, p)
  BY DEF Tree!Awaited, Awaits

\* Notes to come that are as before, at paths that stay marked.
LEMMA QuietAwaited ==
  ASSUME NotesAwaited, UNCHANGED <<photoDisk, by>>,
         \A s \in Requests, p \in Tree!Spots : Awaits(s, p)' =>
           Awaits(s, p) /\ folderRequest'[s].user = folderRequest[s].user,
         \A p \in Tree!Spots : p \in Tree!Awaited /\ p \in strayed => p \in strayed'
  PROVE  NotesAwaited'
<1> SUFFICES ASSUME NEW s \in Requests, NEW p \in Tree!Spots, Awaits(s, p)', p \notin strayed'
             PROVE  photoDisk'[p] # Tree!None /\ by'[photoDisk'[p]] = folderRequest'[s].user
  BY DEF NotesAwaited
<1>1. Awaits(s, p) /\ folderRequest'[s].user = folderRequest[s].user
  OBVIOUS
<1>2. p \notin strayed
  BY <1>1, AwaitedNotes
<1>3. QED
  BY <1>1, <1>2 DEF NotesAwaited

\* The request that has changed awaits nothing, or what it awaited.
LEMMA OneAwaits ==
  ASSUME NotesAwaited, UNCHANGED <<photoDisk, by, strayed>>, NEW r \in Requests,
         \A s \in Requests : s # r => folderRequest'[s] = folderRequest[s],
         folderRequest'[r].op = "upload" =>
           \/ folderRequest'[r].notes = {}
           \/ /\ folderRequest[r].op = "upload" /\ folderRequest'[r].notes = folderRequest[r].notes
              /\ folderRequest'[r].user = folderRequest[r].user
  PROVE  NotesAwaited'
<1>1. ASSUME NEW s \in Requests, NEW p \in Tree!Spots, Awaits(s, p)'
      PROVE  Awaits(s, p) /\ folderRequest'[s].user = folderRequest[s].user
  BY <1>1 DEF Awaits
<1>2. QED
  BY <1>1, QuietAwaited

\* Pictures leave these paths, with the notes about them marked; the others stay.
LEMMA LeftAwaited ==
  ASSUME NotesAwaited, by' = by, NEW S \in SUBSET Tree!Spots, Tree!Leave(S),
         \A p \in Tree!Spots \ S : photoDisk[p] # Tree!None => photoDisk'[p] = photoDisk[p],
         \A s \in Requests, p \in Tree!Spots : Awaits(s, p)' =>
           Awaits(s, p) /\ folderRequest'[s].user = folderRequest[s].user
  PROVE  NotesAwaited'
<1> SUFFICES ASSUME NEW s \in Requests, NEW p \in Tree!Spots, Awaits(s, p)', p \notin strayed'
             PROVE  photoDisk'[p] # Tree!None /\ by'[photoDisk'[p]] = folderRequest'[s].user
  BY DEF NotesAwaited
<1>1. Awaits(s, p) /\ folderRequest'[s].user = folderRequest[s].user
  OBVIOUS
<1>2. p \notin strayed /\ p \notin S
  BY <1>1, AwaitedNotes DEF Tree!Leave
<1>3. photoDisk[p] # Tree!None /\ by[photoDisk[p]] = folderRequest[s].user
  BY <1>1, <1>2 DEF NotesAwaited
<1>4. QED
  BY <1>1, <1>2, <1>3

\* The requests are the same, or one has changed and answers for what it knows.
LEMMA OneAnswers ==
  ASSUME Tree!TypeOK, DeletesAnswer, UploadsSpare, UNCHANGED <<photoDisk, bin, spent>>, NEW r \in Requests,
         \A s \in Requests : s # r => folderRequest'[s] = folderRequest[s],
         folderRequest'[r].op = "upload" => folderRequest'[r].spares,
         Deletes(r)' =>
           /\ folderRequest'[r].pc = "select" => folderRequest'[r].known = {}
           /\ folderRequest'[r].pc = "rmtree" => ~folderRequest'[r].failed /\ folderRequest'[r].todo = {}
           /\ \A c \in folderRequest'[r].known : Answers(r, c)'
  PROVE  DeletesAnswer' /\ UploadsSpare'
<1>1. ASSUME NEW s \in Requests, s # r, Deletes(s)', NEW c \in folderRequest[s].known
      PROVE  Answers(s, c)'
  <2>1. folderRequest'[s] = folderRequest[s] /\ Deletes(s)
    BY <1>1 DEF Deletes
  <2>2. Answers(s, c)
    BY <1>1, <2>1 DEF DeletesAnswer
  <2>3. QED
    BY <2>1, <2>2 DEF Answers, Filed
<1>2. DeletesAnswer'
  <2> SUFFICES ASSUME NEW s \in Requests, Deletes(s)', s # r
               PROVE  /\ folderRequest'[s].pc = "select" => folderRequest'[s].known = {}
                      /\ folderRequest'[s].pc = "rmtree" => ~folderRequest'[s].failed /\ folderRequest'[s].todo = {}
                      /\ \A c \in folderRequest'[s].known : Answers(s, c)'
    BY DEF DeletesAnswer
  <2>1. folderRequest'[s] = folderRequest[s] /\ Deletes(s)
    BY DEF Deletes
  <2>2. QED
    BY <1>1, <2>1 DEF DeletesAnswer
<1>3. UploadsSpare'
  BY DEF UploadsSpare
<1>4. QED
  BY <1>2, <1>3

LEMMA OneHasRows ==
  ASSUME RowsLast, folderScan' = folderScan, NEW r \in Requests,
         \A i \in Tree!Ids : rows[i] # Tree!NoRow => rows'[i] # Tree!NoRow,
         \A s \in Requests : s # r => folderRequest'[s] = folderRequest[s], Tree!TypeOK,
         Deletes(r)' =>
           /\ \A i \in folderRequest'[r].moved : rows[i] # Tree!NoRow /\ i \in Tree!Ids
           /\ \A x \in folderRequest'[r].todo : rows[x[1]] # Tree!NoRow /\ x[1] \in Tree!Ids
  PROVE  RowsLast'
<1>1. \A s \in Requests : Deletes(s) => folderRequest[s].moved \subseteq Tree!Ids /\ folderRequest[s].todo \subseteq Tree!Ids \X Tree!Spots
  BY RequestTypes DEF Deletes, Tree!Delete
<1>2. folderScan.unseen \subseteq Tree!Ids
  BY DEF Tree!TypeOK, Tree!Scans
<1>3. QED
  BY <1>1, <1>2 DEF RowsLast, Deletes

-------------------------------------------------------------------------------
LEMMA RestTypes ==
  ASSUME Tree!TypeOK, UNCHANGED <<dirs, photoDisk, bin, rows, by, spent>>, folderScan' = folderScan,
         pending' \in [Tree!Spots -> Users \cup {Tree!Nobody}], strayed' \subseteq Tree!Spots,
         folderRequest' \in [Requests -> Tree!Upload \cup Tree!Rename \cup Tree!Delete \cup {Tree!NoRequest, Tree!Served}]
  PROVE  Tree!TypeOK'
  BY DEF Tree!TypeOK

LEMMA StartStep ==
  ASSUME Tree!FoldersConstants, TreeInv, NEW r \in Requests,
         NEW q \in Tree!Upload \cup Tree!Rename \cup Tree!Delete, Tree!Start(r, q),
         UNCHANGED <<dirs, photoDisk, bin, rows, pending, folderScan, by, spent, strayed>>,
         q.op = "upload" => q.spares /\ q.notes = {},
         q.op = "delete" => q.todo = {} /\ q.moved = {} /\ q.known = {} /\ ~q.failed
  PROVE  TreeInv'
<1>1. /\ folderRequest' \in [Requests -> Tree!Upload \cup Tree!Rename \cup Tree!Delete \cup {Tree!NoRequest, Tree!Served}]
      /\ folderRequest'[r] = q /\ \A s \in Requests : s # r => folderRequest'[s] = folderRequest[s]
  BY SetTypes DEF Tree!Start, TreeInv
<1>2. Tree!TypeOK'
  BY <1>1, RestTypes DEF TreeInv, Tree!TypeOK
<1>3. RowsLast'
  BY <1>1, OneHasRows DEF TreeInv, Deletes
<1>4. DeletesAnswer' /\ UploadsSpare'
  BY <1>1, OneAnswers DEF TreeInv, Deletes
<1>5. Tree!PicturesSurvive' /\ OnlyMade' /\ NotesRight'
  BY QuietSurvives, QuietNotes DEF TreeInv, QuietDisk
<1>6. NotesAwaited'
  BY <1>1, OneAwaits DEF TreeInv
<1>7. QED
  BY <1>2, <1>3, <1>4, <1>5, <1>6 DEF TreeInv

LEMMA OverStep ==
  ASSUME Tree!FoldersConstants, TreeInv, NEW r \in Requests, Tree!Over(r),
         UNCHANGED <<dirs, photoDisk, bin, rows, folderScan, by, spent>>,
         pending' \in [Tree!Spots -> Users \cup {Tree!Nobody}],
         NotesRight', strayed' = strayed
  PROVE  TreeInv'
<1>1. /\ folderRequest' \in [Requests -> Tree!Upload \cup Tree!Rename \cup Tree!Delete \cup {Tree!NoRequest, Tree!Served}]
      /\ folderRequest'[r] = Tree!Served /\ \A s \in Requests : s # r => folderRequest'[s] = folderRequest[s]
  BY SetTypes DEF Tree!Over, TreeInv
<1>2. Tree!TypeOK'
  BY <1>1, RestTypes DEF TreeInv, Tree!TypeOK
<1>3. RowsLast'
  BY <1>1, OneHasRows DEF TreeInv, Deletes, Tree!Served
<1>4. DeletesAnswer' /\ UploadsSpare'
  BY <1>1, OneAnswers DEF TreeInv, Deletes, Tree!Served
<1>5. Tree!PicturesSurvive' /\ OnlyMade'
  BY QuietSurvives DEF TreeInv, QuietDisk
<1>6. NotesAwaited'
  BY <1>1, OneAwaits DEF TreeInv, Tree!Served
<1>7. QED
  BY <1>2, <1>3, <1>4, <1>5, <1>6 DEF TreeInv

LEMMA BeginSteps ==
  ASSUME Tree!FoldersConstants, TreeInv, NEW r \in Requests,
         \/ \E u \in Users, d \in Dirs, S \in SUBSET Sent : Tree!UploadStart(r, u, d, S)
         \/ \E d, e \in Dirs : Tree!RenameStart(r, d, e)
         \/ \E d \in Dirs, b \in BOOLEAN : Tree!DeleteStart(r, d, b)
  PROVE  TreeInv'
<1>1. ASSUME NEW u \in Users, NEW d \in Dirs, NEW S \in SUBSET Sent, Tree!UploadStart(r, u, d, S)
      PROVE  TreeInv'
  <2> DEFINE q == [op |-> "upload", user |-> u, dir |-> d, todo |-> S, to |-> <<>>,
                   spares |-> TRUE, notes |-> {}]
  <2>1. q \in Tree!Upload /\ q.op = "upload" /\ q.spares /\ q.notes = {}
    BY DEF Tree!Upload
  <2>2. QED
    BY <1>1, <2>1, StartStep DEF Tree!UploadStart
<1>2. ASSUME NEW d \in Dirs, NEW e \in Dirs, Tree!RenameStart(r, d, e)
      PROVE  TreeInv'
  <2> DEFINE q == [op |-> "rename", dir |-> d, to |-> e, pc |-> "disk"]
  <2>1. q \in Tree!Rename /\ q.op = "rename"
    BY DEF Tree!Rename
  <2>2. QED
    BY <1>2, <2>1, StartStep DEF Tree!RenameStart
<1>3. ASSUME NEW d \in Dirs, NEW b \in BOOLEAN, Tree!DeleteStart(r, d, b)
      PROVE  TreeInv'
  <2> DEFINE q == [op |-> "delete", dir |-> d, todo |-> {}, moved |-> {}, failed |-> FALSE,
                   pc |-> IF Tree!ActiveIn(d) = {} THEN "rmtree" ELSE "select", known |-> {}]
  <2>1. /\ q \in Tree!Delete /\ q.op = "delete" /\ q.todo = {} /\ q.moved = {} /\ q.known = {}
        /\ ~q.failed
    BY DEF Tree!Delete
  <2>2. QED
    BY <1>3, <2>1, StartStep DEF Tree!DeleteStart
<1>4. QED
  BY <1>1, <1>2, <1>3

LEMMA UploadNameStep ==
  ASSUME Tree!FoldersConstants, TreeInv, NEW r \in Requests, NEW n \in Sent, Tree!UploadName(r, n)
  PROVE  TreeInv'
<1> DEFINE d == folderRequest[r].dir
           p == Tree!Chosen(d, n)
           q == [folderRequest[r] EXCEPT !.todo = @ \ {n}, !.to = p, !.spares = photoDisk[p] = Tree!None \/ p[2] # n]
<1>1. folderRequest[r] \in Tree!Upload /\ d \in Dirs
  BY RequestTypes DEF Tree!UploadName, TreeInv, Tree!Upload
<1>2. p \in Tree!Spots /\ (photoDisk[p] = Tree!None \/ p[2] # n)
  BY <1>1, SpotTypes DEF Tree!Chosen, Tree!FoldersConstants
<1>3. /\ q \in Tree!Upload /\ q.op = "upload" /\ q.spares
      /\ q.notes = folderRequest[r].notes /\ q.user = folderRequest[r].user
  BY <1>1, <1>2 DEF Tree!Upload
<1>4. /\ folderRequest' \in [Requests -> Tree!Upload \cup Tree!Rename \cup Tree!Delete \cup {Tree!NoRequest, Tree!Served}]
      /\ folderRequest'[r] = q /\ \A s \in Requests : s # r => folderRequest'[s] = folderRequest[s]
  BY <1>3, SetTypes DEF Tree!UploadName, Tree!Set, TreeInv
<1>5. Tree!TypeOK'
  BY <1>4, RestTypes DEF TreeInv, Tree!TypeOK, Tree!UploadName
<1>6. RowsLast'
  BY <1>3, <1>4, OneHasRows DEF TreeInv, Deletes, Tree!UploadName
<1>7. DeletesAnswer' /\ UploadsSpare'
  BY <1>3, <1>4, OneAnswers DEF TreeInv, Deletes, Tree!UploadName
<1>8. Tree!PicturesSurvive' /\ OnlyMade' /\ NotesRight'
  BY QuietSurvives, QuietNotes DEF TreeInv, QuietDisk, Tree!UploadName
<1>9. NotesAwaited'
  BY <1>3, <1>4, OneAwaits DEF TreeInv, Tree!UploadName
<1>10. QED
  BY <1>5, <1>6, <1>7, <1>8, <1>9 DEF TreeInv

LEMMA UploadCommitStep ==
  ASSUME Tree!FoldersConstants, TreeInv, NEW r \in Requests, Tree!UploadCommit(r)
  PROVE  TreeInv'
<1> DEFINE q == folderRequest[r]
           noted == {x[1] : x \in q.notes}
<1>1. q \in Tree!Upload
  BY RequestTypes DEF Tree!UploadCommit, TreeInv
<1>2. noted \subseteq Tree!Spots /\ q.user \in Users
  BY <1>1 DEF Tree!Upload
<1>3. CASE UNCHANGED pending
  <2>1. NotesRight'
    BY <1>3, QuietNotes DEF TreeInv, Tree!UploadCommit
  <2>2. QED
    BY <1>3, <2>1, OverStep DEF TreeInv, Tree!TypeOK, Tree!UploadCommit
<1>4. CASE pending' = [p \in Tree!Spots |-> IF p \in noted THEN q.user ELSE pending[p]]
  <2>1. pending' \in [Tree!Spots -> Users \cup {Tree!Nobody}]
    BY <1>2, <1>4 DEF TreeInv, Tree!TypeOK
  <2>2. ASSUME NEW p \in Tree!Spots, pending'[p] # Tree!Nobody, p \notin strayed
        PROVE  photoDisk[p] # Tree!None /\ by[photoDisk[p]] = pending'[p]
    <3>1. CASE p \in noted
      <4>1. Awaits(r, p) /\ pending'[p] = q.user
        BY <1>4, <3>1 DEF Awaits, Tree!UploadCommit
      <4>2. QED
        BY <2>2, <4>1 DEF TreeInv, NotesAwaited
    <3>2. CASE p \notin noted
      BY <1>4, <2>2, <3>2 DEF TreeInv, NotesRight
    <3>3. QED
      BY <3>1, <3>2
  <2>3. NotesRight'
    BY <2>2 DEF NotesRight, Tree!UploadCommit
  <2>4. QED
    BY <2>1, <2>3, OverStep DEF Tree!UploadCommit
<1>5. QED
  BY <1>3, <1>4 DEF Tree!UploadCommit

-------------------------------------------------------------------------------
(***************************************************************************)
(* Rows change and the disk does not: a rename's rows, a delete's commit,  *)
(* the scan, the worker's tick.                                            *)
(***************************************************************************)
RowsTyped == /\ rows \in [Tree!Ids -> Tree!Row \cup {Tree!NoRow}]
             /\ \A i, j \in Tree!Ids : rows[i] # Tree!NoRow /\ rows[j] # Tree!NoRow /\ i # j =>
                  rows[i].path # rows[j].path

LEMMA RowFields ==
  ASSUME Tree!TypeOK, NEW i \in Tree!Ids, rows[i] # Tree!NoRow
  PROVE  rows[i] \in Tree!Row /\ rows[i].path \in Tree!Spots
  BY DEF Tree!TypeOK, Tree!Row

\* Rows whose paths are as before are rows of different paths.
LEMMA SamePaths ==
  ASSUME Tree!TypeOK, rows' \in [Tree!Ids -> Tree!Row \cup {Tree!NoRow}],
         \A i \in Tree!Ids : rows'[i] # Tree!NoRow => rows[i] # Tree!NoRow /\ rows'[i].path = rows[i].path
  PROVE  RowsTyped'
<1>1. ASSUME NEW i \in Tree!Ids, NEW j \in Tree!Ids, rows'[i] # Tree!NoRow, rows'[j] # Tree!NoRow, i # j
      PROVE  rows'[i].path # rows'[j].path
  <2>1. rows[i] # Tree!NoRow /\ rows[j] # Tree!NoRow
    BY <1>1
  <2>2. rows[i].path # rows[j].path
    BY <1>1, <2>1 DEF Tree!TypeOK
  <2>3. rows'[i].path = rows[i].path /\ rows'[j].path = rows[j].path
    BY <1>1
  <2>4. QED
    BY <2>2, <2>3
<1>2. QED
  BY <1>1 DEF RowsTyped

\* A row that gets another status is a row.
LEMMA StatusTyped ==
  ASSUME Tree!TypeOK, NEW S \in SUBSET Tree!Ids, NEW st \in {"active", "missing", "trashed"},
         \A i \in S : rows[i] # Tree!NoRow,
         rows' = [i \in Tree!Ids |-> IF i \in S THEN [rows[i] EXCEPT !.status = st] ELSE rows[i]]
  PROVE  RowsTyped' /\ \A i \in Tree!Ids : rows[i] # Tree!NoRow => rows'[i] # Tree!NoRow
<1>1. ASSUME NEW i \in S
      PROVE  rows'[i] \in Tree!Row /\ rows'[i] # Tree!NoRow /\ rows'[i].path = rows[i].path
  <2>1. rows[i] \in Tree!Row /\ rows'[i] = [rows[i] EXCEPT !.status = st]
    BY RowFields
  <2>2. QED
    BY <2>1 DEF Tree!Row, Tree!NoRow
<1>2. \A i \in Tree!Ids \ S : rows'[i] = rows[i]
  OBVIOUS
<1>3. \A i \in Tree!Ids : rows'[i] \in Tree!Row \cup {Tree!NoRow}
  BY <1>1, <1>2 DEF Tree!TypeOK
<1>4. rows' \in [Tree!Ids -> Tree!Row \cup {Tree!NoRow}]
  BY <1>3
<1>5. \A i \in Tree!Ids : rows'[i] # Tree!NoRow => rows[i] # Tree!NoRow /\ rows'[i].path = rows[i].path
  BY <1>1, <1>2
<1>6. RowsTyped'
  BY <1>4, <1>5, SamePaths
<1>7. QED
  BY <1>1, <1>2, <1>6

LEMMA RowsStep ==
  ASSUME Tree!FoldersConstants, TreeInv, QuietDisk, RowsTyped', dirs' = dirs, folderRequest' = folderRequest,
         \A i \in Tree!Ids : rows[i] # Tree!NoRow => rows'[i] # Tree!NoRow,
         folderScan' \in Tree!Scans,
         \A i \in folderScan'.unseen : rows'[i] # Tree!NoRow,
         pending' \in [Tree!Spots -> Users \cup {Tree!Nobody}], strayed' \subseteq Tree!Spots,
         \A p \in Tree!Spots : pending'[p] = Tree!Nobody
             \/ (pending'[p] = pending[p] /\ (p \in strayed => p \in strayed')),
         \A p \in Tree!Spots : p \in Tree!Awaited /\ p \in strayed => p \in strayed'
  PROVE  TreeInv'
<1>1. Tree!TypeOK'
  BY DEF TreeInv, Tree!TypeOK, RowsTyped, QuietDisk
<1>2. \A r \in Requests : Deletes(r) => folderRequest[r].moved \subseteq Tree!Ids /\ folderRequest[r].todo \subseteq Tree!Ids \X Tree!Spots
  BY RequestTypes DEF Deletes, Tree!Delete, TreeInv
<1>3. RowsLast'
  BY <1>2 DEF TreeInv, RowsLast, Deletes
<1>4. DeletesAnswer' /\ UploadsSpare'
  BY DEF TreeInv, DeletesAnswer, UploadsSpare, Deletes, Answers, Filed, QuietDisk
<1>5. Tree!PicturesSurvive' /\ OnlyMade' /\ NotesRight'
  BY QuietSurvives, QuietNotes DEF TreeInv, QuietDisk
<1>6. NotesAwaited'
  BY QuietAwaited DEF TreeInv, QuietDisk, Awaits
<1>7. QED
  BY <1>1, <1>3, <1>4, <1>5, <1>6 DEF TreeInv

LEMMA RestSteps ==
  ASSUME Tree!FoldersConstants, TreeInv,
         \/ \E d \in Dirs : Tree!CreateFolder(d)
         \/ \E p \in Tree!Spots : Tree!Expire(p)
         \/ Tree!ScanStart \/ Tree!ScanReconcile
         \/ UNCHANGED Tree!vars
  PROVE  TreeInv'
<1>1. ASSUME NEW d \in Dirs, Tree!CreateFolder(d)
      PROVE  TreeInv'
  <2>1. Tree!TypeOK'
    BY <1>1 DEF Tree!CreateFolder, TreeInv, Tree!TypeOK
  <2>2. /\ RowsLast' /\ DeletesAnswer' /\ UploadsSpare' /\ OnlyMade' /\ NotesRight'
        /\ NotesAwaited' /\ Tree!PicturesSurvive'
    BY <1>1 DEF Tree!CreateFolder, TreeInv, RowsLast, DeletesAnswer, UploadsSpare, OnlyMade, NotesRight,
       NotesAwaited, Awaits,
       Tree!PicturesSurvive, Deletes, Answers, Filed, Tree!Made
  <2>3. QED
    BY <2>1, <2>2 DEF TreeInv
<1>2. ASSUME NEW p \in Tree!Spots, Tree!Expire(p)
      PROVE  TreeInv'
  <2>1. /\ QuietDisk /\ RowsTyped' /\ \A i \in folderScan'.unseen : rows'[i] # Tree!NoRow
        /\ folderScan' \in Tree!Scans
    BY <1>2 DEF Tree!Expire, QuietDisk, RowsTyped, TreeInv, Tree!TypeOK, RowsLast
  <2>2. /\ pending' \in [Tree!Spots -> Users \cup {Tree!Nobody}] /\ strayed' \subseteq Tree!Spots
        /\ \A q \in Tree!Spots : pending'[q] = Tree!Nobody
             \/ (pending'[q] = pending[q] /\ (q \in strayed => q \in strayed'))
        /\ \A q \in Tree!Spots : q \in Tree!Awaited /\ q \in strayed => q \in strayed'
    BY <1>2 DEF Tree!Expire, Tree!Forget, TreeInv, Tree!TypeOK
  <2>3. QED
    BY <1>2, <2>1, <2>2, RowsStep DEF Tree!Expire
<1>3. CASE Tree!ScanStart
  <2>1. /\ QuietDisk /\ RowsTyped' /\ UNCHANGED <<pending, strayed>>
        /\ folderScan' \in Tree!Scans
    BY <1>3 DEF Tree!ScanStart, Tree!Scans, QuietDisk, RowsTyped, TreeInv, Tree!TypeOK
  <2>2. \A i \in folderScan'.unseen : rows'[i] # Tree!NoRow
    BY <1>3 DEF Tree!ScanStart, Tree!Active, Tree!NoRow
  <2>3. QED
    BY <1>3, <2>1, <2>2, RowsStep DEF Tree!ScanStart, TreeInv, Tree!TypeOK
<1>4. CASE Tree!ScanReconcile
  <2>1. /\ QuietDisk /\ UNCHANGED <<pending, strayed>> /\ folderScan'.unseen = {}
        /\ folderScan' \in Tree!Scans
    BY <1>4 DEF Tree!ScanReconcile, Tree!NoScan, Tree!Scans, QuietDisk
  <2>2. RowsTyped' /\ \A i \in Tree!Ids : rows[i] # Tree!NoRow => rows'[i] # Tree!NoRow
    BY <1>4, StatusTyped DEF Tree!ScanReconcile, TreeInv, RowsLast, Tree!TypeOK, Tree!Scans
  <2>3. QED
    BY <1>4, <2>1, <2>2, RowsStep DEF Tree!ScanReconcile, TreeInv, Tree!TypeOK
<1>5. CASE UNCHANGED Tree!vars
  <2>1. Tree!TypeOK'
    BY <1>5 DEF Tree!vars, TreeInv, Tree!TypeOK
  <2>2. /\ RowsLast' /\ DeletesAnswer' /\ UploadsSpare' /\ OnlyMade' /\ NotesRight'
        /\ NotesAwaited' /\ Tree!PicturesSurvive'
    BY <1>5 DEF Tree!vars, TreeInv, RowsLast, DeletesAnswer, UploadsSpare, OnlyMade, NotesRight,
       NotesAwaited, Awaits,
       Tree!PicturesSurvive, Deletes, Answers, Filed, Tree!Made
  <2>3. QED
    BY <2>1, <2>2 DEF TreeInv
<1>6. QED
  BY <1>1, <1>2, <1>3, <1>4, <1>5

\* A scan gives a photo to a user, if to anyone.
LEMMA OwnerTyped ==
  ASSUME Tree!FoldersConstants, Tree!TypeOK, NEW p \in Tree!Spots
  PROVE  /\ Tree!FromFolder(p) \in Users \cup {Tree!Nobody}
         /\ Tree!FromFolder(p) \in {Tree!Nobody, FolderUser[p[1]]}
         /\ Tree!Owner(p) \in Users \cup {Tree!Nobody}
<1>1. FolderUser[p[1]] \in Users \cup {Tree!Nobody}
  BY SpotTypes DEF Tree!FoldersConstants, Tree!Nobody
<1>2. QED
  BY <1>1 DEF Tree!FromFolder, Tree!Owner, Tree!TypeOK

\* The row of a file that a scan comes upon again is at the same path, and keeps its
\* owner if it had one.
LEMMA RevisitedRow ==
  ASSUME Tree!FoldersConstants, Tree!TypeOK, NEW p \in Tree!Spots, NEW i \in Tree!Ids,
         rows[i] # Tree!NoRow, photoDisk[p] \in Tree!Pictures
  PROVE  /\ Tree!Revisited(i, p) \in Tree!Row /\ Tree!Revisited(i, p) # Tree!NoRow
         /\ Tree!Revisited(i, p).path = rows[i].path
         /\ Tree!Revisited(i, p).owner =
              IF rows[i].owner = Tree!Nobody THEN Tree!FromFolder(p) ELSE rows[i].owner
<1> DEFINE row == IF rows[i].owner = Tree!Nobody THEN [rows[i] EXCEPT !.owner = Tree!FromFolder(p)]
                  ELSE rows[i]
<1>1. rows[i] \in Tree!Row
  BY RowFields
<1>2. /\ row \in Tree!Row /\ row.path = rows[i].path
      /\ row.owner = IF rows[i].owner = Tree!Nobody THEN Tree!FromFolder(p) ELSE rows[i].owner
  BY <1>1, OwnerTyped DEF Tree!Row
<1>3. Tree!Revisited(i, p) \in {row, [row EXCEPT !.sig = photoDisk[p], !.status = "active"]}
  BY DEF Tree!Revisited
<1> HIDE DEF row
<1>4. ASSUME NEW w \in Tree!Row
      PROVE  /\ [w EXCEPT !.sig = photoDisk[p], !.status = "active"] \in Tree!Row
             /\ [w EXCEPT !.sig = photoDisk[p], !.status = "active"].path = w.path
             /\ [w EXCEPT !.sig = photoDisk[p], !.status = "active"].owner = w.owner
  BY DEF Tree!Row
<1>5. \A w \in Tree!Row : w # Tree!NoRow
  BY DEF Tree!Row, Tree!NoRow
<1>6. Tree!Revisited(i, p).path = row.path /\ Tree!Revisited(i, p).owner = row.owner
      /\ Tree!Revisited(i, p) \in Tree!Row
  BY <1>2, <1>3, <1>4
<1>7. QED
  BY <1>2, <1>5, <1>6

\* A path that has no row gets one; of another the row is made active.
LEMMA ScanVisitStep ==
  ASSUME Tree!FoldersConstants, TreeInv, NEW p \in Tree!Spots, Tree!ScanVisit(p)
  PROVE  TreeInv'
<1> DEFINE c == photoDisk[p]
<1>1. /\ QuietDisk /\ UNCHANGED <<dirs, folderRequest>>
      /\ folderScan' \in Tree!Scans
      /\ folderScan'.unseen \subseteq folderScan.unseen
  BY DEF Tree!ScanVisit, Tree!Scans, QuietDisk, TreeInv, Tree!TypeOK
<1>2. c # Tree!None => c \in Tree!Pictures
  BY DEF TreeInv, Tree!TypeOK
<1>3. CASE c = Tree!None
  <2>1. UNCHANGED <<rows, pending, strayed>>
    BY <1>3 DEF Tree!ScanVisit
  <2>2. RowsTyped' /\ \A i \in folderScan'.unseen : rows'[i] # Tree!NoRow
    BY <1>1, <2>1 DEF TreeInv, Tree!TypeOK, RowsTyped, RowsLast
  <2>3. QED
    BY <1>1, <2>1, <2>2, RowsStep DEF TreeInv, Tree!TypeOK
<1>4. CASE c # Tree!None /\ Tree!At(p) # {}
  <2>1. /\ rows' = [i \in Tree!Ids |-> IF i \in Tree!At(p) THEN Tree!Revisited(i, p) ELSE rows[i]]
        /\ UNCHANGED <<pending, strayed>>
    BY <1>4 DEF Tree!ScanVisit
  <2>2. ASSUME NEW i \in Tree!Ids
        PROVE  /\ rows'[i] \in Tree!Row \cup {Tree!NoRow} /\ (rows[i] # Tree!NoRow <=> rows'[i] # Tree!NoRow)
               /\ rows[i] # Tree!NoRow => rows'[i].path = rows[i].path
    <3>1. CASE i \in Tree!At(p)
      BY <1>2, <1>4, <2>1, <3>1, RevisitedRow DEF Tree!At, TreeInv
    <3>2. CASE i \notin Tree!At(p)
      BY <2>1, <3>2 DEF TreeInv, Tree!TypeOK
    <3>3. QED
      BY <3>1, <3>2
  <2>3. RowsTyped'
    <3>1. rows' \in [Tree!Ids -> Tree!Row \cup {Tree!NoRow}]
      BY <2>1, <2>2
    <3>2. QED
      BY <2>2, <3>1, SamePaths DEF TreeInv
  <2>4. \A i \in folderScan'.unseen : rows'[i] # Tree!NoRow
    BY <1>1, <2>2 DEF TreeInv, Tree!TypeOK, Tree!Scans, RowsLast
  <2>5. QED
    BY <1>1, <2>1, <2>2, <2>3, <2>4, RowsStep DEF TreeInv, Tree!TypeOK
<1>5. CASE c # Tree!None /\ Tree!At(p) = {}
  <2> DEFINE new == [path |-> p, sig |-> c, owner |-> Tree!Owner(p), status |-> "active"]
  <2>1. PICK i \in Tree!Ids : rows[i] = Tree!NoRow /\ rows' = [rows EXCEPT ![i] = new]
    BY <1>5 DEF Tree!ScanVisit
  <2>2. /\ pending' = [pending EXCEPT ![p] = Tree!Nobody] /\ Tree!Forget(p)
    BY <1>5 DEF Tree!ScanVisit
  <2>3. new \in Tree!Row /\ new # Tree!NoRow /\ new.path = p
    BY <1>2, <1>5, OwnerTyped DEF Tree!Row, Tree!NoRow, TreeInv
  <2>4. \A j \in Tree!Ids : rows[j] # Tree!NoRow => rows[j].path # p
    BY <1>5 DEF Tree!At
  <2>5. /\ rows' \in [Tree!Ids -> Tree!Row \cup {Tree!NoRow}] /\ rows'[i] = new
        /\ \A j \in Tree!Ids : j # i => rows'[j] = rows[j]
    BY <2>1, <2>3 DEF TreeInv, Tree!TypeOK
  <2>6. RowsTyped'
    BY <2>3, <2>4, <2>5 DEF RowsTyped, TreeInv, Tree!TypeOK
  <2>7. \A j \in Tree!Ids : rows[j] # Tree!NoRow => rows'[j] # Tree!NoRow
    BY <2>1, <2>3, <2>5
  <2>8. \A j \in folderScan'.unseen : rows'[j] # Tree!NoRow
    BY <1>1, <2>7 DEF TreeInv, Tree!TypeOK, Tree!Scans, RowsLast
  <2>9. /\ pending' \in [Tree!Spots -> Users \cup {Tree!Nobody}] /\ strayed' \subseteq Tree!Spots
        /\ \A q \in Tree!Spots : pending'[q] = Tree!Nobody
             \/ (pending'[q] = pending[q] /\ (q \in strayed => q \in strayed'))
        /\ \A q \in Tree!Spots : q \in Tree!Awaited /\ q \in strayed => q \in strayed'
    BY <2>2 DEF TreeInv, Tree!TypeOK, Tree!Forget
  <2>10. QED
    BY <1>1, <2>6, <2>7, <2>8, <2>9, RowsStep
<1>6. QED
  BY <1>3, <1>4, <1>5

\* One UPDATE moves the rows of a folder to paths that have none.
LEMMA RenamedRows ==
  ASSUME Tree!TypeOK, NEW d \in Dirs, NEW e \in Dirs,
         ~ \E n \in FileNames : Tree!At(<<d, n>>) # {} /\ Tree!At(<<e, n>>) # {},
         rows' = [i \in Tree!Ids |-> IF rows[i] # Tree!NoRow /\ rows[i].path[1] = d
                                       THEN [rows[i] EXCEPT !.path = <<e, @[2]>>] ELSE rows[i]]
  PROVE  RowsTyped' /\ \A i \in Tree!Ids : rows[i] # Tree!NoRow <=> rows'[i] # Tree!NoRow
<1>1. ASSUME NEW i \in Tree!Ids, rows[i] # Tree!NoRow, rows[i].path[1] = d
      PROVE  rows'[i] \in Tree!Row /\ rows'[i] # Tree!NoRow /\ rows'[i].path = <<e, rows[i].path[2]>>
  <2>1. rows[i] \in Tree!Row /\ rows[i].path \in Tree!Spots
    BY <1>1, RowFields
  <2>2. rows'[i] = [rows[i] EXCEPT !.path = <<e, @[2]>>]
    BY <1>1
  <2>3. <<e, rows[i].path[2]>> \in Tree!Spots
    BY <2>1, SpotTypes
  <2>4. QED
    BY <2>1, <2>2, <2>3 DEF Tree!Row, Tree!NoRow
<1>2. \A i \in Tree!Ids : ~(rows[i] # Tree!NoRow /\ rows[i].path[1] = d) => rows'[i] = rows[i]
  OBVIOUS
<1>3. rows' \in [Tree!Ids -> Tree!Row \cup {Tree!NoRow}]
  BY <1>1, <1>2 DEF Tree!TypeOK
<1>4. \A i \in Tree!Ids : rows[i] # Tree!NoRow <=> rows'[i] # Tree!NoRow
  BY <1>1, <1>2
<1>5. ASSUME NEW i \in Tree!Ids, NEW j \in Tree!Ids, rows[i] # Tree!NoRow, rows[j] # Tree!NoRow, i # j
      PROVE  rows'[i].path # rows'[j].path
  <2>1. rows[i].path # rows[j].path /\ rows[i].path \in Tree!Spots /\ rows[j].path \in Tree!Spots
    BY <1>5, RowFields DEF Tree!TypeOK
  <2>2. /\ rows[i].path = <<rows[i].path[1], rows[i].path[2]>>
        /\ rows[j].path = <<rows[j].path[1], rows[j].path[2]>>
        /\ rows[i].path[2] \in FileNames /\ rows[j].path[2] \in FileNames
    BY <2>1, SpotTypes
  <2>3. CASE rows[i].path[1] = d /\ rows[j].path[1] = d
    BY <1>1, <1>5, <2>1, <2>2, <2>3
  <2>4. ASSUME NEW k \in Tree!Ids, NEW l \in Tree!Ids, rows[k] # Tree!NoRow, rows[l] # Tree!NoRow,
               rows[k].path[1] = d, rows[l].path[1] # d, rows'[k].path = rows'[l].path,
               rows[k].path = <<rows[k].path[1], rows[k].path[2]>>, rows[k].path[2] \in FileNames
        PROVE  FALSE
    <3>1. rows[l].path = <<e, rows[k].path[2]>> /\ rows[k].path = <<d, rows[k].path[2]>>
      BY <1>1, <1>2, <2>4
    <3>2. k \in Tree!At(<<d, rows[k].path[2]>>) /\ l \in Tree!At(<<e, rows[k].path[2]>>)
      BY <2>4, <3>1 DEF Tree!At
    <3>3. QED
      BY <2>4, <3>2
  <2>5. CASE rows[i].path[1] # d /\ rows[j].path[1] # d
    BY <1>2, <1>5, <2>1, <2>5
  <2>6. QED
    BY <1>5, <2>2, <2>3, <2>4, <2>5
<1>6. QED
  BY <1>3, <1>4, <1>5 DEF RowsTyped

LEMMA RenameRowsStep ==
  ASSUME Tree!FoldersConstants, TreeInv, NEW r \in Requests, Tree!RenameRows(r)
  PROVE  TreeInv'
<1>1. folderRequest[r] \in Tree!Rename
  BY RequestTypes DEF Tree!RenameRows, TreeInv
<1>2. RowsTyped' /\ \A i \in Tree!Ids : rows[i] # Tree!NoRow => rows'[i] # Tree!NoRow
  <2>1. CASE rows' = rows
    BY <2>1 DEF TreeInv, Tree!TypeOK, RowsTyped
  <2>2. CASE rows' # rows
    <3>1. folderRequest[r].dir \in Dirs /\ folderRequest[r].to \in Dirs
      BY <1>1 DEF Tree!Rename
    <3>2. QED
      BY <2>2, <3>1, RenamedRows DEF Tree!RenameRows, TreeInv
  <2>3. QED
    BY <2>1, <2>2
<1>3. /\ folderRequest' \in [Requests -> Tree!Upload \cup Tree!Rename \cup Tree!Delete \cup {Tree!NoRequest, Tree!Served}]
      /\ folderRequest'[r] = Tree!Served /\ \A s \in Requests : s # r => folderRequest'[s] = folderRequest[s]
  BY SetTypes DEF Tree!Over, TreeInv, Tree!RenameRows
<1>4. QuietDisk /\ UNCHANGED <<dirs, folderScan, pending, strayed>>
  BY DEF Tree!RenameRows, QuietDisk
<1>5. Tree!TypeOK'
  BY <1>2, <1>3, <1>4 DEF TreeInv, Tree!TypeOK, RowsTyped, QuietDisk
<1>6. RowsLast'
  BY <1>2, <1>3, <1>4, OneHasRows DEF TreeInv, Deletes, Tree!Served
<1>7. DeletesAnswer' /\ UploadsSpare'
  BY <1>3, <1>4, OneAnswers DEF TreeInv, Deletes, Tree!Served, QuietDisk
<1>8. Tree!PicturesSurvive' /\ OnlyMade' /\ NotesRight'
  BY <1>4, QuietSurvives, QuietNotes DEF TreeInv, QuietDisk
<1>9. NotesAwaited'
  BY <1>3, <1>4, OneAwaits DEF TreeInv, QuietDisk, Tree!Served
<1>10. QED
  BY <1>5, <1>6, <1>7, <1>8, <1>9 DEF TreeInv

-------------------------------------------------------------------------------
(***************************************************************************)
(* Steps that change the disk.                                             *)
(***************************************************************************)
AnswersWell(r) ==
  /\ folderRequest[r].pc = "select" => folderRequest[r].known = {}
  /\ folderRequest[r].pc = "rmtree" => ~folderRequest[r].failed /\ folderRequest[r].todo = {}
  /\ \A c \in folderRequest[r].known : Answers(r, c)

\* A picture that leaves its path is filed.
FiledOrThere ==
  \A p \in Tree!Spots, c \in Tree!Pictures : photoDisk[p] = c => photoDisk'[p] = c \/ c \in bin' \cup spent'

LEMMA DeleteTypes ==
  ASSUME Tree!TypeOK, NEW r \in Requests, Deletes(r)
  PROVE  /\ folderRequest[r] \in Tree!Delete /\ folderRequest[r].dir \in Dirs
         /\ folderRequest[r].known \subseteq Tree!Pictures /\ folderRequest[r].moved \subseteq Tree!Ids
         /\ folderRequest[r].todo \subseteq Tree!Ids \X Tree!Spots
         /\ folderRequest[r].failed \in BOOLEAN
  BY RequestTypes DEF Deletes, Tree!Delete

LEMMA AnswersKept ==
  ASSUME Tree!TypeOK, DeletesAnswer, bin \subseteq bin', spent \subseteq spent', FiledOrThere,
         NEW s \in Requests, folderRequest'[s] = folderRequest[s], Deletes(s)
  PROVE  AnswersWell(s)'
<1>1. ASSUME NEW c \in folderRequest[s].known PROVE Answers(s, c)'
  <2>1. c \in Tree!Pictures /\ Answers(s, c)
    BY DeleteTypes DEF DeletesAnswer
  <2>2. CASE Filed(c)
    BY <2>2 DEF Answers, Filed
  <2>3. CASE folderRequest[s].failed
    BY <2>3 DEF Answers
  <2>4. ASSUME NEW x \in folderRequest[s].todo, x[2][1] = folderRequest[s].dir, photoDisk[x[2]] = c
        PROVE  Answers(s, c)'
    <3>1. x[2] \in Tree!Spots
      BY DeleteTypes
    <3>2. photoDisk'[x[2]] = c \/ Filed(c)'
      BY <2>1, <2>4, <3>1 DEF FiledOrThere, Filed
    <3>3. QED
      BY <2>4, <3>2 DEF Answers
  <2>5. QED
    BY <2>1, <2>2, <2>3, <2>4 DEF Answers
<1>2. QED
  BY <1>1 DEF AnswersWell, DeletesAnswer

LEMMA DiskAnswers ==
  ASSUME Tree!TypeOK, DeletesAnswer, UploadsSpare, bin \subseteq bin', spent \subseteq spent',
         FiledOrThere, NEW r \in Requests,
         \A s \in Requests : s # r => folderRequest'[s] = folderRequest[s],
         folderRequest'[r].op = "upload" => folderRequest'[r].spares,
         Deletes(r)' => AnswersWell(r)'
  PROVE  DeletesAnswer' /\ UploadsSpare'
<1>1. ASSUME NEW s \in Requests, Deletes(s)' PROVE AnswersWell(s)'
  <2>1. CASE s = r
    BY <1>1, <2>1
  <2>2. CASE s # r
    BY <1>1, <2>2, AnswersKept DEF Deletes
  <2>3. QED
    BY <2>1, <2>2
<1>2. DeletesAnswer'
  BY <1>1 DEF DeletesAnswer, AnswersWell
<1>3. UploadsSpare'
  BY DEF UploadsSpare
<1>4. QED
  BY <1>2, <1>3

LEMMA DiskSurvives ==
  ASSUME Tree!PicturesSurvive, Tree!FoldersConstants, Tree!TypeOK, by' = by, bin \subseteq bin', spent \subseteq spent',
         FiledOrThere
  PROVE  Tree!PicturesSurvive'
<1>1. ASSUME NEW c \in Tree!Made PROVE c \in bin' \cup spent' \/ \E p \in Tree!Spots : photoDisk'[p] = c
  <2>1. c \in Tree!Pictures
    BY MadeTypes
  <2>2. QED
    BY <2>1 DEF Tree!PicturesSurvive, FiledOrThere
<1>2. QED
  BY <1>1 DEF Tree!PicturesSurvive, Tree!Made

LEMMA DeleteSelectStep ==
  ASSUME Tree!FoldersConstants, TreeInv, NEW r \in Requests, Tree!DeleteSelect(r)
  PROVE  TreeInv'
<1> DEFINE d == folderRequest[r].dir
           q == [folderRequest[r] EXCEPT !.pc = "trash",
                   !.todo = {<<i, rows[i].path>> : i \in Tree!ActiveIn(d)},
                   !.known = {photoDisk[rows[i].path] : i \in Tree!ActiveIn(d)} \ {Tree!None}]
<1>1. folderRequest[r] \in Tree!Delete /\ Deletes(r)
  BY DeleteTypes DEF Tree!DeleteSelect, Deletes, TreeInv
<1>2. \A i \in Tree!ActiveIn(d) : i \in Tree!Ids /\ rows[i] # Tree!NoRow /\ rows[i].path \in Tree!Spots /\ rows[i].path[1] = d
  BY RowFields DEF Tree!ActiveIn, Tree!Active, Tree!NoRow, TreeInv
<1>3. \A i \in Tree!ActiveIn(d) : photoDisk[rows[i].path] \in Tree!Pictures \cup {Tree!None}
  BY <1>2 DEF TreeInv, Tree!TypeOK
<1>4. {<<i, rows[i].path>> : i \in Tree!ActiveIn(d)} \in SUBSET (Tree!Ids \X Tree!Spots)
  BY <1>2
<1>5. {photoDisk[rows[i].path] : i \in Tree!ActiveIn(d)} \ {Tree!None} \in SUBSET Tree!Pictures
  BY <1>3
<1>6. q \in Tree!Delete /\ q.op = "delete" /\ q.pc = "trash" /\ q.moved = folderRequest[r].moved /\ q.dir = d
      /\ q.todo = {<<i, rows[i].path>> : i \in Tree!ActiveIn(d)}
      /\ q.known = {photoDisk[rows[i].path] : i \in Tree!ActiveIn(d)} \ {Tree!None}
  BY <1>1, <1>4, <1>5 DEF Tree!Delete
<1>7. /\ folderRequest' \in [Requests -> Tree!Upload \cup Tree!Rename \cup Tree!Delete \cup {Tree!NoRequest, Tree!Served}]
      /\ folderRequest'[r] = q /\ \A s \in Requests : s # r => folderRequest'[s] = folderRequest[s]
  BY <1>6, SetTypes DEF Tree!DeleteSelect, Tree!Set, TreeInv
<1>8. UNCHANGED <<dirs, photoDisk, bin, rows, pending, folderScan, by, spent, strayed>>
  BY DEF Tree!DeleteSelect
<1>9. Tree!TypeOK'
  BY <1>7, <1>8, RestTypes DEF TreeInv, Tree!TypeOK
<1>10. RowsLast'
  <2>1. \A i \in q.moved : rows[i] # Tree!NoRow /\ i \in Tree!Ids
    BY <1>1, <1>6, DeleteTypes DEF TreeInv, RowsLast
  <2>2. \A x \in q.todo : rows[x[1]] # Tree!NoRow /\ x[1] \in Tree!Ids
    BY <1>2, <1>6
  <2>3. QED
    BY <1>7, <1>8, <2>1, <2>2, OneHasRows DEF TreeInv
<1>11. DeletesAnswer' /\ UploadsSpare'
  <2>1. ASSUME NEW c \in q.known PROVE Answers(r, c)'
    <3>1. PICK i \in Tree!ActiveIn(d) : c = photoDisk[rows[i].path]
      BY <1>6
    <3>2. <<i, rows[i].path>> \in q.todo /\ rows[i].path[1] = d
      BY <1>2, <1>6
    <3>3. <<i, rows[i].path>> \in folderRequest'[r].todo /\ rows[i].path[1] = folderRequest'[r].dir
      BY <1>6, <1>7, <3>2
    <3>4. photoDisk'[rows[i].path] = c
      BY <1>8, <3>1
    <3>5. QED
      BY <3>3, <3>4 DEF Answers
  <2>2. QED
    BY <1>6, <1>7, <1>8, <2>1, OneAnswers DEF TreeInv
<1>12. Tree!PicturesSurvive' /\ OnlyMade' /\ NotesRight'
  BY <1>8, QuietSurvives, QuietNotes DEF TreeInv, QuietDisk
<1>13. NotesAwaited'
  BY <1>6, <1>7, <1>8, OneAwaits DEF TreeInv
<1>14. QED
  BY <1>9, <1>10, <1>11, <1>12, <1>13 DEF TreeInv

LEMMA DeleteTrashStep ==
  ASSUME Tree!FoldersConstants, TreeInv, NEW r \in Requests, NEW x \in Tree!Ids \X Tree!Spots, Tree!DeleteTrash(r, x)
  PROVE  TreeInv'
<1> DEFINE q == folderRequest[r]
           c == photoDisk[x[2]]
<1>1. q \in Tree!Delete /\ Deletes(r) /\ x \in q.todo /\ x[1] \in Tree!Ids /\ x[2] \in Tree!Spots /\ rows[x[1]] # Tree!NoRow
  BY DeleteTypes DEF Tree!DeleteTrash, Deletes, TreeInv, RowsLast
<1>2. q.pc # "rmtree" /\ (q.pc = "select" => q.known = {})
  BY <1>1 DEF TreeInv, DeletesAnswer
<1>3. UNCHANGED <<dirs, rows, pending, folderScan, by, spent>>
  BY DEF Tree!DeleteTrash
<1>4. CASE /\ c # Tree!None
           /\ bin' = bin \cup {c} /\ photoDisk' = [photoDisk EXCEPT ![x[2]] = Tree!None]
           /\ Tree!Leave({x[2]})
           /\ Tree!Set(r, [q EXCEPT !.todo = @ \ {x}, !.moved = @ \cup {x[1]}])
  <2> DEFINE n == [q EXCEPT !.todo = @ \ {x}, !.moved = @ \cup {x[1]}]
  <2>1. /\ n \in Tree!Delete /\ n.op = "delete" /\ n.todo = q.todo \ {x} /\ n.moved = q.moved \cup {x[1]}
        /\ n.pc = q.pc /\ n.failed = q.failed /\ n.known = q.known /\ n.dir = q.dir
    BY <1>1 DEF Tree!Delete
  <2>2. /\ folderRequest' \in [Requests -> Tree!Upload \cup Tree!Rename \cup Tree!Delete \cup {Tree!NoRequest, Tree!Served}]
        /\ folderRequest'[r] = n /\ \A s \in Requests : s # r => folderRequest'[s] = folderRequest[s]
    BY <1>4, <2>1, SetTypes DEF Tree!Set, TreeInv
  <2>3. c \in Tree!Pictures /\ c \in bin' /\ bin \subseteq bin' /\ spent' = spent
    BY <1>1, <1>3, <1>4 DEF TreeInv, Tree!TypeOK
  <2>4. /\ photoDisk' \in [Tree!Spots -> Tree!Pictures \cup {Tree!None}] /\ photoDisk'[x[2]] = Tree!None
        /\ \A p \in Tree!Spots : p # x[2] => photoDisk'[p] = photoDisk[p]
    BY <1>1, <1>4 DEF TreeInv, Tree!TypeOK
  <2>5. strayed' \subseteq Tree!Spots /\ strayed \subseteq strayed' /\ (pending[x[2]] # Tree!Nobody => x[2] \in strayed')
    BY <1>1, <1>4 DEF Tree!Leave, TreeInv, Tree!TypeOK
  <2>6. Tree!TypeOK'
    BY <1>3, <2>2, <2>3, <2>4, <2>5, <1>4 DEF TreeInv, Tree!TypeOK
  <2>7. RowsLast'
    <3>1. \A i \in n.moved : rows[i] # Tree!NoRow /\ i \in Tree!Ids
      BY <1>1, <2>1, DeleteTypes DEF TreeInv, RowsLast
    <3>2. \A y \in n.todo : rows[y[1]] # Tree!NoRow /\ y[1] \in Tree!Ids
      BY <1>1, <2>1, DeleteTypes DEF TreeInv, RowsLast
    <3>3. QED
      BY <1>3, <2>2, <3>1, <3>2, OneHasRows DEF TreeInv
  <2>8. FiledOrThere
    BY <2>3, <2>4 DEF FiledOrThere
  <2>9. AnswersWell(r)'
    <3>1. ASSUME NEW k \in q.known PROVE Answers(r, k)'
      <4>1. k \in Tree!Pictures /\ Answers(r, k)
        BY <1>1, DeleteTypes DEF TreeInv, DeletesAnswer
      <4>2. CASE Filed(k)
        BY <2>3, <4>2 DEF Answers, Filed
      <4>3. CASE q.failed
        BY <2>1, <2>2, <4>3 DEF Answers
      <4>4. ASSUME NEW y \in q.todo, y[2][1] = q.dir, photoDisk[y[2]] = k
            PROVE  Answers(r, k)'
        <5>1. y[2] \in Tree!Spots
          BY <1>1, DeleteTypes DEF TreeInv
        <5>2. CASE y[2] = x[2]
          BY <2>3, <4>4, <5>2 DEF Answers, Filed
        <5>3. CASE y[2] # x[2]
          <6>1. photoDisk'[y[2]] = k /\ y \in n.todo
            BY <2>1, <2>4, <4>4, <5>1, <5>3
          <6>2. QED
            BY <2>1, <2>2, <4>4, <6>1 DEF Answers
        <5>4. QED
          BY <5>2, <5>3
      <4>5. QED
        BY <4>1, <4>2, <4>3, <4>4 DEF Answers
    <3>2. QED
      BY <1>2, <2>1, <2>2, <3>1 DEF AnswersWell
  <2>10. DeletesAnswer' /\ UploadsSpare'
    BY <2>1, <2>2, <2>3, <2>8, <2>9, DiskAnswers DEF TreeInv
  <2>11. Tree!PicturesSurvive'
    BY <1>3, <2>3, <2>8, DiskSurvives DEF TreeInv
  <2>12. OnlyMade'
    BY <1>3, <2>4 DEF OnlyMade, TreeInv, Tree!Made
  <2>13. NotesRight'
    BY <1>3, <2>4, <2>5 DEF NotesRight, TreeInv
  <2>14. NotesAwaited'
    <3>1. \A s \in Requests, p \in Tree!Spots : Awaits(s, p)' =>
            Awaits(s, p) /\ folderRequest'[s].user = folderRequest[s].user
      BY <2>1, <2>2 DEF Awaits
    <3>2. QED
      BY <1>1, <1>3, <1>4, <2>4, <3>1, LeftAwaited DEF TreeInv
  <2>15. QED
    BY <2>6, <2>7, <2>10, <2>11, <2>12, <2>13, <2>14 DEF TreeInv
<1>5. CASE /\ Tree!Set(r, [q EXCEPT !.todo = @ \ {x}, !.failed = TRUE])
           /\ UNCHANGED <<photoDisk, bin, strayed>>
  <2> DEFINE n == [q EXCEPT !.todo = @ \ {x}, !.failed = TRUE]
  <2>1. /\ n \in Tree!Delete /\ n.op = "delete" /\ n.todo = q.todo \ {x} /\ n.moved = q.moved
        /\ n.pc = q.pc /\ n.failed = TRUE /\ n.known = q.known /\ n.dir = q.dir
    BY <1>1 DEF Tree!Delete
  <2>2. /\ folderRequest' \in [Requests -> Tree!Upload \cup Tree!Rename \cup Tree!Delete \cup {Tree!NoRequest, Tree!Served}]
        /\ folderRequest'[r] = n /\ \A s \in Requests : s # r => folderRequest'[s] = folderRequest[s]
    BY <1>5, <2>1, SetTypes DEF Tree!Set, TreeInv
  <2>3. Tree!TypeOK'
    BY <1>3, <1>5, <2>2, RestTypes DEF TreeInv, Tree!TypeOK
  <2>4. RowsLast'
    <3>1. \A i \in n.moved : rows[i] # Tree!NoRow /\ i \in Tree!Ids
      BY <1>1, <2>1, DeleteTypes DEF TreeInv, RowsLast
    <3>2. \A y \in n.todo : rows[y[1]] # Tree!NoRow /\ y[1] \in Tree!Ids
      BY <1>1, <2>1, DeleteTypes DEF TreeInv, RowsLast
    <3>3. QED
      BY <1>3, <2>2, <3>1, <3>2, OneHasRows DEF TreeInv
  <2>5. DeletesAnswer' /\ UploadsSpare'
    BY <1>2, <1>3, <1>5, <2>1, <2>2, OneAnswers DEF TreeInv, Answers
  <2>6. Tree!PicturesSurvive' /\ OnlyMade' /\ NotesRight'
    BY <1>3, <1>5, QuietSurvives, QuietNotes DEF TreeInv, QuietDisk
  <2>7. NotesAwaited'
    BY <1>3, <1>5, <2>1, <2>2, OneAwaits DEF TreeInv
  <2>8. QED
    BY <2>3, <2>4, <2>5, <2>6, <2>7 DEF TreeInv
<1>6. QED
  BY <1>4, <1>5 DEF Tree!DeleteTrash

LEMMA DeleteCommitStep ==
  ASSUME Tree!FoldersConstants, TreeInv, NEW r \in Requests, Tree!DeleteCommit(r)
  PROVE  TreeInv'
<1> DEFINE q == folderRequest[r]
           n == IF Tree!Aborts(r) THEN Tree!Served ELSE [q EXCEPT !.pc = "rmtree"]
<1>1. q \in Tree!Delete /\ Deletes(r) /\ q.todo = {} /\ q.moved \subseteq Tree!Ids
  BY DeleteTypes DEF Tree!DeleteCommit, Deletes, TreeInv
<1>2. \A i \in q.moved : rows[i] # Tree!NoRow
  BY <1>1 DEF TreeInv, RowsLast
<1>3. UNCHANGED <<dirs, photoDisk, bin, pending, folderScan, by, spent, strayed>>
  BY DEF Tree!DeleteCommit
<1>4. n \in Tree!Upload \cup Tree!Rename \cup Tree!Delete \cup {Tree!NoRequest, Tree!Served}
  BY <1>1 DEF Tree!Delete
<1>5. n.op = "delete" => /\ ~q.failed /\ n.pc = "rmtree" /\ n.failed = q.failed /\ n.todo = {}
                         /\ n.moved = q.moved /\ n.known = q.known /\ n.dir = q.dir
  BY <1>1 DEF Tree!Delete, Tree!Aborts, Tree!Served
<1>6. n.op # "upload"
  BY <1>1 DEF Tree!Delete, Tree!Served
<1>7. folderRequest' = [folderRequest EXCEPT ![r] = n]
  BY DEF Tree!DeleteCommit, Tree!Over, Tree!Set
<1>8. /\ folderRequest' \in [Requests -> Tree!Upload \cup Tree!Rename \cup Tree!Delete \cup {Tree!NoRequest, Tree!Served}]
      /\ folderRequest'[r] = n /\ \A s \in Requests : s # r => folderRequest'[s] = folderRequest[s]
  BY <1>4, <1>7, SetTypes DEF TreeInv
<1>9. RowsTyped' /\ \A i \in Tree!Ids : rows[i] # Tree!NoRow => rows'[i] # Tree!NoRow
  BY <1>1, <1>2, StatusTyped DEF Tree!DeleteCommit, TreeInv
<1>10. Tree!TypeOK'
  BY <1>3, <1>8, <1>9 DEF TreeInv, Tree!TypeOK, RowsTyped
<1>11. RowsLast'
  BY <1>1, <1>2, <1>3, <1>5, <1>8, <1>9, OneHasRows DEF TreeInv, Deletes
<1>12. DeletesAnswer' /\ UploadsSpare'
  <2>1. ASSUME n.op = "delete", NEW c \in n.known PROVE Answers(r, c)'
    <3>1. Answers(r, c)
      BY <1>1, <1>5, <2>1 DEF TreeInv, DeletesAnswer
    <3>2. Filed(c)
      BY <1>1, <1>5, <2>1, <3>1 DEF Answers
    <3>3. QED
      BY <1>3, <3>2 DEF Answers, Filed
  <2>2. QED
    BY <1>3, <1>5, <1>6, <1>8, <2>1, OneAnswers DEF TreeInv, Deletes
<1>13. Tree!PicturesSurvive' /\ OnlyMade' /\ NotesRight'
  BY <1>3, QuietSurvives, QuietNotes DEF TreeInv, QuietDisk
<1>14. NotesAwaited'
  BY <1>3, <1>6, <1>8, OneAwaits DEF TreeInv
<1>15. QED
  BY <1>10, <1>11, <1>12, <1>13, <1>14 DEF TreeInv

\* What a directory that is removed still holds is known to the delete, and filed,
\* or is destroyed in a way that is named.
LEMMA RmtreeStep ==
  ASSUME Tree!FoldersConstants, TreeInv, NEW r \in Requests, Tree!Rmtree(r)
  PROVE  TreeInv'
<1> DEFINE q == folderRequest[r]
           d == q.dir
<1>1. q \in Tree!Delete /\ Deletes(r) /\ d \in Dirs
  BY DeleteTypes DEF Tree!Rmtree, Deletes, TreeInv
<1>2. \A c \in q.known : Filed(c)
  BY <1>1 DEF Tree!Rmtree, TreeInv, DeletesAnswer, Answers
<1>3. UNCHANGED <<bin, rows, pending, folderScan, by>> /\ dirs' = dirs \ {d}
  BY DEF Tree!Rmtree
<1>4. /\ folderRequest' \in [Requests -> Tree!Upload \cup Tree!Rename \cup Tree!Delete \cup {Tree!NoRequest, Tree!Served}]
      /\ folderRequest'[r] = Tree!Served /\ \A s \in Requests : s # r => folderRequest'[s] = folderRequest[s]
  BY SetTypes DEF Tree!Over, TreeInv, Tree!Rmtree
<1>5. /\ photoDisk' \in [Tree!Spots -> Tree!Pictures \cup {Tree!None}]
      /\ \A p \in Tree!Spots : photoDisk'[p] = IF p[1] = d THEN Tree!None ELSE photoDisk[p]
  BY DEF Tree!Rmtree, TreeInv, Tree!TypeOK
<1>6. /\ spent' \subseteq Tree!Pictures /\ spent \subseteq spent'
      /\ \A p \in Tree!In(d) : photoDisk[p] \in Tree!Pictures => photoDisk[p] \in q.known \cup spent'
  <2>1. spent' = spent \cup ({photoDisk[p] : p \in Tree!In(d)} \ (q.known \cup {Tree!None}))
    BY DEF Tree!Rmtree
  <2>2. \A p \in Tree!In(d) : photoDisk[p] \in Tree!Pictures \cup {Tree!None}
    BY DEF Tree!In, TreeInv, Tree!TypeOK
  <2>3. QED
    BY <2>1, <2>2, NoneIsNoPicture DEF TreeInv, Tree!TypeOK
<1>7. strayed' = strayed \cup {p \in Tree!In(d) : pending[p] # Tree!Nobody \/ p \in Tree!Awaited}
  BY DEF Tree!Rmtree, Tree!Leave
<1>8. Tree!TypeOK'
  BY <1>3, <1>4, <1>5, <1>6, <1>7, SpotTypes DEF TreeInv, Tree!TypeOK
<1>9. RowsLast'
  BY <1>3, <1>4, OneHasRows DEF TreeInv, Deletes, Tree!Served
<1>10. FiledOrThere
  <2>1. ASSUME NEW p \in Tree!Spots, NEW c \in Tree!Pictures, photoDisk[p] = c, p[1] = d
        PROVE  c \in bin' \cup spent'
    BY <1>2, <1>3, <1>6, <2>1 DEF Tree!In, Filed
  <2>2. QED
    BY <1>5, <2>1 DEF FiledOrThere
<1>11. DeletesAnswer' /\ UploadsSpare'
  BY <1>3, <1>4, <1>6, <1>10, DiskAnswers DEF TreeInv, Deletes, Tree!Served
<1>12. Tree!PicturesSurvive'
  BY <1>3, <1>6, <1>10, DiskSurvives DEF TreeInv
<1>13. OnlyMade'
  BY <1>3, <1>5 DEF OnlyMade, TreeInv, Tree!Made
<1>14. NotesRight'
  BY <1>3, <1>5, <1>7 DEF NotesRight, TreeInv, Tree!In
<1>15. NotesAwaited'
  <2>1. \A s \in Requests, p \in Tree!Spots : Awaits(s, p)' =>
          Awaits(s, p) /\ folderRequest'[s].user = folderRequest[s].user
    BY <1>4 DEF Awaits, Tree!Served
  <2>2. \A p \in Tree!Spots \ Tree!In(d) : photoDisk'[p] = photoDisk[p]
    BY <1>5 DEF Tree!In
  <2>3. Tree!Leave(Tree!In(d)) /\ Tree!In(d) \in SUBSET Tree!Spots
    BY SpotTypes DEF Tree!Rmtree
  <2>4. QED
    BY <1>3, <2>1, <2>2, <2>3, LeftAwaited DEF TreeInv
<1>16. QED
  BY <1>8, <1>9, <1>11, <1>12, <1>13, <1>14, <1>15 DEF TreeInv

\* The pictures of a renamed folder are at the same names of the other; a delete under
\* way answers for the rest, which are where they were.
LEMMA RenameDiskStep ==
  ASSUME Tree!FoldersConstants, TreeInv, NEW r \in Requests, Tree!RenameDisk(r)
  PROVE  TreeInv'
<1> DEFINE d == folderRequest[r].dir
           e == folderRequest[r].to
<1>1. folderRequest[r] \in Tree!Rename /\ d \in Dirs /\ e \in Dirs
  BY RequestTypes DEF Tree!RenameDisk, TreeInv, Tree!Rename
<1>2. CASE Tree!Over(r) /\ UNCHANGED <<dirs, photoDisk, strayed>>
  <2>1. NotesRight'
    BY <1>2, QuietNotes DEF TreeInv, Tree!RenameDisk
  <2>2. QED
    BY <1>2, <2>1, OverStep DEF TreeInv, Tree!TypeOK, Tree!RenameDisk
<1>3. CASE /\ ~ \E p \in Tree!In(e) : photoDisk[p] # Tree!None
           /\ dirs' = (dirs \ {d}) \cup {e}
           /\ photoDisk' = [p \in Tree!Spots |-> IF p[1] = e THEN photoDisk[<<d, p[2]>>]
                                                 ELSE IF p[1] = d THEN Tree!None ELSE photoDisk[p]]
           /\ Tree!Leave(Tree!In(d))
           /\ folderRequest' = [q \in Requests |-> IF q = r THEN [folderRequest[q] EXCEPT !.pc = "rows"]
                                                   ELSE Tree!Unwatched(q, d)]
  <2> DEFINE D == {photoDisk[p] : p \in Tree!In(d)}
  <2>1. UNCHANGED <<bin, rows, pending, folderScan, by, spent>>
    BY DEF Tree!RenameDisk
  <2>2. \A p \in Tree!Spots : p[1] = e => photoDisk[p] = Tree!None
    BY <1>3 DEF Tree!In
  <2>3. \A p \in Tree!Spots : photoDisk'[p] = IF p[1] = e THEN photoDisk[<<d, p[2]>>]
                                              ELSE IF p[1] = d THEN Tree!None ELSE photoDisk[p]
    BY <1>3
  <2>4. photoDisk' \in [Tree!Spots -> Tree!Pictures \cup {Tree!None}]
    BY <1>1, <1>3, SpotTypes DEF TreeInv, Tree!TypeOK
  <2>5. folderRequest'[r] \in Tree!Rename /\ folderRequest'[r].op = "rename"
    BY <1>1, <1>3 DEF Tree!Rename
  <2>6. ASSUME NEW s \in Requests, s # r
        PROVE  /\ ~Deletes(s) => folderRequest'[s] = folderRequest[s]
               /\ Deletes(s) => /\ folderRequest'[s] \in Tree!Delete
                                /\ folderRequest'[s] = [folderRequest[s] EXCEPT !.known = @ \ D]
               /\ Deletes(s)' => Deletes(s)
    <3>1. folderRequest'[s] = Tree!Unwatched(s, d)
      BY <1>3, <2>6
    <3>2. CASE Deletes(s)
      <4>1. folderRequest[s] \in Tree!Delete
        BY <3>2, DeleteTypes DEF TreeInv
      <4>2. folderRequest'[s] = [folderRequest[s] EXCEPT !.known = @ \ D]
        BY <3>1, <3>2 DEF Tree!Unwatched, Deletes
      <4>3. QED
        BY <3>2, <4>1, <4>2 DEF Tree!Delete
    <3>3. CASE ~Deletes(s)
      BY <3>1, <3>3 DEF Tree!Unwatched, Deletes
    <3>4. QED
      BY <3>2, <3>3
  <2>7. folderRequest' \in [Requests -> Tree!Upload \cup Tree!Rename \cup Tree!Delete \cup {Tree!NoRequest, Tree!Served}]
    <3>1. \A s \in Requests : folderRequest'[s] \in Tree!Upload \cup Tree!Rename \cup Tree!Delete \cup {Tree!NoRequest, Tree!Served}
      BY <2>5, <2>6 DEF TreeInv, Tree!TypeOK
    <3>2. QED
      BY <1>3, <3>1
  <2>8. strayed' = strayed \cup {p \in Tree!In(d) : pending[p] # Tree!Nobody \/ p \in Tree!Awaited}
    BY <1>3 DEF Tree!Leave
  <2>9. Tree!TypeOK'
    BY <1>1, <1>3, <2>1, <2>4, <2>7, <2>8, SpotTypes DEF TreeInv, Tree!TypeOK
  <2>10. \A s \in Requests : Deletes(s)' =>
           /\ s # r /\ Deletes(s) /\ folderRequest[s] \in Tree!Delete
           /\ folderRequest'[s].pc = folderRequest[s].pc /\ folderRequest'[s].todo = folderRequest[s].todo
           /\ folderRequest'[s].moved = folderRequest[s].moved /\ folderRequest'[s].failed = folderRequest[s].failed
           /\ folderRequest'[s].dir = folderRequest[s].dir
           /\ folderRequest'[s].known = folderRequest[s].known \ D
    <3> SUFFICES ASSUME NEW s \in Requests, Deletes(s)'
                 PROVE  /\ s # r /\ Deletes(s) /\ folderRequest[s] \in Tree!Delete
                        /\ folderRequest'[s].pc = folderRequest[s].pc /\ folderRequest'[s].todo = folderRequest[s].todo
                        /\ folderRequest'[s].moved = folderRequest[s].moved /\ folderRequest'[s].failed = folderRequest[s].failed
                        /\ folderRequest'[s].dir = folderRequest[s].dir
                        /\ folderRequest'[s].known = folderRequest[s].known \ D
      OBVIOUS
    <3>1. s # r
      BY <2>5 DEF Deletes
    <3>2. Deletes(s) /\ folderRequest'[s] = [folderRequest[s] EXCEPT !.known = @ \ D]
      BY <2>6, <3>1
    <3>3. folderRequest[s] \in Tree!Delete
      BY <3>2, DeleteTypes DEF TreeInv
    <3>4. QED
      BY <3>1, <3>2, <3>3 DEF Tree!Delete
  <2>11. RowsLast'
    BY <2>1, <2>10 DEF TreeInv, RowsLast
  <2>12. ASSUME NEW s \in Requests, Deletes(s)', NEW c \in folderRequest'[s].known
         PROVE  Answers(s, c)'
    <3>1. c \in Tree!Pictures /\ c # Tree!None /\ c \notin D /\ Answers(s, c)
      BY <2>10, <2>12, DeleteTypes, NoneIsNoPicture DEF TreeInv, DeletesAnswer
    <3>2. CASE Filed(c)
      BY <2>1, <3>2 DEF Answers, Filed
    <3>3. CASE folderRequest[s].failed
      BY <2>10, <2>12, <3>3 DEF Answers
    <3>4. ASSUME NEW x \in folderRequest[s].todo, x[2][1] = folderRequest[s].dir, photoDisk[x[2]] = c
          PROVE  Answers(s, c)'
      <4>1. x[2] \in Tree!Spots
        BY <2>10, <2>12, DeleteTypes DEF TreeInv
      <4>2. x[2][1] # d /\ x[2][1] # e
        BY <2>2, <3>1, <3>4, <4>1 DEF Tree!In
      <4>3. photoDisk'[x[2]] = c
        BY <2>3, <3>4, <4>1, <4>2
      <4>4. x \in folderRequest'[s].todo /\ x[2][1] = folderRequest'[s].dir
        BY <2>10, <2>12, <3>4
      <4>5. QED
        BY <4>3, <4>4 DEF Answers
    <3>5. QED
      BY <3>1, <3>2, <3>3, <3>4 DEF Answers
  <2>13. DeletesAnswer'
    <3>1. ASSUME NEW s \in Requests, Deletes(s)'
          PROVE  /\ folderRequest'[s].pc = "select" => folderRequest'[s].known = {}
                 /\ folderRequest'[s].pc = "rmtree" => ~folderRequest'[s].failed /\ folderRequest'[s].todo = {}
      <4>1. /\ folderRequest[s].pc = "select" => folderRequest[s].known = {}
            /\ folderRequest[s].pc = "rmtree" => ~folderRequest[s].failed /\ folderRequest[s].todo = {}
        BY <2>10, <3>1 DEF TreeInv, DeletesAnswer
      <4>2. QED
        BY <2>10, <3>1, <4>1
    <3>2. QED
      BY <2>12, <3>1 DEF DeletesAnswer
  <2>14. UploadsSpare'
    <3>1. ASSUME NEW s \in Requests, folderRequest'[s].op = "upload" PROVE folderRequest'[s].spares
      <4>1. s # r
        BY <2>5, <3>1
      <4>2. ~Deletes(s)
        <5>1. ASSUME Deletes(s) PROVE FALSE
          BY <2>6, <3>1, <4>1, <5>1 DEF Tree!Delete
        <5>2. QED
          BY <5>1
      <4>3. QED
        BY <2>6, <3>1, <4>1, <4>2 DEF TreeInv, UploadsSpare
    <3>2. QED
      BY <3>1 DEF UploadsSpare
  <2>15. Tree!PicturesSurvive'
    <3>1. ASSUME NEW c \in Tree!Made, NEW p \in Tree!Spots, photoDisk[p] = c
          PROVE  \E s \in Tree!Spots : photoDisk'[s] = c
      <4>1. c # Tree!None
        BY MadeTypes, NoneIsNoPicture DEF TreeInv
      <4>2. p[1] # e
        BY <2>2, <3>1, <4>1
      <4>3. CASE p[1] = d
        <5>1. <<e, p[2]>> \in Tree!Spots /\ <<e, p[2]>>[1] = e /\ <<e, p[2]>>[2] = p[2] /\ p = <<d, p[2]>>
          BY <1>1, <4>3, SpotTypes
        <5>2. photoDisk'[<<e, p[2]>>] = c
          BY <2>3, <3>1, <5>1
        <5>3. QED
          BY <5>1, <5>2
      <4>4. CASE p[1] # d
        BY <2>3, <3>1, <4>2, <4>4
      <4>5. QED
        BY <4>3, <4>4
    <3>2. QED
      BY <2>1, <3>1 DEF Tree!PicturesSurvive, TreeInv, Tree!Made
  <2>16. OnlyMade'
    <3>1. ASSUME NEW p \in Tree!Spots, photoDisk'[p] # Tree!None PROVE photoDisk'[p] \in Tree!Made
      <4>1. <<d, p[2]>> \in Tree!Spots
        BY <1>1, SpotTypes
      <4>2. QED
        BY <2>3, <3>1, <4>1 DEF TreeInv, OnlyMade
    <3>2. QED
      BY <2>1, <3>1 DEF OnlyMade, Tree!Made
  <2>17. NotesRight'
    <3>1. ASSUME NEW p \in Tree!Spots, pending[p] # Tree!Nobody, p \notin strayed'
          PROVE  photoDisk'[p] # Tree!None /\ by[photoDisk'[p]] = pending[p]
      <4>1. p[1] # d /\ p \notin strayed
        BY <2>8, <3>1 DEF Tree!In
      <4>2. photoDisk[p] # Tree!None /\ by[photoDisk[p]] = pending[p]
        BY <3>1, <4>1 DEF TreeInv, NotesRight
      <4>3. p[1] # e
        BY <2>2, <4>2
      <4>4. QED
        BY <2>3, <4>1, <4>2, <4>3
    <3>2. QED
      BY <2>1, <3>1 DEF NotesRight
  <2>18. NotesAwaited'
    <3>1. ASSUME NEW s \in Requests, NEW p \in Tree!Spots, Awaits(s, p)'
          PROVE  Awaits(s, p) /\ folderRequest'[s].user = folderRequest[s].user
      <4>1. s # r
        BY <2>5, <3>1 DEF Awaits
      <4>2. ~Deletes(s)
        <5>1. ASSUME Deletes(s) PROVE FALSE
          BY <2>6, <3>1, <4>1, <5>1 DEF Tree!Delete, Awaits
        <5>2. QED
          BY <5>1
      <4>3. QED
        BY <2>6, <3>1, <4>1, <4>2 DEF Awaits
    <3>2. ASSUME NEW p \in Tree!Spots \ Tree!In(d), photoDisk[p] # Tree!None
          PROVE  photoDisk'[p] = photoDisk[p]
      BY <2>2, <2>3, <3>2 DEF Tree!In
    <3>3. Tree!Leave(Tree!In(d)) /\ Tree!In(d) \in SUBSET Tree!Spots
      BY <1>3, SpotTypes
    <3>4. QED
      BY <2>1, <3>1, <3>2, <3>3, LeftAwaited DEF TreeInv
  <2>19. QED
    BY <2>9, <2>11, <2>13, <2>14, <2>15, <2>16, <2>17, <2>18 DEF TreeInv
<1>4. QED
  BY <1>2, <1>3 DEF Tree!RenameDisk

\* A picture is put at a path, or removed: what was there is named, and its notes marked.
LEMMA WriteStep ==
  ASSUME Tree!FoldersConstants, TreeInv, NEW p \in Tree!Spots, NEW u \in Users \cup {Tree!Nobody},
         NEW c \in Tree!Pictures \cup {Tree!None}, photoDisk' = [photoDisk EXCEPT ![p] = c],
         \/ /\ c = Cardinality(Tree!Made) + 1 /\ c \in Tree!Pictures
            /\ by' = [k \in 1..c |-> IF k = c THEN u ELSE by[k]]
         \/ c = Tree!None /\ by' = by,
         photoDisk[p] # Tree!None => photoDisk[p] \in spent' /\ p \in strayed',
         spent' \subseteq Tree!Pictures, spent \subseteq spent',
         strayed' \subseteq Tree!Spots, strayed \subseteq strayed',
         UNCHANGED <<dirs, bin, rows, pending, folderScan>>, RowsLast', UploadsSpare',
         folderRequest' \in [Requests -> Tree!Upload \cup Tree!Rename \cup Tree!Delete \cup {Tree!NoRequest, Tree!Served}],
         \A s \in Requests : Deletes(s)' => folderRequest'[s] = folderRequest[s],
         \A s \in Requests, l \in Tree!Spots : Awaits(s, l)' =>
           \/ Awaits(s, l) /\ folderRequest'[s].user = folderRequest[s].user
           \/ l = p /\ c # Tree!None /\ folderRequest'[s].user = u
  PROVE  TreeInv'
<1>1. /\ photoDisk' \in [Tree!Spots -> Tree!Pictures \cup {Tree!None}] /\ photoDisk'[p] = c
      /\ \A s \in Tree!Spots : s # p => photoDisk'[s] = photoDisk[s]
  BY DEF TreeInv, Tree!TypeOK
<1>2. /\ Tree!Made \subseteq Tree!Made' /\ \A k \in Tree!Made : by'[k] = by[k]
      /\ Tree!Made' \subseteq Tree!Made \cup ({c} \ {Tree!None})
      /\ c # Tree!None => c \in Tree!Made' /\ by'[c] = u
      /\ \E m \in 0..MaxMade : by' \in [1..m -> Users \cup {Tree!Nobody}]
  <2>1. CASE c = Tree!None /\ by' = by
    BY <2>1 DEF Tree!Made, TreeInv, Tree!TypeOK
  <2>2. CASE /\ c = Cardinality(Tree!Made) + 1 /\ c \in Tree!Pictures
             /\ by' = [k \in 1..c |-> IF k = c THEN u ELSE by[k]]
    <3>1. Cardinality(Tree!Made) \in 0..MaxMade /\ Tree!Made = 1..Cardinality(Tree!Made)
          /\ by \in [Tree!Made -> Users \cup {Tree!Nobody}]
      BY MadeTypes DEF TreeInv
    <3>2. c \in 0..MaxMade /\ c # Tree!None /\ 1..c = Tree!Made \cup {c} /\ c \notin Tree!Made /\ c \in 1..c
      BY <2>2, <3>1 DEF Tree!FoldersConstants, Tree!Pictures, Tree!None
    <3>3. by' \in [1..c -> Users \cup {Tree!Nobody}]
      BY <2>2, <3>1, <3>2
    <3>4. Tree!Made' = 1..c
      BY <2>2 DEF Tree!Made
    <3>5. by'[c] = u
      BY <2>2, <3>2
    <3>6. QED
      BY <2>2, <3>1, <3>2, <3>3, <3>4, <3>5
  <2>3. QED
    BY <2>1, <2>2
<1>3. Tree!TypeOK'
  BY <1>1, <1>2 DEF TreeInv, Tree!TypeOK
<1>4. photoDisk[p] # Tree!None => photoDisk[p] \in Tree!Pictures
  BY DEF TreeInv, Tree!TypeOK
<1>5. FiledOrThere
  BY <1>1, <1>4, NoneIsNoPicture DEF FiledOrThere
<1>6. DeletesAnswer'
  <2>1. ASSUME NEW s \in Requests, Deletes(s)' PROVE AnswersWell(s)'
    BY <1>5, <2>1, AnswersKept DEF Deletes, TreeInv
  <2>2. QED
    BY <2>1 DEF DeletesAnswer, AnswersWell
<1>7. Tree!PicturesSurvive'
  <2>1. ASSUME NEW k \in Tree!Made' PROVE k \in bin' \cup spent' \/ \E s \in Tree!Spots : photoDisk'[s] = k
    <3>1. CASE k \in Tree!Made
      <4>1. k \in Tree!Pictures
        BY <3>1, MadeTypes DEF TreeInv
      <4>2. QED
        BY <1>5, <3>1, <4>1 DEF FiledOrThere, TreeInv, Tree!PicturesSurvive
    <3>2. CASE k = c
      BY <1>1, <3>2
    <3>3. QED
      BY <1>2, <3>1, <3>2
  <2>2. QED
    BY <2>1 DEF Tree!PicturesSurvive
<1>8. OnlyMade'
  BY <1>1, <1>2 DEF OnlyMade, TreeInv
\* What was at another path is there still, and who sent it is known.
<1>9. ASSUME NEW s \in Tree!Spots, NEW v, photoDisk[s] # Tree!None, by[photoDisk[s]] = v, s # p
      PROVE  photoDisk'[s] # Tree!None /\ by'[photoDisk'[s]] = v
  <2>1. photoDisk'[s] = photoDisk[s] /\ photoDisk[s] \in Tree!Made
    BY <1>1, <1>9 DEF TreeInv, OnlyMade
  <2>2. QED
    BY <1>2, <1>9, <2>1
<1>10. NotesRight'
  <2>1. ASSUME NEW s \in Tree!Spots, pending[s] # Tree!Nobody, s \notin strayed'
        PROVE  photoDisk'[s] # Tree!None /\ by'[photoDisk'[s]] = pending[s]
    <3>1. s \notin strayed /\ photoDisk[s] # Tree!None /\ by[photoDisk[s]] = pending[s]
      BY <2>1 DEF TreeInv, NotesRight
    <3>2. QED
      BY <1>9, <2>1, <3>1
  <2>2. QED
    BY <2>1 DEF NotesRight
<1>11. NotesAwaited'
  <2> SUFFICES ASSUME NEW s \in Requests, NEW l \in Tree!Spots, Awaits(s, l)', l \notin strayed'
               PROVE  photoDisk'[l] # Tree!None /\ by'[photoDisk'[l]] = folderRequest'[s].user
    BY DEF NotesAwaited
  <2>1. CASE Awaits(s, l) /\ folderRequest'[s].user = folderRequest[s].user
    <3>1. photoDisk[l] # Tree!None /\ by[photoDisk[l]] = folderRequest'[s].user
      BY <2>1 DEF TreeInv, NotesAwaited
    <3>2. QED
      BY <1>9, <3>1
  <2>2. CASE l = p /\ c # Tree!None /\ folderRequest'[s].user = u
    BY <1>1, <1>2, <2>2
  <2>3. QED
    BY <2>1, <2>2
<1>12. QED
  BY <1>3, <1>6, <1>7, <1>8, <1>10, <1>11 DEF TreeInv

\* A picture that an upload overwrites came to the path since the name was chosen, or
\* has the time in its name.
LEMMA UploadWriteStep ==
  ASSUME Tree!FoldersConstants, TreeInv, NEW r \in Requests, Tree!UploadWrite(r)
  PROVE  TreeInv'
<1> DEFINE q == folderRequest[r]
           p == q.to
           kept == [q EXCEPT !.to = <<>>]
           noted == [q EXCEPT !.to = <<>>, !.notes = @ \cup {<<p, pending[p] # Tree!Nobody>>}]
<1>1. q \in Tree!Upload /\ q.spares /\ p \in Tree!Spots /\ q.user \in Users /\ q.op = "upload"
  <2>1. q \in Tree!Upload
    BY RequestTypes DEF Tree!UploadWrite, TreeInv
  <2>2. QED
    BY <2>1 DEF Tree!UploadWrite, TreeInv, UploadsSpare, Tree!Upload
<1>2. kept \in Tree!Upload
  BY <1>1 DEF Tree!Upload
<1>3. noted \in Tree!Upload
  <2>1. ASSUME NEW b \in BOOLEAN PROVE q.notes \cup {<<p, b>>} \in SUBSET (Tree!Spots \X BOOLEAN)
    BY <1>1 DEF Tree!Upload
  <2>2. q.notes \cup {<<p, pending[p] # Tree!Nobody>>} \in SUBSET (Tree!Spots \X BOOLEAN)
    <3>1. (pending[p] # Tree!Nobody) \in BOOLEAN
      OBVIOUS
    <3>2. QED
      BY <2>1, <3>1, Zenon
  <2>3. ASSUME NEW N \in SUBSET (Tree!Spots \X BOOLEAN)
        PROVE  [q EXCEPT !.to = <<>>, !.notes = N] \in Tree!Upload
    BY <1>1 DEF Tree!Upload
  <2>4. QED
    BY <2>2, <2>3
<1>4. /\ kept.op = "upload" /\ kept.spares /\ kept.notes = q.notes /\ kept.user = q.user
      /\ noted.op = "upload" /\ noted.spares /\ noted.user = q.user
      /\ noted.notes = q.notes \cup {<<p, pending[p] # Tree!Nobody>>}
  BY <1>1 DEF Tree!Upload
<1>5. UNCHANGED <<dirs, bin, rows, pending, folderScan>>
  BY DEF Tree!UploadWrite
<1> HIDE DEF kept, noted
\* The request, after it: what it awaits is as before, or it awaits p too.
<1>6. ASSUME NEW n \in {kept, noted}, folderRequest' = [folderRequest EXCEPT ![r] = n]
      PROVE  /\ folderRequest' \in [Requests -> Tree!Upload \cup Tree!Rename \cup Tree!Delete \cup {Tree!NoRequest, Tree!Served}]
             /\ folderRequest'[r] = n /\ n.op = "upload" /\ n.spares
             /\ \A s \in Requests : s # r => folderRequest'[s] = folderRequest[s]
             /\ \A s \in Requests : Deletes(s)' => folderRequest'[s] = folderRequest[s]
             /\ RowsLast' /\ UploadsSpare'
             /\ \A s \in Requests, l \in Tree!Spots : Awaits(s, l)' =>
                  \/ Awaits(s, l) /\ folderRequest'[s].user = folderRequest[s].user
                  \/ n = noted /\ l = p /\ folderRequest'[s].user = q.user
  <2>1. /\ folderRequest' \in [Requests -> Tree!Upload \cup Tree!Rename \cup Tree!Delete \cup {Tree!NoRequest, Tree!Served}]
        /\ folderRequest'[r] = n /\ \A s \in Requests : s # r => folderRequest'[s] = folderRequest[s]
    BY <1>2, <1>3, <1>6, SetTypes DEF TreeInv
  <2>2. n.op = "upload" /\ n.spares /\ n.user = q.user
    BY <1>4, <1>6
  <2>3. RowsLast'
    BY <1>5, <2>1, <2>2, OneHasRows DEF TreeInv, Deletes
  <2>4. UploadsSpare' /\ \A s \in Requests : Deletes(s)' => folderRequest'[s] = folderRequest[s]
    BY <2>1, <2>2 DEF TreeInv, UploadsSpare, Deletes
  <2>5. ASSUME NEW s \in Requests, NEW l \in Tree!Spots, Awaits(s, l)'
        PROVE  \/ Awaits(s, l) /\ folderRequest'[s].user = folderRequest[s].user
               \/ n = noted /\ l = p /\ folderRequest'[s].user = q.user
    <3>1. CASE s # r
      BY <2>1, <2>5, <3>1 DEF Awaits
    <3>2. CASE s = r
      <4>1. PICK x \in n.notes : x[1] = l
        BY <2>1, <2>5, <3>2 DEF Awaits
      <4>2. CASE x \in q.notes
        BY <1>1, <2>1, <2>2, <3>2, <4>1, <4>2 DEF Awaits
      <4>3. CASE x \notin q.notes
        BY <1>4, <1>6, <2>1, <2>2, <3>2, <4>1, <4>3
      <4>4. QED
        BY <4>2, <4>3
    <3>3. QED
      BY <3>1, <3>2
  <2>6. QED
    BY <2>1, <2>2, <2>3, <2>4, <2>5
<1>7. CASE folderRequest' = [folderRequest EXCEPT ![r] = kept] /\ UNCHANGED <<photoDisk, by, spent, strayed>>
  <2>1. Tree!TypeOK'
    BY <1>5, <1>6, <1>7, RestTypes DEF TreeInv, Tree!TypeOK
  <2>2. DeletesAnswer' /\ UploadsSpare'
    BY <1>5, <1>6, <1>7, OneAnswers DEF TreeInv, Deletes
  <2>3. Tree!PicturesSurvive' /\ OnlyMade' /\ NotesRight'
    BY <1>5, <1>7, QuietSurvives, QuietNotes DEF TreeInv, QuietDisk
  <2>4. NotesAwaited'
    BY <1>1, <1>4, <1>6, <1>7, OneAwaits DEF TreeInv
  <2>5. QED
    BY <1>6, <1>7, <2>1, <2>2, <2>3, <2>4 DEF TreeInv
<1>8. ASSUME IF photoDisk[p] # Tree!None /\ q.spares
               THEN spent' = spent \cup {photoDisk[p]} /\ strayed' = strayed \cup {p}
               ELSE UNCHANGED <<spent, strayed>>,
             \/ /\ \E c \in Tree!Pictures : Tree!Write(p, c, q.user)
                /\ folderRequest' = [folderRequest EXCEPT ![r] = noted]
             \/ /\ photoDisk' = [photoDisk EXCEPT ![p] = Tree!None] /\ UNCHANGED by
                /\ folderRequest' = [folderRequest EXCEPT ![r] = kept]
      PROVE  TreeInv'
  <2>1. /\ photoDisk[p] # Tree!None => photoDisk[p] \in spent' /\ p \in strayed'
        /\ spent' \subseteq Tree!Pictures /\ spent \subseteq spent'
        /\ strayed' \subseteq Tree!Spots /\ strayed \subseteq strayed'
    BY <1>1, <1>8 DEF TreeInv, Tree!TypeOK
  <2>2. CASE /\ \E c \in Tree!Pictures : Tree!Write(p, c, q.user)
             /\ folderRequest' = [folderRequest EXCEPT ![r] = noted]
    <3>1. PICK c \in Tree!Pictures : Tree!Write(p, c, q.user)
      BY <2>2
    <3>2. /\ c = Cardinality(Tree!Made) + 1 /\ photoDisk' = [photoDisk EXCEPT ![p] = c]
          /\ by' = [k \in 1..c |-> IF k = c THEN q.user ELSE by[k]] /\ c # Tree!None
      BY <3>1, SameCounts, NoneIsNoPicture DEF Tree!Write
    <3>3. \A s \in Requests, l \in Tree!Spots : Awaits(s, l)' =>
            \/ Awaits(s, l) /\ folderRequest'[s].user = folderRequest[s].user
            \/ l = p /\ c # Tree!None /\ folderRequest'[s].user = q.user
      BY <1>6, <2>2, <3>2
    <3>4. /\ folderRequest' \in [Requests -> Tree!Upload \cup Tree!Rename \cup Tree!Delete \cup {Tree!NoRequest, Tree!Served}]
          /\ RowsLast' /\ UploadsSpare'
          /\ \A s \in Requests : Deletes(s)' => folderRequest'[s] = folderRequest[s]
      BY <1>6, <2>2
    <3>5. q.user \in Users \cup {Tree!Nobody} /\ c \in Tree!Pictures \cup {Tree!None}
      BY <1>1
    <3>6. QED
      BY <1>1, <1>5, <2>1, <3>2, <3>3, <3>4, <3>5, WriteStep
  <2>3. CASE /\ photoDisk' = [photoDisk EXCEPT ![p] = Tree!None] /\ UNCHANGED by
             /\ folderRequest' = [folderRequest EXCEPT ![r] = kept]
    <3>1. \A s \in Requests, l \in Tree!Spots : Awaits(s, l)' =>
            Awaits(s, l) /\ folderRequest'[s].user = folderRequest[s].user
      <4>1. ASSUME NEW s \in Requests, NEW l \in Tree!Spots, Awaits(s, l)'
            PROVE  Awaits(s, l) /\ folderRequest'[s].user = folderRequest[s].user
        <5>1. CASE s = r
          BY <1>1, <1>4, <1>6, <2>3, <4>1, <5>1 DEF Awaits
        <5>2. CASE s # r
          BY <1>6, <2>3, <4>1, <5>2 DEF Awaits
        <5>3. QED
          BY <5>1, <5>2
      <4>2. QED
        BY <4>1
    <3>2. /\ folderRequest' \in [Requests -> Tree!Upload \cup Tree!Rename \cup Tree!Delete \cup {Tree!NoRequest, Tree!Served}]
          /\ RowsLast' /\ UploadsSpare'
          /\ \A s \in Requests : Deletes(s)' => folderRequest'[s] = folderRequest[s]
      BY <1>6, <2>3
    <3>3. QED
      BY <1>1, <1>5, <2>1, <2>3, <3>1, <3>2, WriteStep
  <2>4. QED
    BY <1>8, <2>2, <2>3
<1>9. QED
  BY <1>7, <1>8 DEF Tree!UploadWrite, Tree!Set, kept, noted

\* Another program's picture comes to a path that is free: a note there is marked.
LEMMA DropStep ==
  ASSUME Tree!FoldersConstants, TreeInv, NEW p \in Tree!Spots, Tree!Drop(p)
  PROVE  TreeInv'
<1>1. PICK c \in Tree!Pictures : Tree!Write(p, c, Tree!Nobody)
  BY DEF Tree!Drop
<1>2. /\ c = Cardinality(Tree!Made) + 1 /\ photoDisk' = [photoDisk EXCEPT ![p] = c]
      /\ by' = [k \in 1..c |-> IF k = c THEN Tree!Nobody ELSE by[k]]
  BY <1>1, SameCounts DEF Tree!Write
<1>3. /\ UNCHANGED <<dirs, bin, rows, pending, folderRequest, folderScan, spent, strayed>>
      /\ photoDisk[p] = Tree!None
  BY DEF Tree!Drop
<1>4. /\ spent' \subseteq Tree!Pictures /\ strayed' \subseteq Tree!Spots
      /\ folderRequest' \in [Requests -> Tree!Upload \cup Tree!Rename \cup Tree!Delete \cup {Tree!NoRequest, Tree!Served}]
  BY <1>3 DEF TreeInv, Tree!TypeOK
<1>5. RowsLast' /\ UploadsSpare'
  BY <1>3 DEF TreeInv, RowsLast, UploadsSpare, Deletes
<1>6. /\ \A s \in Requests : Deletes(s)' => folderRequest'[s] = folderRequest[s]
      /\ \A s \in Requests, l \in Tree!Spots : Awaits(s, l)' =>
           Awaits(s, l) /\ folderRequest'[s].user = folderRequest[s].user
  BY <1>3 DEF Awaits
<1>7. Tree!Nobody \in Users \cup {Tree!Nobody} /\ c \in Tree!Pictures \cup {Tree!None}
  OBVIOUS
<1>8. QED
  BY <1>2, <1>3, <1>4, <1>5, <1>6, <1>7, WriteStep

-------------------------------------------------------------------------------
LEMMA TreeStarts ==
  ASSUME Tree!FoldersConstants, Tree!Init
  PROVE  TreeInv
<1>1. Tree!Made = {} /\ by \in [1..0 -> Users \cup {Tree!Nobody}]
  <2>1. by = <<>> /\ DOMAIN <<>> = 1..0 /\ 1..0 = {}
    BY DEF Tree!Init
  <2>2. QED
    BY <2>1 DEF Tree!Made
<1>2. Tree!TypeOK
  <2>1. 0 \in 0..MaxMade
    BY DEF Tree!FoldersConstants
  <2>2. \E m \in 0..MaxMade : by \in [1..m -> Users \cup {Tree!Nobody}]
    BY <1>1, <2>1
  <2>3. \A i \in Tree!Ids : rows[i] = Tree!NoRow
    BY DEF Tree!Init
  <2>4. rows \in [Tree!Ids -> Tree!Row \cup {Tree!NoRow}]
    BY DEF Tree!Init
  <2>5. folderRequest \in [Requests -> Tree!Upload \cup Tree!Rename \cup Tree!Delete \cup {Tree!NoRequest, Tree!Served}]
    BY DEF Tree!Init
  <2>6. QED
    BY <2>2, <2>3, <2>4, <2>5 DEF Tree!Init, Tree!TypeOK, Tree!NoScan, Tree!Scans
<1>3. RowsLast /\ DeletesAnswer /\ UploadsSpare
  BY DEF Tree!Init, RowsLast, DeletesAnswer, UploadsSpare, Deletes, Tree!NoRequest, Tree!NoScan
<1>4. OnlyMade /\ NotesRight /\ NotesAwaited /\ Tree!PicturesSurvive
  BY <1>1 DEF Tree!Init, OnlyMade, NotesRight, NotesAwaited, Awaits, Tree!NoRequest, Tree!PicturesSurvive
<1>5. QED
  BY <1>2, <1>3, <1>4 DEF TreeInv

LEMMA TreeKept ==
  ASSUME Tree!FoldersConstants, TreeInv, [Tree!Next]_(Tree!vars)
  PROVE  TreeInv'
<1>1. ASSUME NEW r \in Requests, Tree!Serve(r)
      PROVE  TreeInv'
  BY <1>1, BeginSteps, UploadNameStep, UploadWriteStep, UploadCommitStep, RenameDiskStep,
     RenameRowsStep, DeleteSelectStep, DeleteTrashStep, DeleteCommitStep, RmtreeStep DEF Tree!Serve
<1>2. QED
  BY <1>1, RestSteps, ScanVisitStep, DropStep DEF Tree!Next, Tree!Scan

\* The folders keep their types and the invariant above.
THEOREM TreeStays ==
  ASSUME Tree!FoldersConstants
  PROVE  Tree!Spec => []TreeInv
<1>1. Tree!Init => TreeInv
  BY TreeStarts
<1>2. TreeInv /\ [Tree!Next]_(Tree!vars) => TreeInv'
  BY TreeKept
<1>3. QED
  BY <1>1, <1>2, PTL DEF Tree!Spec

\* Folder deletes destroy no picture they have loaded.
THEOREM FolderDeletes ==
  ASSUME Tree!FoldersConstants
  PROVE  Tree!Spec => []Tree!PicturesSurvive
<1>1. TreeInv => Tree!PicturesSurvive
  BY DEF TreeInv
<1>2. QED
  BY <1>1, TreeStays, PTL

\* Who a photo is given to: the user who uploaded the picture there, or the one the
\* folder is named after, but not where an upload left a note; or a note strayed.
Given(i) ==
  LET p == rows'[i].path
  IN (rows[i] = Tree!NoRow /\ rows'[i] # Tree!NoRow) \/ Tree!Owned(i)' # Tree!Owned(i) =>
       \/ Tree!Owned(i)' = by[photoDisk[p]]
       \/ /\ Tree!Owned(i)' \in {Tree!Nobody, FolderUser[p[1]]}
          /\ rows[i] = Tree!NoRow => pending[p] = Tree!Nobody
       \/ p \in strayed

OwnerRight(i) == (Tree!Owned(i) # Tree!Nobody => Tree!Owned(i)' = Tree!Owned(i)) /\ Given(i)

\* A row that stays with its owner, or is not there.
LEMMA SameOwner ==
  ASSUME NEW i \in Tree!Ids,
         \/ rows'[i] = rows[i]
         \/ rows[i] # Tree!NoRow /\ rows'[i] # Tree!NoRow /\ rows'[i].owner = rows[i].owner
  PROVE  OwnerRight(i)
  BY DEF OwnerRight, Given, Tree!Owned

\* The scan gives owners to new rows, and to those that have none.
LEMMA ScanOwners ==
  ASSUME Tree!FoldersConstants, TreeInv, NEW p \in Tree!Spots, Tree!ScanVisit(p), NEW i \in Tree!Ids
  PROVE  OwnerRight(i)
<1>1. CASE photoDisk[p] = Tree!None
  BY <1>1, SameOwner DEF Tree!ScanVisit
<1>2. CASE photoDisk[p] # Tree!None /\ Tree!At(p) # {}
  <2>1. rows' = [k \in Tree!Ids |-> IF k \in Tree!At(p) THEN Tree!Revisited(k, p) ELSE rows[k]]
    BY <1>2 DEF Tree!ScanVisit
  <2>2. CASE i \notin Tree!At(p)
    BY <2>1, <2>2, SameOwner
  <2>3. CASE i \in Tree!At(p)
    <3>1. rows[i] # Tree!NoRow /\ rows[i].path = p /\ photoDisk[p] \in Tree!Pictures
      BY <1>2, <2>3 DEF Tree!At, TreeInv, Tree!TypeOK
    <3>2. /\ rows'[i] # Tree!NoRow /\ rows'[i].path = p
          /\ rows'[i].owner = IF rows[i].owner = Tree!Nobody THEN Tree!FromFolder(p) ELSE rows[i].owner
      BY <2>1, <2>3, <3>1, RevisitedRow DEF TreeInv
    <3>3. CASE rows[i].owner = Tree!Nobody
      <4>1. Tree!FromFolder(p) \in {Tree!Nobody, FolderUser[p[1]]}
        BY OwnerTyped DEF TreeInv
      <4>2. QED
        BY <3>1, <3>2, <3>3, <4>1 DEF OwnerRight, Given, Tree!Owned
    <3>4. CASE rows[i].owner # Tree!Nobody
      BY <3>1, <3>2, <3>4, SameOwner
    <3>5. QED
      BY <3>3, <3>4
  <2>4. QED
    BY <2>2, <2>3
<1>3. CASE photoDisk[p] # Tree!None /\ Tree!At(p) = {}
  <2>1. PICK j \in Tree!Ids : rows[j] = Tree!NoRow /\
          rows' = [rows EXCEPT ![j] = [path |-> p, sig |-> photoDisk[p], owner |-> Tree!Owner(p), status |-> "active"]]
    BY <1>3 DEF Tree!ScanVisit
  <2>2. CASE i # j
    BY <2>1, <2>2, SameOwner DEF TreeInv, Tree!TypeOK
  <2>3. CASE i = j
    <3>1. /\ rows'[i] = [path |-> p, sig |-> photoDisk[p], owner |-> Tree!Owner(p), status |-> "active"]
          /\ rows[i] = Tree!NoRow
      BY <2>1, <2>3 DEF TreeInv, Tree!TypeOK
    <3>2. rows'[i] # Tree!NoRow /\ rows'[i].path = p /\ rows'[i].owner = Tree!Owner(p)
      BY <3>1 DEF Tree!NoRow
    <3>3. CASE pending[p] # Tree!Nobody
      <4>1. Tree!Owner(p) = by[photoDisk[p]] \/ p \in strayed
        BY <3>3 DEF Tree!Owner, TreeInv, NotesRight
      <4>2. QED
        BY <3>1, <3>2, <4>1 DEF OwnerRight, Given, Tree!Owned
    <3>4. CASE pending[p] = Tree!Nobody
      <4>1. Tree!Owner(p) \in {Tree!Nobody, FolderUser[p[1]]}
        BY <3>4, OwnerTyped DEF Tree!Owner, TreeInv
      <4>2. QED
        BY <3>1, <3>2, <3>4, <4>1 DEF OwnerRight, Given, Tree!Owned
    <3>5. QED
      BY <3>3, <3>4
  <2>4. QED
    BY <2>2, <2>3
<1>4. QED
  BY <1>1, <1>2, <1>3

LEMMA OwnerStep ==
  ASSUME Tree!FoldersConstants, TreeInv, [Tree!Next]_(Tree!vars), NEW i \in Tree!Ids
  PROVE  OwnerRight(i)
<1>1. ASSUME Tree!ScanReconcile PROVE OwnerRight(i)
  <2>1. CASE i \in folderScan.unseen
    <3>1. rows[i] # Tree!NoRow /\ rows[i] \in Tree!Row
      BY <2>1, RowFields DEF TreeInv, RowsLast
    <3>2. rows'[i] = [rows[i] EXCEPT !.status = "missing"]
      BY <1>1, <2>1 DEF Tree!ScanReconcile
    <3>3. rows'[i] # Tree!NoRow /\ rows'[i].owner = rows[i].owner
      BY <3>1, <3>2 DEF Tree!Row, Tree!NoRow
    <3>4. QED
      BY <3>1, <3>3, SameOwner
  <2>2. CASE i \notin folderScan.unseen
    BY <1>1, <2>2, SameOwner DEF Tree!ScanReconcile
  <2>3. QED
    BY <2>1, <2>2
<1>2. ASSUME NEW r \in Requests, Tree!DeleteCommit(r) PROVE OwnerRight(i)
  <2>1. CASE i \in folderRequest[r].moved
    <3>1. rows[i] # Tree!NoRow /\ rows[i] \in Tree!Row
      BY <1>2, <2>1, RowFields DEF TreeInv, RowsLast, Deletes, Tree!DeleteCommit
    <3>2. rows'[i] = [rows[i] EXCEPT !.status = "trashed"]
      BY <1>2, <2>1 DEF Tree!DeleteCommit
    <3>3. rows'[i] # Tree!NoRow /\ rows'[i].owner = rows[i].owner
      BY <3>1, <3>2 DEF Tree!Row, Tree!NoRow
    <3>4. QED
      BY <3>1, <3>3, SameOwner
  <2>2. CASE i \notin folderRequest[r].moved
    BY <1>2, <2>2, SameOwner DEF Tree!DeleteCommit
  <2>3. QED
    BY <2>1, <2>2
<1>3. ASSUME NEW r \in Requests, Tree!RenameRows(r) PROVE OwnerRight(i)
  <2>1. CASE rows' = rows
    BY <2>1, SameOwner
  <2>2. CASE rows' = [k \in Tree!Ids |->
                        IF rows[k] # Tree!NoRow /\ rows[k].path[1] = folderRequest[r].dir
                          THEN [rows[k] EXCEPT !.path = <<folderRequest[r].to, @[2]>>] ELSE rows[k]]
    <3>1. CASE rows[i] # Tree!NoRow /\ rows[i].path[1] = folderRequest[r].dir
      <4>1. rows[i] \in Tree!Row
        BY <3>1, RowFields DEF TreeInv
      <4>2. rows'[i] = [rows[i] EXCEPT !.path = <<folderRequest[r].to, @[2]>>]
        BY <2>2, <3>1
      <4>3. rows'[i] # Tree!NoRow /\ rows'[i].owner = rows[i].owner
        BY <4>1, <4>2 DEF Tree!Row, Tree!NoRow
      <4>4. QED
        BY <3>1, <4>3, SameOwner
    <3>2. CASE ~(rows[i] # Tree!NoRow /\ rows[i].path[1] = folderRequest[r].dir)
      BY <2>2, <3>2, SameOwner
    <3>3. QED
      BY <3>1, <3>2
  <2>3. QED
    BY <1>3, <2>1, <2>2 DEF Tree!RenameRows
<1>4. CASE rows' = rows
  BY <1>4, SameOwner
<1>5. QED
  BY <1>1, <1>2, <1>3, <1>4, ScanOwners DEF Tree!Next, Tree!Serve, Tree!Scan, Tree!vars,
     Tree!UploadStart, Tree!UploadName, Tree!UploadWrite,
     Tree!UploadCommit, Tree!RenameStart, Tree!RenameDisk, Tree!DeleteStart, Tree!DeleteSelect,
     Tree!DeleteTrash, Tree!Rmtree, Tree!ScanStart,
     Tree!CreateFolder, Tree!Expire, Tree!Drop

\* A photo is given to the user who uploaded it, or the one its folder is named after,
\* and stays with its owner; only a note that strayed may be taken for another's.
THEOREM NewOwners ==
  ASSUME Tree!FoldersConstants
  PROVE  Tree!Spec => Tree!OwnersUploaded
<1>1. TreeInv /\ [Tree!Next]_(Tree!vars) =>
        [\A i \in Tree!Ids : OwnerRight(i)]_(Tree!vars)
  BY OwnerStep
<1>2. [\A i \in Tree!Ids : OwnerRight(i)]_(Tree!vars) =>
        [\A i \in Tree!Ids :
           /\ Tree!Owned(i) # Tree!Nobody => Tree!Owned(i)' = Tree!Owned(i)
           /\ LET p == rows'[i].path
              IN (rows[i] = Tree!NoRow /\ rows'[i] # Tree!NoRow) \/ Tree!Owned(i)' # Tree!Owned(i) =>
                   \/ Tree!Owned(i)' = by[photoDisk[p]]
                   \/ /\ Tree!Owned(i)' \in {Tree!Nobody, FolderUser[p[1]]}
                      /\ rows[i] = Tree!NoRow => pending[p] = Tree!Nobody
                   \/ p \in strayed]_(Tree!vars)
  BY DEF OwnerRight, Given
<1>3. QED
  BY <1>1, <1>2, TreeStays, PTL DEF Tree!Spec, Tree!OwnersUploaded

-------------------------------------------------------------------------------


-------------------------------------------------------------------------------
(***************************************************************************)
(* Faces.  What a session has read is two tables.  From the commit that    *)
(* makes a rebuild's clusters to the one that drops the old ones every     *)
(* cluster is marked; and a rebuild that nobody disturbs has sorted the    *)
(* faces of the groups it has taken.                                       *)
(***************************************************************************)
TableTypes == [faces : [People!FaceIds -> People!Face \cup {People!NoFace}],
               clusters : [People!ClusterIds -> People!Cluster \cup {People!NoCluster}]]

RequestTyped ==
  /\ faceRequest = People!NoRequest \/ faceRequest.op \in {"rename", "merge", "delete", "add", "move", "erase"}
  /\ faceRequest # People!NoRequest => faceRequest.seen \in TableTypes
  /\ faceRequest.op = "rename" =>
       /\ faceRequest.c \in People!ClusterIds /\ faceRequest.into \in 0..MaxCluster /\ faceRequest.into # faceRequest.c
       /\ faceRequest.label \in FaceLabels \cup {People!None}
  /\ faceRequest.op = "merge" =>
       faceRequest.c \in People!ClusterIds /\ faceRequest.into \in People!ClusterIds /\ faceRequest.into # faceRequest.c
  /\ faceRequest.op = "delete" => faceRequest.c \in People!ClusterIds
  /\ faceRequest.op = "add" =>
       /\ faceRequest.p \in Photos /\ faceRequest.who \in People!Persons /\ faceRequest.into \in 0..MaxCluster
       /\ faceRequest.label \in FaceLabels \cup {People!None}
  /\ faceRequest.op = "move" =>
       /\ faceRequest.f \in People!FaceIds /\ faceRequest.into \in 0..MaxCluster
       /\ faceRequest.label \in FaceLabels \cup {People!None}
       /\ faceRequest.seen.faces[faceRequest.f] # People!NoFace
       /\ faceRequest.into # faceRequest.seen.faces[faceRequest.f].cluster
  /\ faceRequest.op = "erase" =>
       faceRequest.f \in People!FaceIds /\ faceRequest.seen.faces[faceRequest.f] # People!NoFace

DetectorTyped ==
  detector # People!NoDetection => detector.photo \in Photos /\ detector.seen \in TableTypes

Group == [who : People!Persons, label : FaceLabels \cup {People!None}, faces : SUBSET People!FaceIds, id : 0..MaxCluster]
RebuildTyped ==
  /\ rebuild \in [pc : {"idle", "create", "assign", "null", "drop"}, groups : SUBSET Group,
                  gated : SUBSET People!FaceIds, old : SUBSET People!ClusterIds, disturbed : BOOLEAN]
  /\ People!HalfWay => \A g \in rebuild.groups : g.id \in People!ClusterIds

HalfDrifted == People!HalfWay => \A c \in People!ClusterIds : People!Exists(c) => c \in drifted

Faces1(who) == {f \in People!Eligible : faces[f].who = who}

Planned ==
  rebuild.pc = "create" /\ ~rebuild.disturbed =>
    /\ rebuild.gated = People!Active \ People!Eligible
    /\ \A g \in rebuild.groups : g.faces = Faces1(g.who) /\ g.faces # {}
    /\ \A g, h \in rebuild.groups : g.who = h.who => g = h
    /\ \A f \in People!Eligible : \E g \in rebuild.groups : g.who = faces[f].who

Added(c) == People!Exists(c) /\ c \notin rebuild.old
Gathered(c) == People!Members(c) = Faces1(clusters[c].who)
Sorted ==
  People!HalfWay /\ ~rebuild.disturbed =>
    /\ rebuild.gated = People!Active \ People!Eligible
    /\ rebuild.pc = "drop" => \A f \in rebuild.gated : faces[f].cluster = 0
    /\ rebuild.pc # "assign" => rebuild.groups = {}
    /\ \A g \in rebuild.groups :
         /\ Added(g.id) /\ clusters[g.id].who = g.who /\ People!Members(g.id) = {}
         /\ g.faces = Faces1(g.who) /\ g.faces # {} /\ clusters[g.id].count = Cardinality(g.faces)
    /\ \A g, h \in rebuild.groups : g.id = h.id => g = h
    /\ \A c \in People!ClusterIds : Added(c) =>
         \/ \E g \in rebuild.groups : g.id = c
         \/ Gathered(c) /\ People!Members(c) # {} /\ clusters[c].count = Cardinality(People!Members(c))
    /\ \A c, d \in People!ClusterIds : Added(c) /\ Added(d) /\ clusters[c].who = clusters[d].who => c = d
    /\ \A f \in People!Eligible : \E c \in People!ClusterIds : Added(c) /\ clusters[c].who = faces[f].who

PeopleInv == /\ People!TypeOK /\ RequestTyped /\ DetectorTyped /\ RebuildTyped
             /\ HalfDrifted /\ Planned /\ Sorted /\ People!FacesCounted

-------------------------------------------------------------------------------
LEMMA Kinds ==
  /\ People!NoFace \notin People!Face /\ People!NoCluster \notin People!Cluster
  /\ People!NoFace.cluster = 0 /\ People!NoFace.source = People!None
  BY DEF People!NoFace, People!Face, People!NoCluster, People!Cluster, People!None

LEMMA InTable ==
  ASSUME People!FacesConstants, NEW table, NEW c
  PROVE  /\ People!In(table, c) \subseteq People!FaceIds /\ IsFiniteSet(People!In(table, c))
         /\ Cardinality(People!In(table, c)) \in Nat
<1>1. IsFiniteSet(People!FaceIds)
  BY FS_Interval DEF People!FaceIds, People!FacesConstants
<1>2. People!In(table, c) \in SUBSET People!FaceIds
  BY DEF People!In
<1>3. QED
  BY <1>1, <1>2, FS_Subset, FS_CardinalityType

LEMMA ClusterFields ==
  ASSUME People!TypeOK, NEW c \in People!ClusterIds, People!Exists(c)
  PROVE  clusters[c] \in People!Cluster /\ clusters[c].count \in Nat
  BY DEF People!TypeOK, People!Exists, People!Cluster

LEMMA FaceFields ==
  ASSUME People!TypeOK, NEW f \in People!FaceIds, faces[f] # People!NoFace
  PROVE  /\ faces[f] \in People!Face /\ faces[f].photo \in Photos /\ faces[f].who \in People!Persons
         /\ faces[f].cluster \in 0..MaxCluster
         /\ faces[f].cluster # 0 => faces[f].cluster \in People!ClusterIds /\ People!Exists(faces[f].cluster)
  BY DEF People!TypeOK, People!Face, People!ClusterIds

\* A cluster that is not there has no faces.
LEMMA GoneIsEmpty ==
  ASSUME People!TypeOK, NEW c \in People!ClusterIds, ~People!Exists(c)
  PROVE  People!Members(c) = {}
  BY DEF People!TypeOK, People!Members, People!In, People!ClusterIds

-------------------------------------------------------------------------------
(***************************************************************************)
(* A commit that leaves a right count behind at every cluster it changes,  *)
(* where what the session had read was current.                            *)
(***************************************************************************)
Involved(c) == clusters'[c] # clusters[c] \/ People!In(faces', c) # People!Members(c)

LEMMA DriftCounts ==
  ASSUME People!FacesCounted, HalfDrifted, NEW marks, People!Drift(marks),
         \A c \in People!ClusterIds : clusters'[c] # People!NoCluster /\ c \notin marks /\ c \notin drifted /\ ~People!HalfWay
                                        /\ Involved(c) =>
           clusters'[c].count = Cardinality(People!In(faces', c))
  PROVE  /\ People!FacesCounted' /\ drifted' \subseteq People!ClusterIds
         /\ People!HalfWay => \A c \in People!ClusterIds : clusters'[c] # People!NoCluster => c \in drifted'
<1>1. ASSUME NEW c \in People!ClusterIds, c \notin drifted', clusters'[c] # People!NoCluster
      PROVE  clusters'[c].count = Cardinality(People!In(faces', c))
  <2>1. c \notin drifted /\ (Involved(c) => c \notin marks /\ ~People!HalfWay)
    BY <1>1 DEF People!Drift, Involved
  <2>2. CASE Involved(c)
    BY <1>1, <2>1, <2>2
  <2>3. CASE ~Involved(c)
    <3>1. clusters'[c] = clusters[c] /\ People!In(faces', c) = People!Members(c) /\ People!Exists(c)
      BY <1>1, <2>3 DEF Involved, People!Exists
    <3>2. clusters[c].count = Cardinality(People!Members(c))
      BY <2>1, <3>1, SameCounts DEF People!FacesCounted
    <3>3. QED
      BY <3>1, <3>2
  <2>4. QED
    BY <2>2, <2>3
<1>2. People!FacesCounted'
  BY <1>1, SameCounts DEF People!FacesCounted, People!Exists, People!Members
<1>3. ASSUME People!HalfWay, NEW c \in People!ClusterIds, clusters'[c] # People!NoCluster
      PROVE  c \in drifted'
  <2>1. c \in drifted \/ clusters'[c] # clusters[c]
    BY <1>3 DEF HalfDrifted, People!Exists
  <2>2. QED
    BY <1>3, <2>1 DEF People!Drift
<1>4. QED
  BY <1>2, <1>3 DEF People!Drift

\* What has been read of a cluster that is not marked is current.
LEMMA ReadRight ==
  ASSUME NEW seen, NEW c \in People!ClusterIds, c \notin People!Overlapped(seen)
  PROVE  seen.clusters[c] = clusters[c] /\ People!In(seen.faces, c) = People!Members(c)
  BY DEF People!Overlapped

LEMMA DisturbKeeps ==
  ASSUME RebuildTyped, People!Disturb
  PROVE  /\ RebuildTyped' /\ Planned' /\ Sorted' /\ (People!HalfWay' <=> People!HalfWay)
<1>1. /\ rebuild'.pc = rebuild.pc /\ rebuild'.groups = rebuild.groups
      /\ rebuild' \in [pc : {"idle", "create", "assign", "null", "drop"}, groups : SUBSET Group,
                  gated : SUBSET People!FaceIds, old : SUBSET People!ClusterIds, disturbed : BOOLEAN]
      /\ rebuild.pc # "idle" => rebuild'.disturbed
  BY DEF RebuildTyped, People!Disturb
<1>2. RebuildTyped' /\ (People!HalfWay' <=> People!HalfWay)
  BY <1>1 DEF RebuildTyped, People!HalfWay
<1>3. Planned' /\ Sorted'
  BY <1>1 DEF Planned, Sorted, People!HalfWay
<1>4. QED
  BY <1>2, <1>3

\* The tables of a commit are of their types, and refer to rows that are there.
TablesTyped ==
  /\ faces' \in [People!FaceIds -> People!Face \cup {People!NoFace}]
  /\ clusters' \in [People!ClusterIds -> People!Cluster \cup {People!NoCluster}]
  /\ \A f \in People!FaceIds : faces'[f] # People!NoFace /\ faces'[f].cluster # 0 =>
       clusters'[faces'[f].cluster] # People!NoCluster

RightAt(c, marks) ==
  clusters'[c] # People!NoCluster /\ c \notin marks /\ c \notin drifted /\ ~People!HalfWay /\ Involved(c) =>
    clusters'[c].count = Cardinality(People!In(faces', c))

LEMMA TablesCommitStep ==
  ASSUME PeopleInv, NEW marks, People!Drift(marks), People!Disturb, TablesTyped,
         photoStatus' \in [Photos -> {"active", "trashed", "purged"}],
         index' \in [Photos -> SUBSET FaceLabels], RequestTyped', DetectorTyped',
         \A c \in People!ClusterIds : RightAt(c, marks)
  PROVE  PeopleInv'
<1>1. /\ People!FacesCounted' /\ drifted' \subseteq People!ClusterIds
      /\ People!HalfWay => \A c \in People!ClusterIds : clusters'[c] # People!NoCluster => c \in drifted'
  BY DriftCounts DEF PeopleInv, RightAt
<1>2. RebuildTyped' /\ Planned' /\ Sorted' /\ (People!HalfWay' <=> People!HalfWay)
  BY DisturbKeeps DEF PeopleInv
<1>3. HalfDrifted'
  BY <1>1, <1>2 DEF HalfDrifted, People!Exists
<1>4. People!TypeOK'
  BY <1>1, <1>2 DEF People!TypeOK, TablesTyped, RebuildTyped, People!Exists
<1>5. QED
  BY <1>1, <1>2, <1>3, <1>4 DEF PeopleInv

-------------------------------------------------------------------------------
(***************************************************************************)
(* The administrator's requests.                                           *)
(***************************************************************************)
LEMMA LabelsTyped ==
  ASSUME NEW fs \in [People!FaceIds -> People!Face \cup {People!NoFace}],
         NEW cs \in [People!ClusterIds -> People!Cluster \cup {People!NoCluster}], NEW p
  PROVE  People!Labels(fs, cs, p) \in SUBSET FaceLabels
<1>1. ASSUME NEW f \in People!FaceIds, fs[f].cluster # 0
      PROVE  cs[fs[f].cluster].label \in FaceLabels \cup {People!None}
  <2>1. fs[f].cluster \in People!ClusterIds
    BY <1>1 DEF People!Face, People!NoFace, People!ClusterIds
  <2>2. cs[fs[f].cluster] \in People!Cluster \cup {People!NoCluster}
    BY <2>1
  <2>3. QED
    BY <2>2 DEF People!Cluster, People!NoCluster
<1>2. QED
  BY <1>1 DEF People!Labels

LEMMA BakedTyped ==
  ASSUME People!TypeOK, NEW photos, NEW fs \in [People!FaceIds -> People!Face \cup {People!NoFace}],
         NEW cs \in [People!ClusterIds -> People!Cluster \cup {People!NoCluster}]
  PROVE  People!Baked(photos, fs, cs) \in [Photos -> SUBSET FaceLabels]
<1>1. \A p \in Photos : People!Labels(fs, cs, p) \in SUBSET FaceLabels /\ index[p] \in SUBSET FaceLabels
  BY LabelsTyped DEF People!TypeOK
<1>2. QED
  BY <1>1, Zenon DEF People!Baked

LEMMA QuietPeople ==
  ASSUME PeopleInv, UNCHANGED <<faces, clusters, rebuild, drifted, photoStatus>>,
         RequestTyped', DetectorTyped', index' \in [Photos -> SUBSET FaceLabels]
  PROVE  PeopleInv'
<1>1. People!TypeOK'
  BY DEF PeopleInv, People!TypeOK, People!Exists
<1>2. RebuildTyped' /\ HalfDrifted' /\ People!FacesCounted'
  BY DEF PeopleInv, RebuildTyped, HalfDrifted, People!FacesCounted, People!HalfWay, People!Exists,
     People!Members
<1>3. People!Active' = People!Active /\ People!Eligible' = People!Eligible
  BY DEF People!Active, People!Eligible
<1>4. \A who : Faces1(who)' = Faces1(who)
  BY <1>3 DEF Faces1
<1>5. Planned'
  BY <1>3, <1>4 DEF PeopleInv, Planned
<1>6. Sorted'
  BY <1>3, <1>4 DEF PeopleInv, Sorted, People!HalfWay, Added, People!Exists, People!Members, Gathered
<1>7. QED
  BY <1>1, <1>2, <1>5, <1>6 DEF PeopleInv

LEMMA WrittenStep ==
  ASSUME PeopleInv, People!Written, TablesTyped, index' \in [Photos -> SUBSET FaceLabels],
         \A c \in People!ClusterIds : RightAt(c, People!Overlapped(faceRequest.seen))
  PROVE  PeopleInv'
<1>1. /\ People!Drift(People!Overlapped(faceRequest.seen)) /\ People!Disturb /\ faceRequest' = People!NoRequest
      /\ UNCHANGED <<photoStatus, detector>>
  BY DEF People!Written
<1>2. RequestTyped'
  BY <1>1 DEF RequestTyped, People!NoRequest, People!None
<1>3. DetectorTyped' /\ photoStatus' \in [Photos -> {"active", "trashed", "purged"}]
  BY <1>1 DEF DetectorTyped, PeopleInv, People!TypeOK
<1>4. QED
  BY <1>1, <1>2, <1>3, TablesCommitStep

LEMMA FailStep ==
  ASSUME PeopleInv, People!Fail
  PROVE  PeopleInv'
<1>1. RequestTyped'
  BY DEF People!Fail, RequestTyped, People!NoRequest, People!None
<1>2. QED
  BY <1>1, QuietPeople DEF People!Fail, PeopleInv, People!TypeOK, DetectorTyped

\* What was read when a request began.
LEMMA TablesNow ==
  ASSUME People!TypeOK
  PROVE  People!Tables \in TableTypes /\ People!Tables.faces = faces
  BY DEF People!TypeOK, People!Tables, TableTypes

LEMMA AskStep ==
  ASSUME People!FacesConstants, PeopleInv, People!Ask
  PROVE  PeopleInv'
<1>1. ASSUME NEW r, People!Asked(r), r.op \in {"rename", "merge", "delete", "add", "move", "erase"},
             r.seen = People!Tables,
             r.op = "rename" =>
               /\ r.c \in People!ClusterIds /\ r.into \in 0..MaxCluster /\ r.into # r.c
               /\ r.label \in FaceLabels \cup {People!None},
             r.op = "merge" => r.c \in People!ClusterIds /\ r.into \in People!ClusterIds /\ r.into # r.c,
             r.op = "delete" => r.c \in People!ClusterIds,
             r.op = "add" =>
               /\ r.p \in Photos /\ r.who \in People!Persons /\ r.into \in 0..MaxCluster
               /\ r.label \in FaceLabels \cup {People!None},
             r.op = "move" =>
               /\ r.f \in People!FaceIds /\ r.into \in 0..MaxCluster /\ r.label \in FaceLabels \cup {People!None}
               /\ faces[r.f] # People!NoFace /\ r.into # faces[r.f].cluster,
             r.op = "erase" => r.f \in People!FaceIds /\ faces[r.f] # People!NoFace
      PROVE  PeopleInv'
  <2>1. faceRequest' = r /\ UNCHANGED <<photoStatus, faces, clusters, index, detector, rebuild, drifted>>
    BY <1>1 DEF People!Asked
  <2>2. r.seen \in TableTypes /\ r.seen.faces = faces
    BY <1>1, TablesNow DEF PeopleInv
  <2>3. RequestTyped'
    BY <1>1, <2>1, <2>2 DEF RequestTyped
  <2>4. QED
    BY <2>1, <2>3, QuietPeople DEF PeopleInv, People!TypeOK, DetectorTyped
<1>2. ASSUME NEW c \in People!ClusterIds, NEW label \in FaceLabels \cup {People!None}, People!RenameBegin(c, label)
      PROVE  PeopleInv'
  <2> DEFINE others == IF label = People!None THEN {} ELSE People!Named(label, c)
  <2>1. \A into \in IF others = {} THEN {People!NewId} ELSE others : into \in 0..MaxCluster /\ into # c
    <3>1. People!ClusterIds \subseteq 0..MaxCluster /\ 0 \in 0..MaxCluster /\ 0 \notin People!ClusterIds
      BY DEF People!FacesConstants, People!ClusterIds
    <3>2. others \subseteq People!ClusterIds \ {c}
      BY DEF People!Named
    <3>3. QED
      BY <3>1, <3>2 DEF People!NewId
  <2>2. PICK into \in 0..MaxCluster :
          into # c /\ People!Asked([op |-> "rename", c |-> c, label |-> label, into |-> into, seen |-> People!Tables])
    BY <1>2, <2>1 DEF People!RenameBegin
  <2>3. QED
    BY <1>1, <2>2
<1>3. ASSUME NEW c \in People!ClusterIds, NEW into \in People!ClusterIds, People!MergeBegin(c, into)
      PROVE  PeopleInv'
  BY <1>1, <1>3 DEF People!MergeBegin
<1>4. ASSUME NEW c \in People!ClusterIds, People!DeleteBegin(c)
      PROVE  PeopleInv'
  BY <1>1, <1>4 DEF People!DeleteBegin
<1>5. ASSUME NEW p \in Photos, NEW who \in People!Persons, NEW label \in FaceLabels \cup {People!None},
             NEW into \in 0..MaxCluster, People!AddBegin(p, who, label, into)
      PROVE  PeopleInv'
  BY <1>1, <1>5 DEF People!AddBegin
<1>6. ASSUME NEW f \in People!FaceIds, NEW label \in FaceLabels \cup {People!None},
             NEW into \in 0..MaxCluster, People!MoveBegin(f, label, into)
      PROVE  PeopleInv'
  BY <1>1, <1>6 DEF People!MoveBegin
<1>7. ASSUME NEW f \in People!FaceIds, People!EraseBegin(f)
      PROVE  PeopleInv'
  BY <1>1, <1>7 DEF People!EraseBegin
<1>8. QED
  BY <1>2, <1>3, <1>4, <1>5, <1>6, <1>7 DEF People!Ask

-------------------------------------------------------------------------------
\* All faces of a cluster go to another, or to none.
LEMMA MovedMembers ==
  ASSUME People!TypeOK, NEW c \in People!ClusterIds, NEW into \in 0..MaxCluster, into # c,
         faces' = People!Moved(c, into)
  PROVE  /\ People!In(faces', c) = {}
         /\ into # 0 => People!In(faces', into) = People!Members(into) \cup People!Members(c)
         /\ \A d \in People!ClusterIds : d # c /\ d # into => People!In(faces', d) = People!Members(d)
         /\ faces' \in [People!FaceIds -> People!Face \cup {People!NoFace}]
         /\ \A f \in People!FaceIds : faces'[f] # People!NoFace =>
              /\ faces[f] # People!NoFace
              /\ \/ faces'[f].cluster = into /\ f \in People!Members(c)
                 \/ faces'[f].cluster = faces[f].cluster /\ f \notin People!Members(c)
<1>1. ASSUME NEW f \in People!FaceIds
      PROVE  /\ f \in People!Members(c) => faces'[f] \in People!Face /\ faces'[f] # People!NoFace /\ faces'[f].cluster = into
             /\ f \notin People!Members(c) => faces'[f] = faces[f]
  <2>1. CASE f \in People!Members(c)
    <3>1. faces[f] \in People!Face /\ faces'[f] = [faces[f] EXCEPT !.cluster = into]
      BY <2>1, FaceFields DEF People!Members, People!In, People!Moved
    <3>2. QED
      BY <2>1, <3>1 DEF People!Face, People!NoFace, People!None
  <2>2. CASE f \notin People!Members(c)
    BY <2>2 DEF People!Members, People!In, People!Moved
  <2>3. QED
    BY <2>1, <2>2
<1>2. faces' \in [People!FaceIds -> People!Face \cup {People!NoFace}]
  <2>1. \A f \in People!FaceIds : faces'[f] \in People!Face \cup {People!NoFace}
    BY <1>1 DEF People!TypeOK
  <2>2. QED
    BY <2>1 DEF People!Moved
<1>3. People!In(faces', c) = {}
  BY <1>1 DEF People!In, People!Members
<1>4. into # 0 => People!In(faces', into) = People!Members(into) \cup People!Members(c)
  BY <1>1 DEF People!In, People!Members
<1>5. \A d \in People!ClusterIds : d # c /\ d # into => People!In(faces', d) = People!Members(d)
  BY <1>1 DEF People!In, People!Members
<1>6. \A f \in People!FaceIds : faces'[f] # People!NoFace =>
              /\ faces[f] # People!NoFace
              /\ \/ faces'[f].cluster = into /\ f \in People!Members(c)
                 \/ faces'[f].cluster = faces[f].cluster /\ f \notin People!Members(c)
  BY <1>1 DEF People!Members, People!In
<1>7. QED
  BY <1>2, <1>3, <1>4, <1>5, <1>6

\* Two clusters have no face in common.
LEMMA JoinCount ==
  ASSUME People!FacesConstants, NEW c, NEW d, c # d
  PROVE  Cardinality(People!Members(c) \cup People!Members(d)) = Cardinality(People!Members(c)) + Cardinality(People!Members(d))
<1>1. People!Members(c) \cap People!Members(d) = {}
  BY DEF People!Members, People!In
<1>2. /\ IsFiniteSet(People!Members(c)) /\ IsFiniteSet(People!Members(d))
      /\ Cardinality(People!Members(c)) \in Nat /\ Cardinality(People!Members(d)) \in Nat
  BY InTable DEF People!Members
<1>3. Cardinality({}) = 0
  BY FS_EmptySet
<1>4. Cardinality(People!Members(c) \cup People!Members(d)) =
        Cardinality(People!Members(c)) + Cardinality(People!Members(d))
          - Cardinality(People!Members(c) \cap People!Members(d))
  BY <1>2, FS_Union
<1>5. Cardinality(People!Members(c) \cap People!Members(d)) = 0
  BY <1>1, <1>3
<1>6. QED
  BY <1>2, <1>4, <1>5

LEMMA RenameCommitStep ==
  ASSUME People!FacesConstants, PeopleInv, People!RenameCommit
  PROVE  PeopleInv'
<1> DEFINE c == faceRequest.c
<1>1. c \in People!ClusterIds /\ faceRequest.label \in FaceLabels \cup {People!None}
  BY DEF PeopleInv, RequestTyped, People!RenameCommit
<1>2. CASE People!Exists(c)
  <2>1. /\ clusters' = [clusters EXCEPT ![c].label = faceRequest.label] /\ faces' = faces /\ People!Written
        /\ index' = People!Baked(People!Affected(c), faces, clusters)
    BY <1>2 DEF People!RenameCommit
  <2>2. clusters[c] \in People!Cluster /\ clusters'[c] = [clusters[c] EXCEPT !.label = faceRequest.label]
        /\ \A d \in People!ClusterIds : d # c => clusters'[d] = clusters[d]
    BY <1>1, <1>2, <2>1, ClusterFields DEF PeopleInv, People!TypeOK
  <2>3. clusters'[c] \in People!Cluster /\ clusters'[c].count = clusters[c].count /\ clusters'[c] # People!NoCluster
    BY <1>1, <2>2 DEF People!Cluster, People!NoCluster
  <2>4. TablesTyped
    <3>1. clusters' \in [People!ClusterIds -> People!Cluster \cup {People!NoCluster}]
      BY <2>1, <2>2, <2>3 DEF PeopleInv, People!TypeOK
    <3>2. \A d \in People!ClusterIds : People!Exists(d) => clusters'[d] # People!NoCluster
      BY <2>2, <2>3 DEF People!Exists
    <3>3. QED
      BY <2>1, <3>1, <3>2, FaceFields DEF TablesTyped, PeopleInv, People!TypeOK
  <2>5. index' \in [Photos -> SUBSET FaceLabels]
    BY <2>1, BakedTyped DEF PeopleInv, People!TypeOK
  <2>6. ASSUME NEW d \in People!ClusterIds PROVE RightAt(d, People!Overlapped(faceRequest.seen))
    <3>1. People!In(faces', d) = People!Members(d)
      BY <2>1 DEF People!Members
    <3>2. CASE d = c
      BY <1>2, <2>3, <3>1, <3>2, SameCounts DEF RightAt, PeopleInv, People!FacesCounted
    <3>3. CASE d # c
      BY <2>2, <3>1, <3>3 DEF RightAt, Involved
    <3>4. QED
      BY <3>2, <3>3
  <2>7. QED
    BY <2>1, <2>4, <2>5, <2>6, WrittenStep
<1>3. CASE ~People!Exists(c)
  BY <1>3, FailStep DEF People!RenameCommit
<1>4. QED
  BY <1>2, <1>3

LEMMA SeenCounts ==
  ASSUME NEW seen \in TableTypes, NEW c \in People!ClusterIds
  PROVE  seen.clusters[c].count \in Int /\ seen.clusters[c].count >= -1
<1>1. seen.clusters[c] \in People!Cluster \cup {People!NoCluster}
  BY DEF TableTypes
<1>2. QED
  BY <1>1 DEF People!Cluster, People!NoCluster

\* A row that gets another count is a row.
LEMMA CountTyped ==
  ASSUME NEW r \in People!Cluster, NEW n \in Nat
  PROVE  /\ [r EXCEPT !.count = n] \in People!Cluster /\ [r EXCEPT !.count = n].count = n
         /\ [r EXCEPT !.count = n] # People!NoCluster
  BY DEF People!Cluster, People!NoCluster

LEMMA AbsorbCommitStep ==
  ASSUME People!FacesConstants, PeopleInv, People!AbsorbCommit
  PROVE  PeopleInv'
<1> DEFINE c == faceRequest.c
           into == faceRequest.into
           moved == Cardinality(People!Members(c))
<1>1. c \in People!ClusterIds /\ into \in 0..MaxCluster /\ into # 0 /\ into # c /\ into \in People!ClusterIds
  BY DEF PeopleInv, RequestTyped, People!AbsorbCommit, People!NewId, People!ClusterIds
<1>2. faceRequest.seen \in TableTypes
  BY DEF PeopleInv, RequestTyped, People!AbsorbCommit, People!NoRequest, People!None
<1>3. moved \in Nat /\ People!Count(into) \in Int /\ People!Count(into) >= -1
  BY <1>1, <1>2, InTable, SeenCounts DEF People!Members, People!Count
<1>4. CASE People!Exists(into) \/ moved = 0
  <2>1. /\ faces' = People!Moved(c, into) /\ People!Written
        /\ clusters' = [d \in People!ClusterIds |->
             CASE d = c -> People!NoCluster
               [] d = into /\ moved > 0 -> [clusters[d] EXCEPT !.count = People!Count(into) + moved]
               [] OTHER -> clusters[d]]
        /\ index' = People!Baked(People!Affected(c), faces', clusters)
    BY <1>4, SameCounts DEF People!AbsorbCommit
  <2>2. /\ People!In(faces', c) = {} /\ People!In(faces', into) = People!Members(into) \cup People!Members(c)
        /\ \A d \in People!ClusterIds : d # c /\ d # into => People!In(faces', d) = People!Members(d)
        /\ faces' \in [People!FaceIds -> People!Face \cup {People!NoFace}]
        /\ \A f \in People!FaceIds : faces'[f] # People!NoFace =>
             /\ faces[f] # People!NoFace
             /\ \/ faces'[f].cluster = into /\ f \in People!Members(c)
                \/ faces'[f].cluster = faces[f].cluster /\ f \notin People!Members(c)
    BY <1>1, <2>1, MovedMembers DEF PeopleInv
  <2>3. /\ clusters'[c] = People!NoCluster
        /\ \A d \in People!ClusterIds : d # c /\ d # into => clusters'[d] = clusters[d]
        /\ moved = 0 => clusters'[into] = clusters[into]
        /\ moved > 0 => clusters'[into] = [clusters[into] EXCEPT !.count = People!Count(into) + moved]
    BY <1>1, <2>1
  <2>4. moved > 0 => /\ People!Exists(into) /\ clusters'[into] \in People!Cluster /\ clusters'[into] # People!NoCluster
                     /\ clusters'[into].count = People!Count(into) + moved
    <3>1. SUFFICES ASSUME moved > 0
                   PROVE  /\ People!Exists(into) /\ clusters'[into] \in People!Cluster /\ clusters'[into] # People!NoCluster
                          /\ clusters'[into].count = People!Count(into) + moved
      OBVIOUS
    <3>2. People!Exists(into) /\ clusters[into] \in People!Cluster
      BY <1>1, <1>3, <1>4, <3>1, ClusterFields DEF PeopleInv
    <3>3. People!Count(into) + moved \in Nat
      BY <1>3, <3>1
    <3>4. clusters'[into] = [clusters[into] EXCEPT !.count = People!Count(into) + moved]
      BY <2>3, <3>1
    <3>5. QED
      BY <3>2, <3>3, <3>4, CountTyped
  <2>5. moved = 0 => People!Members(c) = {}
    BY InTable, FS_EmptySet DEF People!Members
  <2>6. TablesTyped
    <3>1. \A d \in People!ClusterIds : clusters'[d] \in People!Cluster \cup {People!NoCluster}
      BY <1>3, <2>3, <2>4 DEF PeopleInv, People!TypeOK
    <3>2. clusters' \in [People!ClusterIds -> People!Cluster \cup {People!NoCluster}]
      BY <2>1, <3>1
    <3>3. ASSUME NEW f \in People!FaceIds, faces'[f] # People!NoFace, faces'[f].cluster # 0
          PROVE  clusters'[faces'[f].cluster] # People!NoCluster
      <4>1. CASE faces'[f].cluster = into /\ f \in People!Members(c)
        BY <1>3, <2>4, <2>5, <4>1
      <4>2. CASE faces'[f].cluster = faces[f].cluster /\ f \notin People!Members(c)
        <5>1. faces[f] # People!NoFace /\ faces[f].cluster # c
          BY <2>2, <3>3, <4>2 DEF People!Members, People!In
        <5>2. faces[f].cluster \in People!ClusterIds /\ People!Exists(faces[f].cluster)
          BY <3>3, <4>2, <5>1, FaceFields DEF PeopleInv
        <5>3. QED
          BY <1>3, <2>3, <2>4, <4>2, <5>1, <5>2 DEF People!Exists
      <4>3. QED
        BY <2>2, <3>3, <4>1, <4>2
    <3>4. QED
      BY <2>2, <3>2, <3>3 DEF TablesTyped
  <2>7. index' \in [Photos -> SUBSET FaceLabels]
    BY <2>1, <2>2, BakedTyped DEF PeopleInv, People!TypeOK
  <2>8. ASSUME NEW d \in People!ClusterIds PROVE RightAt(d, People!Overlapped(faceRequest.seen))
    <3>1. CASE d = c
      BY <2>3, <3>1 DEF RightAt
    <3>2. CASE d = into /\ moved = 0
      BY <2>2, <2>3, <2>5, <3>2 DEF RightAt, Involved
    <3>3. CASE d = into /\ moved > 0
      <4>1. ASSUME into \notin People!Overlapped(faceRequest.seen), into \notin drifted
            PROVE  clusters'[into].count = Cardinality(People!In(faces', into))
        <5>1. People!Count(into) = Cardinality(People!Members(into))
          BY <1>1, <2>4, <3>3, <4>1, ReadRight, SameCounts DEF People!Count, PeopleInv,
             People!FacesCounted
        <5>2. QED
          BY <1>1, <2>2, <2>4, <3>3, <5>1, JoinCount
      <4>2. QED
        BY <3>3, <4>1 DEF RightAt
    <3>4. CASE d # c /\ d # into
      BY <2>2, <2>3, <3>4 DEF RightAt, Involved
    <3>5. QED
      BY <1>3, <3>1, <3>2, <3>3, <3>4
  <2>9. QED
    BY <2>1, <2>6, <2>7, <2>8, WrittenStep
<1>5. CASE ~(People!Exists(into) \/ moved = 0)
  BY <1>5, FailStep, SameCounts DEF People!AbsorbCommit
<1>6. QED
  BY <1>4, <1>5

LEMMA MergeCommitStep ==
  ASSUME People!FacesConstants, PeopleInv, People!MergeCommit
  PROVE  PeopleInv'
<1> DEFINE c == faceRequest.c
           into == faceRequest.into
           moved == Cardinality(People!Members(c))
<1>1. c \in People!ClusterIds /\ into \in 0..MaxCluster /\ into # 0 /\ into # c /\ into \in People!ClusterIds
  BY DEF PeopleInv, RequestTyped, People!MergeCommit, People!ClusterIds
<1>2. faceRequest.seen \in TableTypes
  BY DEF PeopleInv, RequestTyped, People!MergeCommit, People!NoRequest, People!None
<1>3. /\ moved \in Nat /\ People!Count(into) \in Int /\ People!Count(into) >= -1
      /\ People!Count(c) \in Int /\ People!Count(c) >= -1
  BY <1>1, <1>2, InTable, SeenCounts DEF People!Members, People!Count
<1>4. CASE (People!Exists(into) \/ moved = 0) /\ (People!Exists(c) \/ People!Count(c) = 0)
  <2>1. /\ faces' = People!Moved(c, into) /\ People!Written
        /\ clusters' = [d \in People!ClusterIds |->
             CASE d = c /\ People!Exists(c) -> [clusters[d] EXCEPT !.count = People!Vacated(c)]
               [] d = into /\ moved > 0 -> [clusters[d] EXCEPT !.count = People!Count(into) + moved]
               [] OTHER -> clusters[d]]
        /\ index' = People!Baked(People!Affected(c), faces', clusters)
    BY <1>4, SameCounts DEF People!MergeCommit
  <2>2. /\ People!In(faces', c) = {} /\ People!In(faces', into) = People!Members(into) \cup People!Members(c)
        /\ \A d \in People!ClusterIds : d # c /\ d # into => People!In(faces', d) = People!Members(d)
        /\ faces' \in [People!FaceIds -> People!Face \cup {People!NoFace}]
        /\ \A f \in People!FaceIds : faces'[f] # People!NoFace =>
             /\ faces[f] # People!NoFace
             /\ \/ faces'[f].cluster = into /\ f \in People!Members(c)
                \/ faces'[f].cluster = faces[f].cluster /\ f \notin People!Members(c)
    BY <1>1, <2>1, MovedMembers DEF PeopleInv
  <2>3. /\ ~People!Exists(c) => clusters'[c] = clusters[c]
        /\ People!Exists(c) => clusters'[c] = [clusters[c] EXCEPT !.count = People!Vacated(c)]
        /\ \A d \in People!ClusterIds : d # c /\ d # into => clusters'[d] = clusters[d]
        /\ moved = 0 => clusters'[into] = clusters[into]
        /\ moved > 0 => clusters'[into] = [clusters[into] EXCEPT !.count = People!Count(into) + moved]
    BY <1>1, <2>1
  <2>4. moved > 0 => /\ People!Exists(into) /\ clusters'[into] \in People!Cluster /\ clusters'[into] # People!NoCluster
                     /\ clusters'[into].count = People!Count(into) + moved
    <3>1. SUFFICES ASSUME moved > 0
                   PROVE  /\ People!Exists(into) /\ clusters'[into] \in People!Cluster /\ clusters'[into] # People!NoCluster
                          /\ clusters'[into].count = People!Count(into) + moved
      OBVIOUS
    <3>2. People!Exists(into) /\ clusters[into] \in People!Cluster
      BY <1>1, <1>3, <1>4, <3>1, ClusterFields DEF PeopleInv
    <3>3. People!Count(into) + moved \in Nat
      BY <1>3, <3>1
    <3>4. clusters'[into] = [clusters[into] EXCEPT !.count = People!Count(into) + moved]
      BY <2>3, <3>1
    <3>5. QED
      BY <3>2, <3>3, <3>4, CountTyped
  <2>5. moved = 0 => People!Members(c) = {}
    BY InTable, FS_EmptySet DEF People!Members
  <2>6. People!Exists(c) => /\ clusters'[c] \in People!Cluster /\ clusters'[c] # People!NoCluster
                            /\ clusters'[c].count = People!Vacated(c)
    <3>1. SUFFICES ASSUME People!Exists(c)
                   PROVE  /\ clusters'[c] \in People!Cluster /\ clusters'[c] # People!NoCluster
                          /\ clusters'[c].count = People!Vacated(c)
      OBVIOUS
    <3>2. clusters[c] \in People!Cluster /\ clusters[c].count \in Nat
      BY <1>1, <3>1, ClusterFields DEF PeopleInv
    <3>3. People!Vacated(c) \in Nat
      BY <3>2 DEF People!Vacated
    <3>4. clusters'[c] = [clusters[c] EXCEPT !.count = People!Vacated(c)]
      BY <2>3, <3>1
    <3>5. QED
      BY <3>2, <3>3, <3>4, CountTyped
  <2>7. TablesTyped
    <3>1. \A d \in People!ClusterIds : clusters'[d] \in People!Cluster \cup {People!NoCluster}
      BY <1>3, <2>3, <2>4, <2>6 DEF PeopleInv, People!TypeOK
    <3>2. clusters' \in [People!ClusterIds -> People!Cluster \cup {People!NoCluster}]
      BY <2>1, <3>1
    <3>3. \A d \in People!ClusterIds : People!Exists(d) => clusters'[d] # People!NoCluster
      BY <1>3, <2>3, <2>4, <2>6 DEF People!Exists
    <3>4. ASSUME NEW f \in People!FaceIds, faces'[f] # People!NoFace, faces'[f].cluster # 0
          PROVE  clusters'[faces'[f].cluster] # People!NoCluster
      <4>1. CASE faces'[f].cluster = into /\ f \in People!Members(c)
        BY <1>3, <2>4, <2>5, <4>1
      <4>2. CASE faces'[f].cluster = faces[f].cluster
        BY <2>2, <3>3, <3>4, <4>2, FaceFields DEF PeopleInv
      <4>3. QED
        BY <2>2, <3>4, <4>1, <4>2
    <3>5. QED
      BY <2>2, <3>2, <3>4 DEF TablesTyped
  <2>8. index' \in [Photos -> SUBSET FaceLabels]
    BY <2>1, <2>2, BakedTyped DEF PeopleInv, People!TypeOK
  <2>9. ASSUME NEW d \in People!ClusterIds PROVE RightAt(d, People!Overlapped(faceRequest.seen))
    <3>1. CASE d = c
      <4>1. ASSUME c \notin People!Overlapped(faceRequest.seen), c \notin drifted, People!Exists(c)
            PROVE  clusters'[c].count = Cardinality(People!In(faces', c))
        <5>1. People!Count(c) = clusters[c].count
          BY <1>1, <4>1, ReadRight DEF People!Count
        <5>2. People!Vacated(c) = 0
          BY <5>1 DEF People!Vacated
        <5>3. QED
          BY <2>2, <2>6, <4>1, <5>2, FS_EmptySet
      <4>2. QED
        BY <2>3, <3>1, <4>1 DEF RightAt, People!Exists
    <3>2. CASE d = into /\ moved = 0
      BY <2>2, <2>3, <2>5, <3>2 DEF RightAt, Involved
    <3>3. CASE d = into /\ moved > 0
      <4>1. ASSUME into \notin People!Overlapped(faceRequest.seen), into \notin drifted
            PROVE  clusters'[into].count = Cardinality(People!In(faces', into))
        <5>1. People!Count(into) = Cardinality(People!Members(into))
          BY <1>1, <2>4, <3>3, <4>1, ReadRight, SameCounts DEF People!Count, PeopleInv,
             People!FacesCounted
        <5>2. QED
          BY <1>1, <2>2, <2>4, <3>3, <5>1, JoinCount
      <4>2. QED
        BY <3>3, <4>1 DEF RightAt
    <3>4. CASE d # c /\ d # into
      BY <2>2, <2>3, <3>4 DEF RightAt, Involved
    <3>5. QED
      BY <1>3, <3>1, <3>2, <3>3, <3>4
  <2>10. QED
    BY <2>1, <2>7, <2>8, <2>9, WrittenStep
<1>5. CASE ~((People!Exists(into) \/ moved = 0) /\ (People!Exists(c) \/ People!Count(c) = 0))
  BY <1>5, FailStep, SameCounts DEF People!MergeCommit
<1>6. QED
  BY <1>4, <1>5

LEMMA ClusterDeleteStep ==
  ASSUME People!FacesConstants, PeopleInv, People!DeleteCommit
  PROVE  PeopleInv'
<1> DEFINE c == faceRequest.c
<1>1. c \in People!ClusterIds /\ c # 0 /\ 0 \in 0..MaxCluster
  BY DEF PeopleInv, RequestTyped, People!DeleteCommit, People!ClusterIds, People!FacesConstants
<1>2. /\ faces' = People!Moved(c, 0) /\ People!Written /\ clusters' = [clusters EXCEPT ![c] = People!NoCluster]
      /\ index' = People!Baked(People!Affected(c), faces', clusters')
  BY DEF People!DeleteCommit
<1>3. /\ People!In(faces', c) = {}
      /\ \A d \in People!ClusterIds : d # c => People!In(faces', d) = People!Members(d)
      /\ faces' \in [People!FaceIds -> People!Face \cup {People!NoFace}]
      /\ \A f \in People!FaceIds : faces'[f] # People!NoFace =>
           /\ faces[f] # People!NoFace
           /\ \/ faces'[f].cluster = 0 /\ f \in People!Members(c)
              \/ faces'[f].cluster = faces[f].cluster /\ f \notin People!Members(c)
  BY <1>1, <1>2, MovedMembers DEF PeopleInv, People!ClusterIds
<1>4. /\ clusters' \in [People!ClusterIds -> People!Cluster \cup {People!NoCluster}] /\ clusters'[c] = People!NoCluster
      /\ \A d \in People!ClusterIds : d # c => clusters'[d] = clusters[d]
  BY <1>1, <1>2 DEF PeopleInv, People!TypeOK
<1>5. TablesTyped
  <2>1. ASSUME NEW f \in People!FaceIds, faces'[f] # People!NoFace, faces'[f].cluster # 0
        PROVE  clusters'[faces'[f].cluster] # People!NoCluster
    <3>1. faces'[f].cluster = faces[f].cluster /\ faces[f] # People!NoFace /\ faces[f].cluster # c
      BY <1>3, <2>1 DEF People!Members, People!In
    <3>2. QED
      BY <1>4, <2>1, <3>1, FaceFields DEF PeopleInv, People!Exists
  <2>2. QED
    BY <1>3, <1>4, <2>1 DEF TablesTyped
<1>6. index' \in [Photos -> SUBSET FaceLabels]
  BY <1>2, <1>3, <1>4, BakedTyped DEF PeopleInv
<1>7. ASSUME NEW d \in People!ClusterIds PROVE RightAt(d, People!Overlapped(faceRequest.seen))
  BY <1>3, <1>4 DEF RightAt, Involved
<1>8. QED
  BY <1>2, <1>5, <1>6, <1>7, WrittenStep

\* The cluster that a face joins: one that is there, or the next new one.
LEMMA JoinedRow ==
  ASSUME People!FacesConstants, PeopleInv, faceRequest.seen \in TableTypes, NEW into \in 0..MaxCluster,
         into # 0 => People!Exists(into), NEW label \in FaceLabels \cup {People!None}, NEW c \in People!Slots(into)
  PROVE  /\ c \in People!ClusterIds /\ c # 0 /\ (into # 0 => c = into) /\ (into = 0 => ~People!Exists(c))
         /\ People!Opened(c, label, into) \in [People!ClusterIds -> People!Cluster \cup {People!NoCluster}]
         /\ People!Opened(c, label, into)[c] \in People!Cluster
         /\ \A d \in People!ClusterIds : d # c => People!Opened(c, label, into)[d] = clusters[d]
         /\ People!Joined(into) \in Nat
         /\ c \notin People!Overlapped(faceRequest.seen) /\ c \notin drifted =>
              People!Joined(into) = Cardinality(People!Members(c)) + 1
<1>1. DOMAIN clusters = People!ClusterIds /\ clusters \in [People!ClusterIds -> People!Cluster \cup {People!NoCluster}]
  BY DEF PeopleInv, People!TypeOK
<1>2. CASE into = 0
  <2>1. c \in People!ClusterIds /\ ~People!Exists(c) /\ c # 0
    BY <1>1, <1>2 DEF People!Slots, People!NextFree, People!NewId, People!Exists, People!ClusterIds
  <2>2. People!Opened(c, label, into) = [clusters EXCEPT ![c] = [label |-> label, who |-> People!None, count |-> 0]]
    BY <1>2 DEF People!Opened, People!NewId
  <2>3. [label |-> label, who |-> People!None, count |-> 0] \in People!Cluster
    BY DEF People!Cluster
  <2>4. People!Joined(into) = 1
    BY <1>2 DEF People!Joined, People!NewId
  <2>5. People!Members(c) = {}
    BY <2>1, GoneIsEmpty DEF PeopleInv
  <2>6. QED
    BY <1>1, <1>2, <2>1, <2>2, <2>3, <2>4, <2>5, FS_EmptySet
<1>3. CASE into # 0
  <2>1. into \in People!ClusterIds /\ c = into /\ People!Opened(c, label, into) = clusters /\ People!Exists(c)
        /\ People!Joined(into) = People!Count(into) + 1
    BY <1>3 DEF People!Slots, People!Opened, People!Joined, People!NewId, People!ClusterIds
  <2>2. clusters[c] \in People!Cluster
    BY <2>1, ClusterFields DEF PeopleInv
  <2>3. People!Count(into) \in Int /\ People!Count(into) >= -1
    BY <2>1, SeenCounts DEF People!Count
  <2>4. ASSUME c \notin People!Overlapped(faceRequest.seen), c \notin drifted
        PROVE  People!Count(into) = Cardinality(People!Members(c))
    BY <2>1, <2>4, ReadRight, SameCounts DEF People!Count, PeopleInv, People!FacesCounted
  <2>5. QED
    BY <1>1, <1>3, <2>1, <2>2, <2>3, <2>4
<1>4. QED
  BY <1>2, <1>3

LEMMA AddCommitStep ==
  ASSUME People!FacesConstants, PeopleInv, People!AddCommit
  PROVE  PeopleInv'
<1> DEFINE into == faceRequest.into
           ready == photoStatus[faceRequest.p] # "purged" /\ (into # People!NewId => People!Exists(into))
<1>1. /\ faceRequest.p \in Photos /\ faceRequest.who \in People!Persons /\ into \in 0..MaxCluster
      /\ faceRequest.label \in FaceLabels \cup {People!None}
  BY DEF PeopleInv, RequestTyped, People!AddCommit
<1>2. faceRequest.seen \in TableTypes
  BY DEF PeopleInv, RequestTyped, People!AddCommit, People!NoRequest, People!None
<1>3. CASE ready
  <2> DEFINE new(c) == [photo |-> faceRequest.p, who |-> faceRequest.who, cluster |-> c, source |-> "user"]
  <2>1. PICK c \in People!Slots(into), f \in People!NextFree(faces, People!NoFace) :
          /\ faces' = [faces EXCEPT ![f] = new(c)]
          /\ clusters' = [People!Opened(c, faceRequest.label, into) EXCEPT ![c].count = People!Joined(into)]
          /\ index' = People!Baked({faceRequest.p}, faces', clusters')
          /\ People!Written
    BY <1>3 DEF People!AddCommit
  <2>2. f \in People!FaceIds /\ faces[f] = People!NoFace
    BY DEF People!NextFree, PeopleInv, People!TypeOK, People!FaceIds
  <2>3. into # 0 => People!Exists(into)
    BY <1>3 DEF People!NewId
  <2> DEFINE op == People!Opened(c, faceRequest.label, into)
  <2>4. /\ c \in People!ClusterIds /\ c # 0 /\ op \in [People!ClusterIds -> People!Cluster \cup {People!NoCluster}]
        /\ op[c] \in People!Cluster /\ \A d \in People!ClusterIds : d # c => op[d] = clusters[d]
        /\ People!Joined(into) \in Nat
        /\ c \notin People!Overlapped(faceRequest.seen) /\ c \notin drifted =>
              People!Joined(into) = Cardinality(People!Members(c)) + 1
    <3> HIDE DEF new, into
    <3>1. \A l \in FaceLabels \cup {People!None} :
            /\ c \in People!ClusterIds /\ c # 0 /\ People!Opened(c, l, into) \in [People!ClusterIds -> People!Cluster \cup {People!NoCluster}]
            /\ People!Opened(c, l, into)[c] \in People!Cluster
            /\ \A d \in People!ClusterIds : d # c => People!Opened(c, l, into)[d] = clusters[d]
            /\ People!Joined(into) \in Nat
            /\ c \notin People!Overlapped(faceRequest.seen) /\ c \notin drifted =>
                 People!Joined(into) = Cardinality(People!Members(c)) + 1
      BY <1>1, <1>2, <2>3, JoinedRow
    <3>2. QED
      BY <1>1, <3>1
  <2>5. new(c) \in People!Face /\ new(c) # People!NoFace /\ new(c).cluster = c
    BY <1>1, <2>4 DEF People!Face, People!NoFace, People!ClusterIds
  <2>6. /\ faces' \in [People!FaceIds -> People!Face \cup {People!NoFace}] /\ faces'[f] = new(c)
        /\ \A g \in People!FaceIds : g # f => faces'[g] = faces[g]
    BY <2>1, <2>2, <2>5 DEF PeopleInv, People!TypeOK
  <2>7. /\ People!In(faces', c) = People!Members(c) \cup {f} /\ f \notin People!Members(c)
        /\ \A d \in People!ClusterIds : d # c => People!In(faces', d) = People!Members(d)
    BY <2>2, <2>5, <2>6 DEF People!In, People!Members
  <2>8. /\ clusters' \in [People!ClusterIds -> People!Cluster \cup {People!NoCluster}]
        /\ clusters'[c] \in People!Cluster /\ clusters'[c] # People!NoCluster /\ clusters'[c].count = People!Joined(into)
        /\ \A d \in People!ClusterIds : d # c => clusters'[d] = clusters[d]
    <3>1. clusters'[c] = [op[c] EXCEPT !.count = People!Joined(into)]
          /\ \A d \in People!ClusterIds : d # c => clusters'[d] = op[d]
      BY <2>1, <2>4
    <3>2. clusters'[c] \in People!Cluster /\ clusters'[c] # People!NoCluster /\ clusters'[c].count = People!Joined(into)
      BY <2>4, <3>1, CountTyped
    <3>3. clusters' \in [People!ClusterIds -> People!Cluster \cup {People!NoCluster}]
      BY <2>1, <2>4, <3>1, <3>2
    <3>4. QED
      BY <2>4, <3>1, <3>2, <3>3
  <2>9. TablesTyped
    <3>1. ASSUME NEW g \in People!FaceIds, faces'[g] # People!NoFace, faces'[g].cluster # 0
          PROVE  clusters'[faces'[g].cluster] # People!NoCluster
      <4>1. CASE g = f
        BY <2>5, <2>6, <2>8, <4>1
      <4>2. CASE g # f
        BY <2>6, <2>8, <3>1, <4>2, FaceFields DEF PeopleInv, People!Exists
      <4>3. QED
        BY <4>1, <4>2
    <3>2. QED
      BY <2>6, <2>8, <3>1 DEF TablesTyped
  <2>10. index' \in [Photos -> SUBSET FaceLabels]
    BY <2>1, <2>6, <2>8, BakedTyped DEF PeopleInv
  <2>11. ASSUME NEW d \in People!ClusterIds PROVE RightAt(d, People!Overlapped(faceRequest.seen))
    <3>1. CASE d = c
      <4>1. Cardinality(People!In(faces', c)) = Cardinality(People!Members(c)) + 1
        BY <2>7, InTable, FS_AddElement DEF People!Members
      <4>2. QED
        BY <2>4, <2>8, <3>1, <4>1 DEF RightAt
    <3>2. CASE d # c
      BY <2>7, <2>8, <3>2 DEF RightAt, Involved
    <3>3. QED
      BY <3>1, <3>2
  <2>12. QED
    BY <2>1, <2>9, <2>10, <2>11, WrittenStep
<1>4. CASE ~ready
  BY <1>4, FailStep DEF People!AddCommit
<1>5. QED
  BY <1>3, <1>4

\* A face goes to a cluster that it was not in when the request was made.
LEMMA MoveCommitStep ==
  ASSUME People!FacesConstants, PeopleInv, People!MoveCommit
  PROVE  PeopleInv'
<1> DEFINE into == faceRequest.into
           f == faceRequest.f
           seen == faceRequest.seen
           face == seen.faces[f]
           old == face.cluster
           left == IF old = 0 THEN 0 ELSE IF into = People!NewId THEN clusters[old].count ELSE People!Count(old)
           ready == /\ faces[f] # People!NoFace /\ (into # People!NewId => People!Exists(into))
                    /\ left > 0 => People!Exists(old)
<1>1. /\ f \in People!FaceIds /\ into \in 0..MaxCluster /\ faceRequest.label \in FaceLabels \cup {People!None}
      /\ face # People!NoFace /\ into # old
  BY DEF PeopleInv, RequestTyped, People!MoveCommit
<1>2. seen \in TableTypes
  <2>1. faceRequest.op = "move"
    BY DEF People!MoveCommit
  <2>2. faceRequest # People!NoRequest
    BY <2>1 DEF People!NoRequest, People!None
  <2>3. QED
    BY <2>2 DEF PeopleInv, RequestTyped
<1>3. old \in 0..MaxCluster /\ (old # 0 => old \in People!ClusterIds) /\ 0 \notin People!ClusterIds
  BY <1>1, <1>2 DEF TableTypes, People!Face, People!ClusterIds
<1>4. CASE ready
  <2>1. PICK c \in People!Slots(into) :
          /\ faces' = [faces EXCEPT ![f].cluster = c]
          /\ clusters' = [d \in People!ClusterIds |->
               CASE d = c -> [People!Opened(c, faceRequest.label, into)[d] EXCEPT !.count = People!Joined(into)]
                 [] d = old /\ d # c /\ left > 0 -> [clusters[d] EXCEPT !.count = left - 1]
                 [] OTHER -> clusters[d]]
          /\ index' = People!Baked({face.photo}, faces, People!Opened(c, faceRequest.label, into))
          /\ People!Written
    BY <1>4 DEF People!MoveCommit
  <2> DEFINE op == People!Opened(c, faceRequest.label, into)
  <2>2. into # 0 => People!Exists(into)
    BY <1>4 DEF People!NewId
  <2>3. /\ c \in People!ClusterIds /\ c # 0 /\ (into # 0 => c = into) /\ (into = 0 => ~People!Exists(c))
        /\ op \in [People!ClusterIds -> People!Cluster \cup {People!NoCluster}]
        /\ op[c] \in People!Cluster /\ People!Joined(into) \in Nat
        /\ c \notin People!Overlapped(seen) /\ c \notin drifted =>
              People!Joined(into) = Cardinality(People!Members(c)) + 1
    BY <1>1, <1>2, <2>2, JoinedRow
  <2>4. faces[f] \in People!Face /\ faces[f] # People!NoFace /\ faces'[f] = [faces[f] EXCEPT !.cluster = c]
    BY <1>1, <1>4, <2>1, FaceFields DEF PeopleInv, People!TypeOK
  <2>5. faces'[f] \in People!Face /\ faces'[f] # People!NoFace /\ faces'[f].cluster = c
    BY <2>3, <2>4 DEF People!Face, People!NoFace, People!ClusterIds
  <2>6. /\ faces' \in [People!FaceIds -> People!Face \cup {People!NoFace}]
        /\ \A g \in People!FaceIds : g # f => faces'[g] = faces[g]
    BY <1>1, <2>1, <2>5 DEF PeopleInv, People!TypeOK
  <2>7. /\ People!In(faces', c) = People!Members(c) \cup {f}
        /\ \A d \in People!ClusterIds : d # c => People!In(faces', d) = People!Members(d) \ {f}
    BY <1>1, <2>5, <2>6 DEF People!In, People!Members
  <2>8. /\ clusters'[c] = [op[c] EXCEPT !.count = People!Joined(into)]
        /\ \A d \in People!ClusterIds : d # c /\ (d # old \/ left <= 0) => clusters'[d] = clusters[d]
        /\ old # 0 /\ old # c /\ left > 0 => clusters'[old] = [clusters[old] EXCEPT !.count = left - 1]
    <3>1. left \in Int
      <4>1. CASE old # 0 /\ into = People!NewId
        <5>1. clusters[old] \in People!Cluster \cup {People!NoCluster}
          BY <1>3, <4>1 DEF PeopleInv, People!TypeOK
        <5>2. QED
          BY <4>1, <5>1 DEF People!Cluster, People!NoCluster
      <4>2. CASE old # 0 /\ into # People!NewId
        BY <1>2, <1>3, <4>2, SeenCounts DEF People!Count
      <4>3. QED
        BY <4>1, <4>2
    <3> HIDE DEF left, op, old, into, seen, face, f, ready
    <3>2. clusters'[c] = [op[c] EXCEPT !.count = People!Joined(into)]
      BY <2>1, <2>3 DEF op
    <3>3. ASSUME NEW d \in People!ClusterIds, d # c, d # old \/ left <= 0
          PROVE  clusters'[d] = clusters[d]
      <4>1. ~(d = old /\ d # c /\ left > 0)
        BY <3>1, <3>3
      <4>2. QED
        BY <2>1, <3>3, <4>1
    <3>4. ASSUME old # 0, old # c, left > 0
          PROVE  clusters'[old] = [clusters[old] EXCEPT !.count = left - 1]
      BY <1>3, <2>1, <3>4
    <3>5. QED
      BY <3>2, <3>3, <3>4
  <2>9. clusters'[c] \in People!Cluster /\ clusters'[c] # People!NoCluster /\ clusters'[c].count = People!Joined(into)
    <3> HIDE DEF left, op, old, into, seen, face, f, ready
    <3>1. QED
      BY <2>3, <2>8 DEF People!Cluster, People!NoCluster
  <2>10. old # 0 /\ old # c /\ left > 0 =>
           /\ People!Exists(old) /\ left \in Nat /\ clusters'[old] \in People!Cluster /\ clusters'[old] # People!NoCluster
           /\ clusters'[old].count = left - 1
    <3>1. SUFFICES ASSUME old # 0, old # c, left > 0
                   PROVE  /\ People!Exists(old) /\ left \in Nat /\ clusters'[old] \in People!Cluster
                          /\ clusters'[old] # People!NoCluster /\ clusters'[old].count = left - 1
      BY Zenon
    <3>2. People!Exists(old) /\ clusters[old] \in People!Cluster /\ clusters[old].count \in Nat
      BY <1>3, <1>4, <3>1, ClusterFields DEF PeopleInv
    <3>3. left \in Int
      BY <1>2, <1>3, <3>1, <3>2, SeenCounts DEF People!Count
    <3> HIDE DEF left
    <3>4. left - 1 \in Nat /\ left \in Nat
      BY <3>1, <3>3
    <3> HIDE DEF old, into, seen, face, f, ready, op
    <3>5. clusters'[old] = [clusters[old] EXCEPT !.count = left - 1]
      BY <2>8, <3>1
    <3>6. QED
      BY <3>2, <3>4, <3>5 DEF People!Cluster, People!NoCluster
  <2>11. TablesTyped
    <3>1. \A d \in People!ClusterIds : clusters'[d] \in People!Cluster \cup {People!NoCluster}
                                       /\ (People!Exists(d) => clusters'[d] # People!NoCluster)
      <4> HIDE DEF left
      <4>1. ASSUME NEW d \in People!ClusterIds
            PROVE  clusters'[d] \in People!Cluster \cup {People!NoCluster} /\ (People!Exists(d) => clusters'[d] # People!NoCluster)
        <5>1. CASE d = c
          BY <2>9, <5>1
        <5>2. CASE d = old /\ d # c /\ left > 0
          BY <1>3, <2>10, <5>2
        <5>3. CASE d # c /\ clusters'[d] = clusters[d]
          BY <5>3 DEF PeopleInv, People!TypeOK, People!Exists
        <5>4. CASE d # c /\ d = old /\ ~(left > 0)
          <6>1. clusters'[d] = clusters[d]
            BY <2>1, <5>4
          <6>2. QED
            BY <5>3, <5>4, <6>1
        <5>5. QED
          BY <2>8, <5>1, <5>2, <5>3, <5>4
      <4>2. QED
        BY <4>1
    <3>2. clusters' \in [People!ClusterIds -> People!Cluster \cup {People!NoCluster}]
      BY <2>1, <3>1
    <3>3. ASSUME NEW g \in People!FaceIds, faces'[g] # People!NoFace, faces'[g].cluster # 0
          PROVE  clusters'[faces'[g].cluster] # People!NoCluster
      <4>1. CASE g = f
        BY <2>5, <2>9, <4>1
      <4>2. CASE g # f
        BY <2>6, <3>1, <3>3, <4>2, FaceFields DEF PeopleInv
      <4>3. QED
        BY <4>1, <4>2
    <3>4. QED
      BY <2>6, <3>2, <3>3 DEF TablesTyped
  <2>12. index' \in [Photos -> SUBSET FaceLabels]
    BY <2>1, <2>3, BakedTyped DEF PeopleInv, People!TypeOK
  <2>13. ASSUME NEW d \in People!ClusterIds PROVE RightAt(d, People!Overlapped(seen))
    <3> SUFFICES ASSUME clusters'[d] # People!NoCluster, d \notin People!Overlapped(seen), d \notin drifted, Involved(d)
                 PROVE  clusters'[d].count = Cardinality(People!In(faces', d))
      BY DEF RightAt
    <3>1. seen.clusters[d] = clusters[d] /\ People!In(seen.faces, d) = People!Members(d)
      BY ReadRight
    <3>2. f \in People!Members(d) <=> d = old
      BY <1>1, <1>3, <3>1 DEF People!In
    <3>3. CASE d = c
      <4>1. f \notin People!Members(c)
        <5>1. CASE into = 0
          BY <2>3, <5>1, GoneIsEmpty DEF PeopleInv
        <5>2. CASE into # 0
          BY <1>1, <2>3, <3>2, <3>3, <5>2
        <5>3. QED
          BY <5>1, <5>2
      <4>2. Cardinality(People!In(faces', c)) = Cardinality(People!Members(c)) + 1
        BY <2>7, <4>1, InTable, FS_AddElement DEF People!Members
      <4>3. QED
        BY <2>3, <2>9, <3>3, <4>2
    <3>4. CASE d = old /\ d # c
      <4>1. f \in People!Members(d) /\ old # 0
        BY <1>3, <3>2, <3>4
      <4>2. People!Exists(d)
        BY <3>4, <4>1, GoneIsEmpty DEF PeopleInv
      <4>3. left = Cardinality(People!Members(d))
        BY <3>1, <3>4, <4>1, <4>2, SameCounts DEF People!Count, PeopleInv, People!FacesCounted
      <4>4. Cardinality(People!Members(d) \ {f}) = Cardinality(People!Members(d)) - 1
            /\ Cardinality(People!Members(d) \ {f}) \in Nat /\ Cardinality(People!Members(d)) \in Nat
        BY <4>1, InTable, FS_RemoveElement, FS_CardinalityType DEF People!Members
      <4> HIDE DEF left
      <4>5. left > 0
        BY <4>3, <4>4
      <4>6. QED
        BY <2>7, <2>10, <3>4, <4>1, <4>3, <4>4, <4>5
    <3>5. CASE d # old /\ d # c
      <4> HIDE DEF left, op, old, into, seen, face, f, ready
      <4>1. clusters'[d] = clusters[d]
        BY <2>8, <3>5
      <4>3. People!Members(d) \ {f} = People!Members(d)
        BY <3>2, <3>5
      <4>4. People!In(faces', d) = People!Members(d)
        BY <2>7, <3>5, <4>3
      <4>2. QED
        BY <4>1, <4>4 DEF Involved
    <3>6. QED
      BY <3>3, <3>4, <3>5
  <2>14. QED
    BY <2>1, <2>11, <2>12, <2>13, WrittenStep
<1>5. CASE ~ready
  BY <1>5, FailStep DEF People!MoveCommit
<1>6. QED
  BY <1>4, <1>5

LEMMA EraseCommitStep ==
  ASSUME People!FacesConstants, PeopleInv, People!EraseCommit
  PROVE  PeopleInv'
<1> DEFINE f == faceRequest.f
           seen == faceRequest.seen
           face == seen.faces[f]
           old == face.cluster
           counted == old # 0 /\ People!Count(old) > 0
<1>1. f \in People!FaceIds /\ face # People!NoFace
  BY DEF PeopleInv, RequestTyped, People!EraseCommit
<1>2. seen \in TableTypes
  BY DEF PeopleInv, RequestTyped, People!EraseCommit, People!NoRequest, People!None
<1>3. old \in 0..MaxCluster /\ (old # 0 => old \in People!ClusterIds) /\ 0 \notin People!ClusterIds
  BY <1>1, <1>2 DEF TableTypes, People!Face, People!ClusterIds
<1>4. old # 0 => People!Count(old) \in Int
  BY <1>2, <1>3, SeenCounts DEF People!Count
<1>5. CASE counted => People!Exists(old)
  <2>1. /\ faces' = [faces EXCEPT ![f] = People!NoFace]
        /\ clusters' = IF counted THEN [clusters EXCEPT ![old].count = People!Count(old) - 1]
                       ELSE clusters
        /\ index' = People!Baked({face.photo}, faces', clusters')
        /\ People!Written
    BY <1>5 DEF People!EraseCommit
  <2>2. /\ faces' \in [People!FaceIds -> People!Face \cup {People!NoFace}] /\ faces'[f] = People!NoFace
        /\ \A g \in People!FaceIds : g # f => faces'[g] = faces[g]
    BY <1>1, <2>1 DEF PeopleInv, People!TypeOK
  <2>3. \A d \in People!ClusterIds : People!In(faces', d) = People!Members(d) \ {f}
    BY <1>1, <2>2 DEF People!In, People!Members
  <2>4. /\ clusters' \in [People!ClusterIds -> People!Cluster \cup {People!NoCluster}]
        /\ \A d \in People!ClusterIds : People!Exists(d) => clusters'[d] # People!NoCluster
        /\ \A d \in People!ClusterIds : ~counted \/ d # old => clusters'[d] = clusters[d]
        /\ counted => clusters'[old].count = People!Count(old) - 1
    <3>1. CASE counted
      <4>1. old \in People!ClusterIds /\ clusters[old] \in People!Cluster /\ People!Count(old) - 1 \in Nat
        BY <1>3, <1>4, <1>5, <3>1, ClusterFields DEF PeopleInv
      <4>2. clusters'[old] = [clusters[old] EXCEPT !.count = People!Count(old) - 1]
            /\ \A d \in People!ClusterIds : d # old => clusters'[d] = clusters[d]
        BY <2>1, <3>1, <4>1 DEF PeopleInv, People!TypeOK
      <4>3. /\ clusters'[old] \in People!Cluster /\ clusters'[old] # People!NoCluster
            /\ clusters'[old].count = People!Count(old) - 1
        <5> HIDE DEF old, seen, face, f, counted
        <5>1. QED
          BY <4>1, <4>2 DEF People!Cluster, People!NoCluster
      <4>4. clusters' \in [People!ClusterIds -> People!Cluster \cup {People!NoCluster}]
        <5>1. clusters' = [clusters EXCEPT ![old].count = People!Count(old) - 1]
          BY <2>1, <3>1
        <5>2. \A d \in People!ClusterIds : clusters'[d] \in People!Cluster \cup {People!NoCluster}
          BY <4>2, <4>3 DEF PeopleInv, People!TypeOK
        <5>3. QED
          BY <5>1, <5>2 DEF PeopleInv, People!TypeOK
      <4>5. QED
        BY <3>1, <4>2, <4>3, <4>4 DEF People!Exists
    <3>2. CASE ~counted
      BY <2>1, <3>2 DEF PeopleInv, People!TypeOK, People!Exists
    <3>3. QED
      BY <3>1, <3>2
  <2>5. TablesTyped
    <3>1. ASSUME NEW g \in People!FaceIds, faces'[g] # People!NoFace, faces'[g].cluster # 0
          PROVE  clusters'[faces'[g].cluster] # People!NoCluster
      <4>1. g # f /\ faces'[g] = faces[g]
        BY <2>2, <3>1
      <4>2. QED
        BY <2>4, <3>1, <4>1, FaceFields DEF PeopleInv
    <3>2. QED
      BY <2>2, <2>4, <3>1 DEF TablesTyped
  <2>6. index' \in [Photos -> SUBSET FaceLabels]
    BY <2>1, <2>2, <2>4, BakedTyped DEF PeopleInv
  <2>7. ASSUME NEW d \in People!ClusterIds PROVE RightAt(d, People!Overlapped(seen))
    <3> SUFFICES ASSUME clusters'[d] # People!NoCluster, d \notin People!Overlapped(seen), d \notin drifted, Involved(d)
                 PROVE  clusters'[d].count = Cardinality(People!In(faces', d))
      BY DEF RightAt
    <3>1. seen.clusters[d] = clusters[d] /\ People!In(seen.faces, d) = People!Members(d)
      BY ReadRight
    <3>2. f \in People!Members(d) <=> d = old
      BY <1>1, <1>3, <3>1 DEF People!In
    <3>3. CASE d = old
      <4>1. f \in People!Members(d) /\ old # 0
        BY <1>3, <3>2, <3>3
      <4>2. People!Exists(d)
        BY <3>3, <4>1, GoneIsEmpty DEF PeopleInv
      <4>3. People!Count(old) = Cardinality(People!Members(d))
        BY <3>1, <3>3, <4>1, <4>2, SameCounts DEF People!Count, PeopleInv, People!FacesCounted
      <4>4. Cardinality(People!Members(d) \ {f}) = Cardinality(People!Members(d)) - 1
            /\ Cardinality(People!Members(d) \ {f}) \in Nat /\ Cardinality(People!Members(d)) \in Nat
        BY <4>1, InTable, FS_RemoveElement, FS_CardinalityType DEF People!Members
      <4>5. counted
        <5> HIDE DEF old, seen, face, f
        <5>1. Cardinality(People!Members(d)) > 0
          BY <4>4
        <5>2. QED
          BY <4>1, <4>3, <5>1
      <4>6. clusters'[d].count = Cardinality(People!Members(d)) - 1
        BY <2>4, <3>3, <4>3, <4>5
      <4>7. QED
        BY <2>3, <4>4, <4>6
    <3>4. CASE d # old
      <4>1. clusters'[d] = clusters[d] /\ People!In(faces', d) = People!Members(d)
        BY <2>3, <2>4, <3>2, <3>4
      <4>2. QED
        BY <4>1 DEF Involved
    <3>5. QED
      BY <3>3, <3>4
  <2>8. QED
    BY <2>1, <2>5, <2>6, <2>7, WrittenStep
<1>6. CASE ~(counted => People!Exists(old))
  BY <1>6, FailStep DEF People!EraseCommit
<1>7. QED
  BY <1>5, <1>6

-------------------------------------------------------------------------------
(***************************************************************************)
(* Detections.                                                             *)
(***************************************************************************)
LEMMA LeastNat ==
  ASSUME NEW T \in SUBSET Nat, T # {}
  PROVE  \E x \in T : \A y \in T : x <= y
<1> DEFINE R == {ss \in Nat \X Nat : ss[1] < ss[2]}
<1>1. IsWellFoundedOn(R, Nat)
  BY NatLessThanWellFounded DEF OpToRel
<1> HIDE DEF R
<1>2. PICK x \in T : \A y \in T : ~(<<y, x>> \in R)
  BY <1>1, WFMin
<1>3. ASSUME NEW y \in T PROVE x <= y
  <2>1. <<y, x>> \notin R
    BY <1>2
  <2>2. ~(y < x)
    BY <2>1 DEF R
  <2>3. x \in Nat /\ y \in Nat
    OBVIOUS
  <2>4. QED
    BY <2>2, <2>3
<1>4. QED
  BY <1>3

LEMMA GreatestNat ==
  ASSUME NEW m \in Nat, NEW S \in SUBSET (0..m), S # {}
  PROVE  \E z \in S : \A i \in S : z >= i
<1> DEFINE T == {m - i : i \in S}
<1>1. T \in SUBSET Nat /\ T # {}
  <2>1. \A i \in 0..m : m - i \in Nat
    OBVIOUS
  <2>2. \A i \in S : m - i \in Nat
    BY <2>1
  <2>3. QED
    BY <2>2
<1>2. PICK x \in T : \A y \in T : x <= y
  BY <1>1, LeastNat
<1>3. PICK k \in S : x = m - k
  BY <1>2
<1>4. ASSUME NEW i \in S PROVE k >= i
  <2>1. m - i \in T /\ i \in 0..m /\ k \in 0..m
    OBVIOUS
  <2>2. m - k <= m - i
    BY <1>2, <1>3, <2>1
  <2>3. QED
    BY <2>1, <2>2
<1>5. QED
  BY <1>4

\* Beyond the last row that is taken there is none.
LEMMA LastFree ==
  ASSUME NEW m \in Nat, NEW table, DOMAIN table = 1..m, NEW empty
  PROVE  /\ People!Last(table, empty) \in Nat
         /\ \A i \in 1..m : i > People!Last(table, empty) => table[i] = empty
<1> DEFINE S == {0} \cup {i \in DOMAIN table : table[i] # empty}
           last == People!Last(table, empty)
<1>1. S \in SUBSET (0..m) /\ S # {}
  OBVIOUS
<1>2. last = CHOOSE z \in S : \A i \in S : z >= i
  BY DEF People!Last, People!Max
<1>3. \E z \in S : \A i \in S : z >= i
  BY <1>1, GreatestNat
<1>4. last \in S /\ \A i \in S : last >= i
  <2> HIDE DEF S, last
  <2>1. QED
    BY <1>2, <1>3
<1>5. last \in 0..m
  BY <1>1, <1>4
<1>6. ASSUME NEW i \in 1..m, i > last PROVE table[i] = empty
  <2> HIDE DEF last
  <2>1. ~(last >= i)
    BY <1>5, <1>6
  <2>2. i \notin S
    BY <1>4, <2>1
  <2>3. QED
    BY <2>2
<1>7. QED
  BY <1>5, <1>6

\* Of two elements of different rank, more are up to the higher one.
LEMMA RanksApart ==
  ASSUME NEW S, IsFiniteSet(S), NEW rank \in [S -> Int], NEW set \in SUBSET S,
         NEW w \in set, NEW x \in set, rank[w] # rank[x]
  PROVE  Cardinality({v \in set : rank[v] <= rank[w]}) # Cardinality({v \in set : rank[v] <= rank[x]})
<1>1. ASSUME NEW y \in set, NEW z \in set, rank[y] < rank[z]
      PROVE  Cardinality({v \in set : rank[v] <= rank[y]}) # Cardinality({v \in set : rank[v] <= rank[z]})
  <2> DEFINE A == {v \in set : rank[v] <= rank[y]}
             B == {v \in set : rank[v] <= rank[z]}
  <2>1. rank[y] \in Int /\ rank[z] \in Int /\ \A v \in set : rank[v] \in Int
    OBVIOUS
  <2>2. A \in SUBSET B /\ z \in B /\ z \notin A
    BY <1>1, <2>1
  <2>3. B \in SUBSET S
    OBVIOUS
  <2>4. IsFiniteSet(B)
    BY <2>3, FS_Subset
  <2>5. Cardinality(B) = Cardinality(A) => A = B
    BY <2>2, <2>4, FS_Subset
  <2>6. QED
    BY <2>2, <2>5
<1>2. rank[w] < rank[x] \/ rank[x] < rank[w]
  OBVIOUS
<1>3. QED
  BY <1>1, <1>2

LEMMA RankPositive ==
  ASSUME NEW S, IsFiniteSet(S), NEW rank \in [S -> Int], NEW set \in SUBSET S, NEW w \in set
  PROVE  /\ Cardinality({v \in set : rank[v] <= rank[w]}) \in Nat
         /\ Cardinality({v \in set : rank[v] <= rank[w]}) > 0
<1> DEFINE A == {v \in set : rank[v] <= rank[w]}
<1>1. w \in A /\ A \in SUBSET S
  OBVIOUS
<1>2. IsFiniteSet(A) /\ Cardinality(A) \in Nat
  BY <1>1, FS_Subset, FS_CardinalityType
<1>3. Cardinality(A) # 0
  BY <1>1, <1>2, FS_EmptySet
<1>4. QED
  BY <1>2, <1>3

LEMMA DetectBeginStep ==
  ASSUME People!FacesConstants, PeopleInv, NEW p \in Photos, People!DetectBegin(p)
  PROVE  PeopleInv'
<1>1. detector' = [photo |-> p, seen |-> People!Tables] /\ People!Tables \in TableTypes
  BY TablesNow DEF People!DetectBegin, PeopleInv
<1>2. DetectorTyped'
  BY <1>1 DEF DetectorTyped
<1>3. QED
  BY <1>2, QuietPeople DEF People!DetectBegin, PeopleInv, People!TypeOK, RequestTyped

\* What a detection knows of a cluster.
LEMMA LoadedTypes ==
  ASSUME People!FacesConstants, PeopleInv, detector # People!NoDetection, NEW c \in People!ClusterIds
  PROVE  /\ People!Loaded(c) \in People!Cluster \cup {People!NoCluster} /\ People!Loaded(c).count \in Int
         /\ People!CountLeft(c) \in Nat
<1>1. detector.seen \in TableTypes
  BY DEF PeopleInv, DetectorTyped
<1>2. People!Loaded(c) \in People!Cluster \cup {People!NoCluster}
  BY <1>1 DEF People!Loaded, TableTypes, PeopleInv, People!TypeOK
<1>3. People!Loaded(c).count \in Int
  BY <1>2 DEF People!Cluster, People!NoCluster
<1>4. Cardinality(People!ClearedOf(c)) \in Nat
  <2>1. IsFiniteSet(People!In(detector.seen.faces, c)) /\ People!ClearedOf(c) \in SUBSET People!In(detector.seen.faces, c)
    BY InTable DEF People!ClearedOf
  <2>2. QED
    BY <2>1, FS_Subset, FS_CardinalityType
<1>5. QED
  BY <1>2, <1>3, <1>4, SameCounts DEF People!CountLeft

\* Where its read was current, the count it leaves is that of the faces it leaves.
LEMMA LeftRight ==
  ASSUME People!FacesConstants, PeopleInv, detector # People!NoDetection, NEW c \in People!ClusterIds,
         c \notin People!Overlapped(detector.seen), c \notin drifted, People!Exists(c)
  PROVE  /\ People!Loaded(c) = clusters[c] /\ People!CountLeft(c) = Cardinality(People!Members(c) \ People!Cleared)
         /\ clusters[c].count >= People!CountLeft(c)
         /\ clusters[c].count = People!CountLeft(c) => People!Members(c) \ People!Cleared = People!Members(c)
<1>1. detector.seen.clusters[c] = clusters[c] /\ People!In(detector.seen.faces, c) = People!Members(c)
  BY ReadRight
<1>2. People!Loaded(c) = clusters[c] /\ People!ClearedOf(c) = People!Cleared \cap People!Members(c)
  BY <1>1 DEF People!Loaded, People!ClearedOf
<1>3. clusters[c].count = Cardinality(People!Members(c))
  BY SameCounts DEF PeopleInv, People!FacesCounted
<1> DEFINE M == People!Members(c)
           A == People!Cleared \cap M
           B == M \ People!Cleared
<1>4. IsFiniteSet(M) /\ A \in SUBSET M /\ B \in SUBSET M /\ M = A \cup B /\ A \cap B = {}
  BY InTable DEF People!Members
<1>5. IsFiniteSet(A) /\ IsFiniteSet(B) /\ Cardinality(A) \in Nat /\ Cardinality(B) \in Nat
  BY <1>4, FS_Subset, FS_CardinalityType
<1> HIDE DEF M, A, B
<1>6. Cardinality(M) = Cardinality(A) + Cardinality(B)
  <2>1. Cardinality(A \cup B) = Cardinality(A) + Cardinality(B) - Cardinality(A \cap B)
    BY <1>5, FS_Union
  <2>2. Cardinality(A \cap B) = 0
    BY <1>4, FS_EmptySet
  <2>3. QED
    BY <1>4, <1>5, <2>1, <2>2
<1>7. People!CountLeft(c) = Cardinality(B)
  <2>1. People!CountLeft(c) = IF Cardinality(M) - Cardinality(A) > 0 THEN Cardinality(M) - Cardinality(A) ELSE 0
    BY <1>2, <1>3, SameCounts DEF People!CountLeft, A, M
  <2>2. QED
    BY <1>5, <1>6, <2>1
<1>8. Cardinality(M) = Cardinality(B) => B = M
  BY <1>4, FS_Subset
<1>9. QED
  BY <1>2, <1>3, <1>5, <1>6, <1>7, <1>8 DEF B, M

\* The faces found get rows and clusters of their own; new clusters are rows that were free.
Placed(new, id, home, left) ==
  /\ \A w, x \in People!Found : id[w] = id[x] => w = x
  /\ \A w, x \in People!Found : home[w] = home[x] => w = x
  /\ \A w \in People!Found : left[id[w]] = People!NoFace
  /\ \A w \in new : ~People!Exists(home[w])
  /\ \A w \in People!Found \ new : People!Exists(home[w])
  /\ \A c \in People!ClusterIds : People!Loaded(c).count > People!CountLeft(c) => People!Exists(c)

FacesLeft(left) == left = [f \in People!FaceIds |-> IF f \in People!Cleared THEN People!NoFace ELSE faces[f]]

FacesPlaced(id, home, left) ==
  faces' = [f \in People!FaceIds |->
                   IF \E who \in People!Found : id[who] = f
                     THEN LET who == CHOOSE w \in People!Found : id[w] = f
                          IN [photo |-> detector.photo, who |-> who, cluster |-> home[who],
                              source |-> "detector"]
                   ELSE left[f]]

ClustersPlaced(new, home) ==
  clusters' = [c \in People!ClusterIds |->
                   IF \E who \in new : home[who] = c
                     THEN [label |-> People!None, who |-> CHOOSE w \in new : home[w] = c, count |-> 1]
                   ELSE IF \E who \in People!Found : home[who] = c
                     THEN [clusters[c] EXCEPT !.count = People!CountLeft(c) + 1]
                   ELSE IF People!Loaded(c).count > People!CountLeft(c)
                     THEN [clusters[c] EXCEPT !.count = People!CountLeft(c)]
                   ELSE clusters[c]]

LEMMA DetectionWritten ==
  ASSUME People!FacesConstants, PeopleInv, detector # People!NoDetection, UNCHANGED <<photoStatus, index, faceRequest>>,
         detector' = People!NoDetection, People!Drift(People!Overlapped(detector.seen)), People!Disturb,
         NEW new \in SUBSET People!Found, NEW id \in [People!Found -> People!FaceIds], NEW home \in [People!Found -> People!ClusterIds],
         NEW left, FacesLeft(left), Placed(new, id, home, left),
         FacesPlaced(id, home, left), ClustersPlaced(new, home)
  PROVE  PeopleInv'
<1>1. detector.photo \in Photos /\ detector.seen \in TableTypes
  BY DEF PeopleInv, DetectorTyped
<1>2. People!Found \subseteq People!Persons
  BY <1>1 DEF People!Found, People!Persons
<1>w. \A w \in People!Found : id[w] \in People!FaceIds /\ home[w] \in People!ClusterIds
  OBVIOUS
<1>3. ASSUME NEW w \in People!Found
      PROVE  faces'[id[w]] = [photo |-> detector.photo, who |-> w, cluster |-> home[w],
                              source |-> "detector"]
  <2>1. (CHOOSE x \in People!Found : id[x] = id[w]) = w
    BY DEF Placed
  <2>2. id[w] \in People!FaceIds
    OBVIOUS
  <2>3. QED
    BY <2>1, <2>2 DEF FacesPlaced
<1>4. \A w \in People!Found : faces'[id[w]] \in People!Face /\ faces'[id[w]] # People!NoFace /\ faces'[id[w]].cluster = home[w]
  <2> SUFFICES ASSUME NEW w \in People!Found
               PROVE  faces'[id[w]] \in People!Face /\ faces'[id[w]] # People!NoFace /\ faces'[id[w]].cluster = home[w]
    OBVIOUS
  <2>1. home[w] \in 0..MaxCluster /\ w \in People!Persons
    BY <1>2 DEF People!ClusterIds
  <2> DEFINE face == [photo |-> detector.photo, who |-> w, cluster |-> home[w], source |-> "detector"]
  <2>2. face \in People!Face /\ face # People!NoFace /\ face.cluster = home[w]
    BY <1>1, <2>1 DEF People!Face, People!NoFace, People!None
  <2>3. faces'[id[w]] = face
    BY <1>3
  <2> HIDE DEF face
  <2>4. QED
    BY <2>2, <2>3
<1>5. \A f \in People!FaceIds : (~ \E w \in People!Found : id[w] = f) => faces'[f] = left[f]
  BY DEF FacesPlaced
<1>6. \A f \in People!FaceIds : left[f] \in People!Face \cup {People!NoFace} /\ (left[f] # People!NoFace => left[f] = faces[f])
  BY DEF PeopleInv, People!TypeOK, FacesLeft
<1>7. faces' \in [People!FaceIds -> People!Face \cup {People!NoFace}]
  <2>1. \A f \in People!FaceIds : faces'[f] \in People!Face \cup {People!NoFace}
    BY <1>4, <1>5, <1>6
  <2>2. QED
    BY <2>1 DEF FacesPlaced
<1>8. \A c \in People!ClusterIds : People!In(left, c) = People!Members(c) \ People!Cleared
  BY DEF People!In, People!Members, FacesLeft
<1>9. \A c \in People!ClusterIds : People!In(faces', c) = (People!Members(c) \ People!Cleared) \cup {id[w] : w \in {x \in People!Found : home[x] = c}}
  <2> SUFFICES ASSUME NEW c \in People!ClusterIds, NEW f \in People!FaceIds
               PROVE  f \in People!In(faces', c) <=> f \in People!In(left, c) \/ \E w \in People!Found : home[w] = c /\ id[w] = f
    BY <1>8 DEF People!In
  <2>1. CASE \E w \in People!Found : id[w] = f
    <3>1. PICK w \in People!Found : id[w] = f
      BY <2>1
    <3>2. left[f] = People!NoFace /\ faces'[f] # People!NoFace /\ faces'[f].cluster = home[w]
      BY <1>4, <3>1 DEF Placed
    <3>3. \A x \in People!Found : id[x] = f => x = w
      BY <3>1 DEF Placed
    <3>4. QED
      BY <3>1, <3>2, <3>3 DEF People!In
  <2>2. CASE ~ \E w \in People!Found : id[w] = f
    BY <1>5, <2>2 DEF People!In
  <2>3. QED
    BY <2>1, <2>2
<1>10. ASSUME NEW w \in new
       PROVE  /\ home[w] \in People!ClusterIds /\ People!In(faces', home[w]) = {id[w]}
              /\ clusters'[home[w]] \in People!Cluster /\ clusters'[home[w]].count = 1
  <2>1. home[w] \in People!ClusterIds /\ People!Members(home[w]) = {}
    BY GoneIsEmpty DEF PeopleInv, Placed
  <2>2. {x \in People!Found : home[x] = home[w]} = {w}
    BY DEF Placed
  <2>3. People!In(faces', home[w]) = {id[w]}
    BY <1>9, <2>1, <2>2
  <2>4. (CHOOSE x \in new : home[x] = home[w]) = w
    BY DEF Placed
  <2>5. clusters'[home[w]] = [label |-> People!None, who |-> w, count |-> 1]
    BY <2>1, <2>4 DEF ClustersPlaced
  <2>6. QED
    BY <1>2, <2>1, <2>3, <2>5 DEF People!Cluster
<1>11. ASSUME NEW w \in People!Found \ new
       PROVE  /\ home[w] \in People!ClusterIds /\ People!In(faces', home[w]) = (People!Members(home[w]) \ People!Cleared) \cup {id[w]}
              /\ clusters'[home[w]] \in People!Cluster /\ clusters'[home[w]].count = People!CountLeft(home[w]) + 1
  <2>1. home[w] \in People!ClusterIds /\ clusters[home[w]] \in People!Cluster /\ People!CountLeft(home[w]) \in Nat
    BY LoadedTypes, ClusterFields DEF PeopleInv, Placed
  <2>2. {x \in People!Found : home[x] = home[w]} = {w}
    BY DEF Placed
  <2>3. People!In(faces', home[w]) = (People!Members(home[w]) \ People!Cleared) \cup {id[w]}
    BY <1>9, <2>1, <2>2
  <2>4. ~ \E x \in new : home[x] = home[w]
    BY DEF Placed
  <2>5. clusters'[home[w]] = [clusters[home[w]] EXCEPT !.count = People!CountLeft(home[w]) + 1]
    BY <2>1, <2>4 DEF ClustersPlaced
  <2>6. QED
    BY <2>1, <2>3, <2>5 DEF People!Cluster
<1>12. ASSUME NEW c \in People!ClusterIds, ~ \E w \in People!Found : home[w] = c
       PROVE  /\ People!In(faces', c) = People!Members(c) \ People!Cleared
              /\ People!Loaded(c).count > People!CountLeft(c) =>
                   /\ People!Exists(c) /\ clusters'[c] \in People!Cluster /\ clusters'[c].count = People!CountLeft(c)
              /\ ~(People!Loaded(c).count > People!CountLeft(c)) => clusters'[c] = clusters[c]
  <2>1. {x \in People!Found : home[x] = c} = {}
    BY <1>12
  <2>2. People!In(faces', c) = People!Members(c) \ People!Cleared
    BY <1>9, <2>1
  <2>3. ~ \E x \in new : home[x] = c
    BY <1>12
  <2>4. ASSUME People!Loaded(c).count > People!CountLeft(c)
        PROVE  /\ People!Exists(c) /\ clusters'[c] \in People!Cluster /\ clusters'[c].count = People!CountLeft(c)
    <3>1. People!Exists(c) /\ clusters[c] \in People!Cluster /\ People!CountLeft(c) \in Nat
      BY <2>4, LoadedTypes, ClusterFields DEF PeopleInv, Placed
    <3>2. clusters'[c] = [clusters[c] EXCEPT !.count = People!CountLeft(c)]
      BY <1>12, <2>3, <2>4 DEF ClustersPlaced
    <3>3. QED
      BY <3>1, <3>2 DEF People!Cluster
  <2>5. ~(People!Loaded(c).count > People!CountLeft(c)) => clusters'[c] = clusters[c]
    BY <1>12, <2>3 DEF ClustersPlaced
  <2>6. QED
    BY <2>2, <2>4, <2>5
<1>13. \A c \in People!ClusterIds : clusters'[c] \in People!Cluster \cup {People!NoCluster} /\ (People!Exists(c) => clusters'[c] # People!NoCluster)
  <2> SUFFICES ASSUME NEW c \in People!ClusterIds
               PROVE  clusters'[c] \in People!Cluster \cup {People!NoCluster} /\ (People!Exists(c) => clusters'[c] # People!NoCluster)
    OBVIOUS
  <2>1. CASE \E w \in People!Found : home[w] = c
    BY <1>10, <1>11, <2>1, Kinds
  <2>2. CASE ~ \E w \in People!Found : home[w] = c
    BY <1>12, <2>2, Kinds DEF People!Exists, PeopleInv, People!TypeOK
  <2>3. QED
    BY <2>1, <2>2
<1>14. TablesTyped
  <2>1. clusters' \in [People!ClusterIds -> People!Cluster \cup {People!NoCluster}]
    BY <1>13 DEF ClustersPlaced
  <2>2. ASSUME NEW f \in People!FaceIds, faces'[f] # People!NoFace, faces'[f].cluster # 0
        PROVE  clusters'[faces'[f].cluster] # People!NoCluster
    <3>1. CASE \E w \in People!Found : id[w] = f
      BY <1>4, <1>10, <1>11, <3>1, Kinds
    <3>2. CASE ~ \E w \in People!Found : id[w] = f
      <4>1. faces'[f] = left[f] /\ left[f] = faces[f]
        BY <1>5, <1>6, <2>2, <3>2
      <4>2. QED
        BY <1>13, <2>2, <4>1, FaceFields DEF PeopleInv
    <3>3. QED
      BY <3>1, <3>2
  <2>3. QED
    BY <1>7, <2>1, <2>2 DEF TablesTyped
<1>15. ASSUME NEW c \in People!ClusterIds PROVE RightAt(c, People!Overlapped(detector.seen))
  <2>1. ASSUME NEW w \in new, home[w] = c PROVE RightAt(c, People!Overlapped(detector.seen))
    BY <1>10, <2>1, FS_Singleton DEF RightAt
  <2>2. ASSUME NEW w \in People!Found \ new, home[w] = c PROVE RightAt(c, People!Overlapped(detector.seen))
    <3> SUFFICES ASSUME c \notin People!Overlapped(detector.seen), c \notin drifted
                 PROVE  clusters'[c].count = Cardinality(People!In(faces', c))
      BY DEF RightAt
    <3>1. People!CountLeft(c) = Cardinality(People!Members(c) \ People!Cleared)
      <4>1. People!Exists(c)
        BY <2>2 DEF Placed
      <4>2. QED
        BY <4>1, LeftRight
    <3>2. id[w] \notin People!Members(c) \ People!Cleared
      BY DEF People!Members, People!In, Placed, FacesLeft
    <3>3. IsFiniteSet(People!Members(c)) /\ (People!Members(c) \ People!Cleared) \in SUBSET People!Members(c)
      BY InTable DEF People!Members
    <3>4. IsFiniteSet(People!Members(c) \ People!Cleared)
      BY <3>3, FS_Subset
    <3>5. Cardinality((People!Members(c) \ People!Cleared) \cup {id[w]}) = Cardinality(People!Members(c) \ People!Cleared) + 1
      BY <3>2, <3>4, FS_AddElement
    <3>6. QED
      BY <1>11, <2>2, <3>1, <3>5
  <2>3. ASSUME ~ \E w \in People!Found : home[w] = c PROVE RightAt(c, People!Overlapped(detector.seen))
    <3> SUFFICES ASSUME clusters'[c] # People!NoCluster, c \notin People!Overlapped(detector.seen), c \notin drifted,
                        Involved(c)
                 PROVE  clusters'[c].count = Cardinality(People!In(faces', c))
      BY DEF RightAt
    <3>1. People!Exists(c)
      BY <1>12, <2>3 DEF People!Exists
    <3>2. /\ People!Loaded(c) = clusters[c] /\ People!CountLeft(c) = Cardinality(People!Members(c) \ People!Cleared)
          /\ clusters[c].count >= People!CountLeft(c)
          /\ clusters[c].count = People!CountLeft(c) => People!Members(c) \ People!Cleared = People!Members(c)
      BY <3>1, LeftRight
    <3>3. CASE People!Loaded(c).count > People!CountLeft(c)
      BY <1>12, <2>3, <3>2, <3>3
    <3>4. CASE ~(People!Loaded(c).count > People!CountLeft(c))
      <4>1. clusters[c].count = People!CountLeft(c)
        BY <3>1, <3>2, <3>4, LoadedTypes
      <4>2. QED
        BY <1>12, <2>3, <3>2, <3>4, <4>1
    <3>5. QED
      BY <3>3, <3>4
  <2>4. QED
    BY <2>1, <2>2, <2>3
<1>16. RequestTyped' /\ DetectorTyped'
  BY DEF PeopleInv, RequestTyped, DetectorTyped
<1>17. photoStatus' \in [Photos -> {"active", "trashed", "purged"}] /\ index' \in [Photos -> SUBSET FaceLabels]
  BY DEF PeopleInv, People!TypeOK
<1>18. QED
  BY <1>14, <1>15, <1>16, <1>17, TablesCommitStep

LEMMA DetectCommitStep ==
  ASSUME People!FacesConstants, PeopleInv, People!DetectCommit
  PROVE  PeopleInv'
<1>1. detector # People!NoDetection /\ detector.photo \in Photos
  BY DEF People!DetectCommit, PeopleInv, DetectorTyped
<1>2. People!Found \in SUBSET Shown[detector.photo] /\ IsFiniteSet(Shown[detector.photo])
  BY <1>1, SameCounts DEF People!Found, People!FacesConstants
<1>3. IsFiniteSet(People!Found)
  BY <1>2, FS_Subset
<1>4. People!Cardinality(People!Found) \in Nat
  BY <1>3, FS_CardinalityType, SameCounts
<1> DEFINE new == {who \in People!Found : People!Alike(who) = {}}
           left == [f \in People!FaceIds |-> IF f \in People!Cleared THEN People!NoFace ELSE faces[f]]
           before(rank, who, set) == People!Cardinality({w \in set : rank[w] <= rank[who]})
           id(rank) == [who \in People!Found |-> People!Last(left, People!NoFace) + rank[who]]
           home(rank, old) == [who \in People!Found |->
             IF who \in new THEN People!Last(clusters, People!NoCluster) + before(rank, who, new) ELSE old[who]]
           Holds(rank, old) ==
             /\ photoStatus[detector.photo] # "purged"
             /\ \A who \in People!Found \ new : People!Exists(home(rank, old)[who])
             /\ \A c \in People!ClusterIds : People!Loaded(c).count > People!CountLeft(c) => People!Exists(c)
<1>5. PICK rank \in [People!Found -> 1..People!Cardinality(People!Found)], old \in [People!Found -> People!ClusterIds] :
        /\ People!IsInjective(rank)
        /\ \A who \in People!Found : old[who] \in IF who \in new THEN {1} ELSE People!Alike(who)
        /\ \A who \in People!Found : id(rank)[who] \in People!FaceIds /\ home(rank, old)[who] \in People!ClusterIds
        /\ detector' = People!NoDetection
        /\ UNCHANGED <<turns, photoStatus, index, faceRequest>>
        /\ IF Holds(rank, old)
             THEN /\ FacesPlaced(id(rank), home(rank, old), left)
                  /\ ClustersPlaced(new, home(rank, old))
                  /\ People!Drift(People!Overlapped(detector.seen)) /\ People!Disturb
             ELSE UNCHANGED <<faces, clusters, rebuild, drifted>>
  BY DEF People!DetectCommit, FacesPlaced, ClustersPlaced
<1> DEFINE ids == id(rank)
           homes == home(rank, old)
<1>6. ids \in [People!Found -> People!FaceIds] /\ homes \in [People!Found -> People!ClusterIds] /\ new \in SUBSET People!Found
  BY <1>5
<1>7. \A w \in People!Found : ids[w] = People!Last(left, People!NoFace) + rank[w]
  OBVIOUS
<1>8. \A w \in People!Found : homes[w] = IF w \in new THEN People!Last(clusters, People!NoCluster) + before(rank, w, new) ELSE old[w]
  OBVIOUS
<1>9. \A w \in People!Found : rank[w] \in Nat /\ rank[w] > 0
  BY <1>4
<1>10. \A w, x \in People!Found : w # x => rank[w] # rank[x]
  BY <1>5 DEF People!IsInjective
<1>11. rank \in [People!Found -> Int]
  BY <1>4
<1>12. /\ People!Last(left, People!NoFace) \in Nat
       /\ \A f \in People!FaceIds : f > People!Last(left, People!NoFace) => left[f] = People!NoFace
  <2>1. DOMAIN left = 1..MaxFace /\ MaxFace \in Nat
    BY DEF People!FaceIds, People!FacesConstants
  <2> HIDE DEF left
  <2>2. QED
    BY <2>1, LastFree DEF People!FaceIds
<1>13. /\ People!Last(clusters, People!NoCluster) \in Nat
       /\ \A c \in People!ClusterIds : c > People!Last(clusters, People!NoCluster) => clusters[c] = People!NoCluster
  <2>1. DOMAIN clusters = 1..MaxCluster /\ MaxCluster \in Nat
    BY DEF People!ClusterIds, People!FacesConstants, PeopleInv, People!TypeOK
  <2>2. QED
    BY <2>1, LastFree DEF People!ClusterIds
<1>14. CASE Holds(rank, old)
  <2>1. \A w, x \in People!Found : ids[w] = ids[x] => w = x
    <3> HIDE DEF ids, homes, left
    <3>1. QED
      BY <1>7, <1>9, <1>10, <1>12
  <2>2. \A w \in People!Found : left[ids[w]] = People!NoFace
    <3> HIDE DEF ids, homes, left
    <3>1. \A w \in People!Found : ids[w] > People!Last(left, People!NoFace) /\ ids[w] \in People!FaceIds
      BY <1>6, <1>7, <1>9, <1>12
    <3>2. QED
      BY <1>12, <3>1
  <2>3. ASSUME NEW w \in new PROVE ~People!Exists(homes[w])
    <3>1. before(rank, w, new) \in Nat /\ before(rank, w, new) > 0
      <4> HIDE DEF new
      <4>1. QED
        BY <1>3, <1>6, <1>11, RankPositive, SameCounts
    <3>2. homes[w] = People!Last(clusters, People!NoCluster) + before(rank, w, new) /\ homes[w] \in People!ClusterIds
      BY <1>6, <1>8
    <3> HIDE DEF homes, before, new
    <3>3. homes[w] > People!Last(clusters, People!NoCluster)
      BY <1>13, <3>1, <3>2
    <3>4. QED
      BY <1>13, <3>2, <3>3 DEF People!Exists
  <2>4. \A w \in People!Found \ new : People!Exists(homes[w])
    BY <1>14
  <2>5. ASSUME NEW w \in People!Found \ new PROVE homes[w] = old[w] /\ People!Loaded(homes[w]).who = w
    <3>1. old[w] \in People!Alike(w) /\ homes[w] = old[w]
      BY <1>5, <1>8
    <3>2. QED
      BY <3>1 DEF People!Alike
  <2>6. ASSUME NEW w \in new, NEW x \in new, homes[w] = homes[x] PROVE w = x
    <3>1. /\ homes[w] = People!Last(clusters, People!NoCluster) + before(rank, w, new)
          /\ homes[x] = People!Last(clusters, People!NoCluster) + before(rank, x, new)
      BY <1>8
    <3>2. before(rank, w, new) \in Nat /\ before(rank, x, new) \in Nat
      <4> HIDE DEF new
      <4>1. QED
        BY <1>3, <1>6, <1>11, RankPositive, SameCounts
    <3>3. before(rank, w, new) = before(rank, x, new)
      <4>1. \A k, a, b \in Nat : k + a = k + b => a = b
        OBVIOUS
      <4>2. People!Last(clusters, People!NoCluster) + before(rank, w, new) = People!Last(clusters, People!NoCluster) + before(rank, x, new)
        BY <2>6, <3>1
      <4> HIDE DEF homes, before, new
      <4>3. QED
        BY <1>13, <3>2, <4>1, <4>2
    <3>4. rank[w] = rank[x]
      <4> HIDE DEF new
      <4>1. Cardinality({v \in new : rank[v] <= rank[w]}) = Cardinality({v \in new : rank[v] <= rank[x]})
        BY <3>3, SameCounts
      <4>2. QED
        BY <1>3, <1>6, <1>11, <4>1, RanksApart
    <3>5. QED
      BY <1>10, <3>4
  <2>7. \A w, x \in People!Found : homes[w] = homes[x] => w = x
    <3> HIDE DEF homes, new
    <3>1. ASSUME NEW w \in People!Found, NEW x \in People!Found, homes[w] = homes[x] PROVE w = x
      <4>1. CASE w \in new /\ x \in new
        BY <2>6, <3>1, <4>1
      <4>2. CASE w \notin new /\ x \notin new
        BY <2>5, <3>1, <4>2
      <4>3. CASE ~(w \in new <=> x \in new)
        BY <2>3, <2>4, <3>1, <4>3
      <4>4. QED
        BY <4>1, <4>2, <4>3
    <3>2. QED
      BY <3>1
  <2>8. Placed(new, ids, homes, left)
    <3>1. \A c \in People!ClusterIds : People!Loaded(c).count > People!CountLeft(c) => People!Exists(c)
      BY <1>14
    <3> HIDE DEF ids, homes, new, left
    <3>2. QED
      BY <2>1, <2>2, <2>3, <2>4, <2>7, <3>1 DEF Placed
  <2>9. FacesLeft(left)
    BY DEF FacesLeft
  <2>10. /\ FacesPlaced(ids, homes, left) /\ ClustersPlaced(new, homes)
         /\ People!Drift(People!Overlapped(detector.seen)) /\ People!Disturb /\ detector' = People!NoDetection
         /\ UNCHANGED <<photoStatus, index, faceRequest>>
    BY <1>5, <1>14
  <2> HIDE DEF ids, homes, new, left
  <2>11. QED
    BY <1>1, <1>6, <2>8, <2>9, <2>10, DetectionWritten
<1>15. CASE ~Holds(rank, old)
  <2>1. UNCHANGED <<photoStatus, index, faceRequest, faces, clusters, rebuild, drifted>> /\ detector' = People!NoDetection
    BY <1>5, <1>15
  <2>2. RequestTyped' /\ DetectorTyped' /\ index' \in [Photos -> SUBSET FaceLabels]
    BY <2>1 DEF PeopleInv, RequestTyped, DetectorTyped, People!TypeOK
  <2>3. QED
    BY <2>1, <2>2, QuietPeople
<1>16. QED
  BY <1>14, <1>15

-------------------------------------------------------------------------------
(***************************************************************************)
(* The rebuild.                                                            *)
(***************************************************************************)
\* Who is eligible depends on the photos' states and on the faces' photos and people.
LEMMA SameEligible ==
  ASSUME photoStatus' = photoStatus,
         \A f \in People!FaceIds : /\ faces'[f] = People!NoFace <=> faces[f] = People!NoFace
                                   /\ faces'[f].photo = faces[f].photo /\ faces'[f].who = faces[f].who
  PROVE  /\ People!Active' = People!Active /\ People!Eligible' = People!Eligible
         /\ \A who : Faces1(who)' = Faces1(who)
<1>1. People!Active' = People!Active
  BY DEF People!Active
<1>2. People!Eligible' = People!Eligible
  BY <1>1 DEF People!Eligible, People!Active
<1>3. ASSUME NEW who PROVE Faces1(who)' = Faces1(who)
  BY <1>2 DEF Faces1, People!Eligible, People!Active
<1>4. QED
  BY <1>1, <1>2, <1>3

LEMMA EligibleFaces ==
  ASSUME People!TypeOK, NEW f \in People!Eligible
  PROVE  f \in People!FaceIds /\ faces[f] # People!NoFace /\ faces[f].who \in People!Persons
  BY FaceFields DEF People!Eligible, People!Active

LEMMA RebuildPlanStep ==
  ASSUME People!FacesConstants, PeopleInv, People!RebuildPlan
  PROVE  PeopleInv'
<1> DEFINE of(who) == {f \in People!Eligible : faces[f].who = who}
           people == {faces[f].who : f \in People!Eligible}
<1>1. UNCHANGED <<photoStatus, faces, clusters, index, faceRequest, detector, drifted>>
  BY DEF People!RebuildPlan
<1>2. PICK label \in [people -> FaceLabels \cup {People!None}] :
        rebuild' = [pc |-> "create", disturbed |-> FALSE, old |-> {},
               gated |-> People!Active \ People!Eligible,
               groups |-> {[who |-> who, label |-> label[who], faces |-> of(who), id |-> 0] :
                             who \in people}]
  BY DEF People!RebuildPlan
<1>3. people \subseteq People!Persons /\ \A who : of(who) \in SUBSET People!FaceIds
  BY EligibleFaces DEF PeopleInv, People!Eligible, People!Active
<1>4. \A g \in rebuild'.groups :
        \E who \in people : g = [who |-> who, label |-> label[who], faces |-> of(who), id |-> 0]
  BY <1>2
<1>5. \A g \in rebuild'.groups : g \in Group
  <2> SUFFICES ASSUME NEW g \in rebuild'.groups PROVE g \in Group
    OBVIOUS
  <2>1. PICK who \in people : g = [who |-> who, label |-> label[who], faces |-> of(who), id |-> 0]
    BY <1>4
  <2>2. who \in People!Persons /\ label[who] \in FaceLabels \cup {People!None} /\ of(who) \in SUBSET People!FaceIds /\ 0 \in 0..MaxCluster
    BY <1>3 DEF People!FacesConstants
  <2> HIDE DEF of, people
  <2>3. QED
    BY <2>1, <2>2 DEF Group
<1>6. RebuildTyped'
  <2>1. People!Active \ People!Eligible \in SUBSET People!FaceIds
    BY DEF People!Active
  <2>2. rebuild'.groups \in SUBSET Group /\ rebuild'.pc = "create" /\ ~rebuild'.disturbed
        /\ rebuild'.old = {} /\ rebuild'.gated = People!Active \ People!Eligible
    BY <1>2, <1>5
  <2>3. rebuild' \in [pc : {"idle", "create", "assign", "null", "drop"}, groups : SUBSET Group,
                  gated : SUBSET People!FaceIds, old : SUBSET People!ClusterIds, disturbed : BOOLEAN]
    <3> DEFINE gs == {[who |-> who, label |-> label[who], faces |-> of(who), id |-> 0] :
                             who \in people}
    <3>1. rebuild' = [pc |-> "create", disturbed |-> FALSE, old |-> {},
               gated |-> People!Active \ People!Eligible, groups |-> gs] /\ gs \in SUBSET Group
      BY <1>2, <2>2
    <3> HIDE DEF gs, of, people
    <3>2. QED
      BY <2>1, <3>1
  <2>4. QED
    BY <2>2, <2>3 DEF RebuildTyped, People!HalfWay
<1>7. rebuild'.pc = "create" /\ rebuild'.gated = People!Active \ People!Eligible
  BY <1>2
<1>8. HalfDrifted' /\ Sorted'
  BY <1>7 DEF HalfDrifted, Sorted, People!HalfWay
<1>9. Planned'
  <2>1. People!Active' = People!Active /\ People!Eligible' = People!Eligible /\ \A who : Faces1(who)' = Faces1(who)
    BY <1>1, SameEligible
  <2>2. ASSUME NEW g \in rebuild'.groups
        PROVE  /\ g.who \in people /\ g.faces = Faces1(g.who) /\ g.faces # {}
               /\ g = [who |-> g.who, label |-> label[g.who], faces |-> of(g.who), id |-> 0]
    <3>1. PICK who \in people : g = [who |-> who, label |-> label[who], faces |-> of(who), id |-> 0]
      BY <1>4
    <3>2. PICK f \in People!Eligible : faces[f].who = who
      OBVIOUS
    <3>3. f \in of(who)
      BY <3>2
    <3> HIDE DEF of, people
    <3>4. g.who = who /\ g.faces = of(who) /\ g = [who |-> g.who, label |-> label[g.who], faces |-> of(g.who), id |-> 0]
      BY <3>1
    <3>5. QED
      BY <3>3, <3>4 DEF Faces1, of
  <2>3. ASSUME NEW f \in People!Eligible PROVE \E g \in rebuild'.groups : g.who = faces[f].who
    <3> DEFINE who == faces[f].who
               g == [who |-> who, label |-> label[who], faces |-> of(who), id |-> 0]
    <3>1. who \in people
      OBVIOUS
    <3>2. g \in rebuild'.groups
      BY <1>2, <3>1
    <3>3. g.who = who
      OBVIOUS
    <3> HIDE DEF g
    <3>4. QED
      BY <3>2, <3>3
  <2>4. \A g, h \in rebuild'.groups : g.who = h.who => g = h
    <3> HIDE DEF of, people
    <3>1. QED
      BY <2>2
  <2>5. /\ \A g \in rebuild'.groups : g.faces = Faces1(g.who)' /\ g.faces # {}
        /\ \A f \in People!Eligible' : \E g \in rebuild'.groups : g.who = faces'[f].who
    BY <1>1, <2>1, <2>2, <2>3
  <2>6. QED
    BY <1>7, <2>1, <2>4, <2>5 DEF Planned
<1>10. People!TypeOK' /\ RequestTyped' /\ DetectorTyped' /\ People!FacesCounted'
  BY <1>1, <1>7 DEF PeopleInv, People!TypeOK, RequestTyped, DetectorTyped, People!FacesCounted,
     People!Exists, People!Members
<1>11. QED
  BY <1>6, <1>8, <1>9, <1>10 DEF PeopleInv

\* The new clusters are rows that were free; none has a face yet.
LEMMA RebuildCreateStep ==
  ASSUME People!FacesConstants, PeopleInv, People!RebuildCreate
  PROVE  PeopleInv'
<1> DEFINE top == {c \in People!ClusterIds : \A d \in People!ClusterIds : d >= c => ~People!Exists(d)}
           ids == {c \in top : People!Cardinality({d \in top : d < c}) < People!Cardinality(rebuild.groups)}
           groups == rebuild.groups
<1>1. rebuild.pc = "create" /\ UNCHANGED <<turns, photoStatus, faces, index, faceRequest, detector>>
  BY DEF People!RebuildCreate
<1>2. PICK id \in [groups -> ids] :
       /\ \A g, h \in groups : id[g] = id[h] => g = h
       /\ clusters' = [c \in People!ClusterIds |->
            IF \E g \in groups : id[g] = c
              THEN LET g == CHOOSE x \in groups : id[x] = c
                   IN [label |-> g.label, who |-> g.who, count |-> People!Cardinality(g.faces)]
            ELSE clusters[c]]
       /\ rebuild' = [rebuild EXCEPT
            !.pc = "assign", !.old = People!Old,
            !.groups = {[g EXCEPT !.id = id[g]] : g \in groups}]
       /\ drifted' = {c \in People!ClusterIds : clusters'[c] # People!NoCluster}
  BY DEF People!RebuildCreate
<1>3. \A c \in ids : c \in People!ClusterIds /\ ~People!Exists(c)
  BY DEF People!ClusterIds
<1>4. \A g \in groups : g \in Group /\ id[g] \in People!ClusterIds /\ ~People!Exists(id[g])
  BY <1>2, <1>3 DEF PeopleInv, RebuildTyped
<1> HIDE DEF ids, top
<1>5. ASSUME NEW g \in groups
      PROVE  /\ clusters'[id[g]] \in People!Cluster /\ clusters'[id[g]].who = g.who
             /\ clusters'[id[g]].count = Cardinality(g.faces)
  <2>1. (CHOOSE x \in groups : id[x] = id[g]) = g
    BY <1>2
  <2>2. clusters'[id[g]] = [label |-> g.label, who |-> g.who, count |-> Cardinality(g.faces)]
    BY <1>2, <1>4, <2>1, SameCounts
  <2>3. Cardinality(g.faces) \in Nat
    <3>1. IsFiniteSet(People!FaceIds)
      BY FS_Interval, SameCounts DEF People!FaceIds, People!FacesConstants
    <3>2. g.faces \in SUBSET People!FaceIds
      BY <1>4 DEF Group
    <3>3. QED
      BY <3>1, <3>2, FS_Subset, FS_CardinalityType
  <2>4. QED
    BY <1>4, <2>2, <2>3 DEF Group, People!Cluster
<1>6. \A c \in People!ClusterIds : (~ \E g \in groups : id[g] = c) => clusters'[c] = clusters[c]
  BY <1>2
<1>7. /\ clusters' \in [People!ClusterIds -> People!Cluster \cup {People!NoCluster}]
      /\ \A c \in People!ClusterIds : People!Exists(c) => clusters'[c] = clusters[c]
  <2>1. \A c \in People!ClusterIds : clusters'[c] \in People!Cluster \cup {People!NoCluster}
    BY <1>5, <1>6 DEF PeopleInv, People!TypeOK
  <2>2. clusters' \in [People!ClusterIds -> People!Cluster \cup {People!NoCluster}]
    BY <1>2, <2>1
  <2>3. \A c \in People!ClusterIds : People!Exists(c) => clusters'[c] = clusters[c]
    BY <1>4, <1>6
  <2>4. QED
    BY <2>2, <2>3
<1> DEFINE fresh == {[g EXCEPT !.id = id[g]] : g \in groups}
<1>8. \A h \in fresh : \E g \in groups : /\ h = [g EXCEPT !.id = id[g]] /\ h \in Group /\ h.id = id[g]
                                         /\ h.who = g.who /\ h.faces = g.faces
  <2> SUFFICES ASSUME NEW g \in groups
               PROVE  LET h == [g EXCEPT !.id = id[g]] IN
                      h \in Group /\ h.id = id[g] /\ h.who = g.who /\ h.faces = g.faces
    BY Zenon
  <2>1. g \in Group /\ id[g] \in 0..MaxCluster
    BY <1>4 DEF People!ClusterIds
  <2>2. QED
    BY <2>1 DEF Group
<1>9. /\ rebuild'.pc = "assign" /\ rebuild'.old = People!Old /\ rebuild'.groups = fresh
      /\ rebuild'.gated = rebuild.gated /\ rebuild'.disturbed = rebuild.disturbed
      /\ rebuild' \in [pc : {"idle", "create", "assign", "null", "drop"}, groups : SUBSET Group,
                  gated : SUBSET People!FaceIds, old : SUBSET People!ClusterIds, disturbed : BOOLEAN]
  <2>1. fresh \in SUBSET Group /\ People!Old \in SUBSET People!ClusterIds
    BY <1>8 DEF People!Old
  <2>2. rebuild' = [rebuild EXCEPT !.pc = "assign", !.old = People!Old, !.groups = fresh]
    BY <1>2
  <2> HIDE DEF fresh
  <2>3. QED
    BY <2>1, <2>2 DEF PeopleInv, RebuildTyped
<1> HIDE DEF fresh
<1>10. RebuildTyped'
  BY <1>4, <1>8, <1>9 DEF RebuildTyped
<1>11. People!TypeOK'
  <2>1. ASSUME NEW f \in People!FaceIds, faces'[f] # People!NoFace, faces'[f].cluster # 0
        PROVE  clusters'[faces'[f].cluster] # People!NoCluster
    <3>1. faces[f].cluster \in People!ClusterIds /\ People!Exists(faces[f].cluster)
      BY <1>1, <2>1, FaceFields DEF PeopleInv
    <3>2. clusters'[faces[f].cluster] = clusters[faces[f].cluster]
      BY <1>7, <3>1
    <3>3. QED
      BY <1>1, <3>1, <3>2 DEF People!Exists
  <2>2. \A f \in People!FaceIds : faces'[f] # People!NoFace /\ faces'[f].cluster # 0 => clusters'[faces'[f].cluster] # People!NoCluster
    BY <2>1
  <2>3. drifted' \subseteq People!ClusterIds
    BY <1>2
  <2>4. /\ photoStatus' \in [Photos -> {"active", "trashed", "purged"}]
        /\ faces' \in [People!FaceIds -> People!Face \cup {People!NoFace}] /\ index' \in [Photos -> SUBSET FaceLabels]
    BY <1>1 DEF PeopleInv, People!TypeOK
  <2>5. QED
    BY <1>7, <1>9, <2>2, <2>3, <2>4 DEF People!TypeOK, People!Exists
<1>12. HalfDrifted' /\ People!FacesCounted' /\ Planned' /\ RequestTyped' /\ DetectorTyped'
  BY <1>1, <1>2, <1>9 DEF HalfDrifted, People!FacesCounted, Planned, RequestTyped, DetectorTyped,
     PeopleInv, People!Exists
<1>13. Sorted'
  <2> SUFFICES ASSUME ~rebuild.disturbed PROVE Sorted'
    BY <1>9 DEF Sorted
  <2>1. People!Active' = People!Active /\ People!Eligible' = People!Eligible /\ \A who : Faces1(who)' = Faces1(who)
    BY <1>1, SameEligible
  <2>2. /\ rebuild.gated = People!Active \ People!Eligible
        /\ \A g \in groups : g.faces = Faces1(g.who) /\ g.faces # {}
        /\ \A g, h \in groups : g.who = h.who => g = h
        /\ \A f \in People!Eligible : \E g \in groups : g.who = faces[f].who
    BY <1>1 DEF PeopleInv, Planned
  <2>3. \A c \in People!ClusterIds : Added(c)' <=> \E g \in groups : id[g] = c
    <3>1. ASSUME NEW c \in People!ClusterIds, NEW g \in groups, id[g] = c PROVE Added(c)'
      BY <1>4, <1>5, <1>9, <3>1, Kinds DEF Added, People!Exists, People!Old
    <3>2. ASSUME NEW c \in People!ClusterIds, ~ \E g \in groups : id[g] = c PROVE ~Added(c)'
      BY <1>6, <1>9, <3>2 DEF Added, People!Exists, People!Old
    <3>3. QED
      BY <3>1, <3>2
  <2>4. \A c \in People!ClusterIds : People!Members(c)' = People!Members(c)
    BY <1>1 DEF People!Members
  <2>5. ASSUME NEW h \in fresh
        PROVE  /\ Added(h.id)' /\ clusters'[h.id].who = h.who /\ People!Members(h.id)' = {}
               /\ h.faces = Faces1(h.who)' /\ h.faces # {} /\ clusters'[h.id].count = Cardinality(h.faces)
    <3>1. PICK g \in groups : h.id = id[g] /\ h.who = g.who /\ h.faces = g.faces
      BY <1>8
    <3>2. id[g] \in People!ClusterIds /\ ~People!Exists(id[g])
      BY <1>4
    <3>3. People!Members(id[g]) = {}
      BY <3>2, GoneIsEmpty DEF PeopleInv
    <3>4. People!Members(h.id)' = {}
      BY <2>4, <3>1, <3>2, <3>3
    <3>5. Added(h.id)'
      BY <2>3, <3>1, <3>2
    <3>6. QED
      BY <1>5, <2>1, <2>2, <3>1, <3>4, <3>5
  <2>6. \A g, h \in fresh : g.id = h.id => g = h
    <3> SUFFICES ASSUME NEW a \in fresh, NEW b \in fresh, a.id = b.id PROVE a = b
      OBVIOUS
    <3>1. PICK g \in groups : a = [g EXCEPT !.id = id[g]] /\ a.id = id[g]
      BY <1>8
    <3>2. PICK h \in groups : b = [h EXCEPT !.id = id[h]] /\ b.id = id[h]
      BY <1>8
    <3>3. g = h
      BY <1>2, <3>1, <3>2
    <3>4. QED
      BY <3>1, <3>2, <3>3
  <2>7. \A g \in groups : \E h \in fresh : h.id = id[g]
    <3> SUFFICES ASSUME NEW g \in groups PROVE \E h \in fresh : h.id = id[g]
      OBVIOUS
    <3>1. [g EXCEPT !.id = id[g]] \in fresh /\ g \in Group
      BY <1>4 DEF fresh
    <3>2. [g EXCEPT !.id = id[g]].id = id[g]
      BY <3>1 DEF Group
    <3>3. QED
      BY <3>1, <3>2
  <2>8. \A c \in People!ClusterIds : Added(c)' => \E g \in fresh : g.id = c
    BY <2>3, <2>7
  <2>9. \A c, d \in People!ClusterIds : Added(c)' /\ Added(d)' /\ clusters'[c].who = clusters'[d].who => c = d
    <3> SUFFICES ASSUME NEW c \in People!ClusterIds, NEW d \in People!ClusterIds, Added(c)', Added(d)',
                        clusters'[c].who = clusters'[d].who
                 PROVE  c = d
      OBVIOUS
    <3>1. PICK g \in groups : id[g] = c
      BY <2>3
    <3>2. PICK h \in groups : id[h] = d
      BY <2>3
    <3>3. QED
      BY <1>5, <2>2, <3>1, <3>2
  <2>10. ASSUME NEW f \in People!Eligible
         PROVE  \E c \in People!ClusterIds : Added(c)' /\ clusters'[c].who = faces'[f].who
    <3>1. PICK g \in groups : g.who = faces[f].who
      BY <2>2
    <3>2. id[g] \in People!ClusterIds /\ Added(id[g])' /\ clusters'[id[g]].who = g.who
      BY <1>4, <1>5, <2>3
    <3>3. QED
      BY <1>1, <3>1, <3>2
  <2>11. QED
    BY <1>9, <2>1, <2>2, <2>5, <2>6, <2>8, <2>9, <2>10 DEF Sorted
<1>14. QED
  BY <1>10, <1>11, <1>12, <1>13 DEF PeopleInv

\* A step of the rebuild that gives faces other clusters, which are there, or none.
LEMMA Reassigned ==
  ASSUME People!TypeOK, NEW S \in SUBSET People!FaceIds, NEW c \in 0..MaxCluster,
         (c \in People!ClusterIds /\ People!Exists(c)) \/ c = 0 \/ \A f \in S : faces[f] = People!NoFace,
         faces' = [f \in People!FaceIds |->
                     IF f \in S /\ faces[f] # People!NoFace THEN [faces[f] EXCEPT !.cluster = c] ELSE faces[f]]
  PROVE  /\ faces' \in [People!FaceIds -> People!Face \cup {People!NoFace}]
         /\ \A f \in People!FaceIds :
              /\ faces'[f] = People!NoFace <=> faces[f] = People!NoFace
              /\ faces'[f].photo = faces[f].photo /\ faces'[f].who = faces[f].who
              /\ f \in S /\ faces[f] # People!NoFace => faces'[f].cluster = c
              /\ f \notin S => faces'[f] = faces[f]
         /\ \A f \in People!FaceIds : faces'[f] # People!NoFace /\ faces'[f].cluster # 0 => People!Exists(faces'[f].cluster)
<1>1. ASSUME NEW f \in People!FaceIds
      PROVE  /\ faces'[f] \in People!Face \cup {People!NoFace} /\ (faces'[f] = People!NoFace <=> faces[f] = People!NoFace)
             /\ faces'[f].photo = faces[f].photo /\ faces'[f].who = faces[f].who
             /\ f \in S /\ faces[f] # People!NoFace => faces'[f].cluster = c
             /\ f \notin S => faces'[f] = faces[f]
  <2>1. CASE f \in S /\ faces[f] # People!NoFace
    <3>1. faces[f] \in People!Face /\ faces'[f] = [faces[f] EXCEPT !.cluster = c]
      BY <2>1, FaceFields
    <3>2. QED
      BY <2>1, <3>1 DEF People!Face, People!NoFace, People!None
  <2>2. CASE ~(f \in S /\ faces[f] # People!NoFace)
    BY <2>2 DEF People!TypeOK
  <2>3. QED
    BY <2>1, <2>2
<1>2. faces' \in [People!FaceIds -> People!Face \cup {People!NoFace}]
  BY <1>1
<1>3. \A f \in People!FaceIds : faces'[f] # People!NoFace /\ faces'[f].cluster # 0 => People!Exists(faces'[f].cluster)
  BY <1>1, FaceFields
<1>4. QED
  BY <1>1, <1>2, <1>3

\* What a step of the second half of a rebuild has to show: no count is claimed there.
LEMMA StageStep ==
  ASSUME PeopleInv, People!HalfWay, UNCHANGED <<photoStatus, clusters, index, faceRequest, detector, drifted>>,
         faces' \in [People!FaceIds -> People!Face \cup {People!NoFace}],
         \A f \in People!FaceIds : faces'[f] # People!NoFace /\ faces'[f].cluster # 0 => People!Exists(faces'[f].cluster),
         RebuildTyped', rebuild'.pc # "create", Sorted'
  PROVE  PeopleInv'
<1>1. People!TypeOK'
  BY DEF PeopleInv, People!TypeOK, RebuildTyped, People!Exists
<1>2. RequestTyped' /\ DetectorTyped' /\ Planned'
  BY DEF PeopleInv, RequestTyped, DetectorTyped, Planned
<1>3. \A c \in People!ClusterIds : People!Exists(c)' => c \in drifted'
  BY DEF PeopleInv, HalfDrifted, People!Exists
<1>4. HalfDrifted' /\ People!FacesCounted'
  BY <1>3 DEF HalfDrifted, People!FacesCounted
<1>5. QED
  BY <1>1, <1>2, <1>4 DEF PeopleInv

\* The rebuild has ended, or failed, and changed nothing else.
LEMMA StopStep ==
  ASSUME PeopleInv, rebuild' = People!NoRebuild, DetectorTyped',
         UNCHANGED <<photoStatus, faces, clusters, index, faceRequest, drifted>>
  PROVE  PeopleInv'
<1>1. People!TypeOK' /\ RequestTyped' /\ People!FacesCounted'
  BY DEF PeopleInv, People!TypeOK, RequestTyped, People!FacesCounted, People!NoRebuild,
     People!Exists, People!Members
<1>2. RebuildTyped' /\ HalfDrifted' /\ Planned' /\ Sorted'
  BY DEF RebuildTyped, HalfDrifted, Planned, Sorted, People!HalfWay, People!NoRebuild
<1>3. QED
  BY <1>1, <1>2 DEF PeopleInv

LEMMA RebuildAssignStep ==
  ASSUME People!FacesConstants, PeopleInv, People!RebuildAssign
  PROVE  PeopleInv'
<1>1. /\ rebuild.pc = "assign" /\ People!HalfWay
      /\ UNCHANGED <<turns, photoStatus, clusters, index, faceRequest, detector, drifted>>
  BY DEF People!RebuildAssign, People!HalfWay
<1>2. CASE rebuild.groups = {} /\ rebuild' = [rebuild EXCEPT !.pc = "null"] /\ UNCHANGED faces
  <2>1. /\ rebuild'.pc = "null" /\ rebuild'.groups = {} /\ rebuild'.old = rebuild.old
        /\ rebuild'.gated = rebuild.gated /\ rebuild'.disturbed = rebuild.disturbed /\ RebuildTyped'
    BY <1>2 DEF PeopleInv, RebuildTyped, People!HalfWay
  <2>2. People!Active' = People!Active /\ People!Eligible' = People!Eligible /\ \A who : Faces1(who)' = Faces1(who)
    BY <1>1, <1>2, SameEligible
  <2>3. Sorted'
    BY <1>1, <1>2, <2>1, <2>2 DEF PeopleInv, Sorted, People!HalfWay, Added, People!Exists,
       People!Members, Gathered
  <2>4. /\ faces' \in [People!FaceIds -> People!Face \cup {People!NoFace}]
        /\ \A f \in People!FaceIds : faces'[f] # People!NoFace /\ faces'[f].cluster # 0 => People!Exists(faces'[f].cluster)
    BY <1>2 DEF PeopleInv, People!TypeOK
  <2>5. QED
    BY <1>1, <2>1, <2>3, <2>4, StageStep
<1>3. ASSUME NEW g \in rebuild.groups, People!Exists(g.id) \/ \A f \in g.faces : faces[f] = People!NoFace,
             faces' = [f \in People!FaceIds |->
                      IF f \in g.faces /\ faces[f] # People!NoFace THEN [faces[f] EXCEPT !.cluster = g.id]
                      ELSE faces[f]],
             rebuild' = [rebuild EXCEPT !.groups = @ \ {g}]
      PROVE  PeopleInv'
  <2>1. g.faces \in SUBSET People!FaceIds /\ g.id \in People!ClusterIds /\ g.id \in 0..MaxCluster
    BY <1>1, <1>3 DEF PeopleInv, RebuildTyped, Group
  <2>2. /\ faces' \in [People!FaceIds -> People!Face \cup {People!NoFace}]
        /\ \A f \in People!FaceIds :
              /\ faces'[f] = People!NoFace <=> faces[f] = People!NoFace
              /\ faces'[f].photo = faces[f].photo /\ faces'[f].who = faces[f].who
              /\ f \in g.faces /\ faces[f] # People!NoFace => faces'[f].cluster = g.id
              /\ f \notin g.faces => faces'[f] = faces[f]
        /\ \A f \in People!FaceIds : faces'[f] # People!NoFace /\ faces'[f].cluster # 0 => People!Exists(faces'[f].cluster)
    BY <1>3, <2>1, Reassigned DEF PeopleInv
  <2>3. /\ rebuild'.pc = "assign" /\ rebuild'.groups = rebuild.groups \ {g} /\ rebuild'.old = rebuild.old
        /\ rebuild'.gated = rebuild.gated /\ rebuild'.disturbed = rebuild.disturbed /\ RebuildTyped'
    BY <1>1, <1>3 DEF PeopleInv, RebuildTyped, People!HalfWay
  <2>4. Sorted'
    <3> SUFFICES ASSUME ~rebuild.disturbed PROVE Sorted'
      BY <2>3 DEF Sorted
    <3>1. People!Active' = People!Active /\ People!Eligible' = People!Eligible /\ \A who : Faces1(who)' = Faces1(who)
      BY <1>1, <2>2, SameEligible
    <3>2. /\ rebuild.gated = People!Active \ People!Eligible
          /\ \A h \in rebuild.groups :
               /\ Added(h.id) /\ clusters[h.id].who = h.who /\ People!Members(h.id) = {}
               /\ h.faces = Faces1(h.who) /\ h.faces # {} /\ clusters[h.id].count = Cardinality(h.faces)
          /\ \A x, y \in rebuild.groups : x.id = y.id => x = y
          /\ \A c \in People!ClusterIds : Added(c) =>
               \/ \E h \in rebuild.groups : h.id = c
               \/ Gathered(c) /\ People!Members(c) # {} /\ clusters[c].count = Cardinality(People!Members(c))
          /\ \A c, d \in People!ClusterIds : Added(c) /\ Added(d) /\ clusters[c].who = clusters[d].who => c = d
          /\ \A f \in People!Eligible : \E c \in People!ClusterIds : Added(c) /\ clusters[c].who = faces[f].who
      BY <1>1 DEF PeopleInv, Sorted
    <3>3. \A c : Added(c)' <=> Added(c)
      BY <1>1, <2>3 DEF Added, People!Exists
    <3>4. \A f \in g.faces : f \in People!FaceIds /\ faces[f] # People!NoFace /\ faces[f].who = g.who
      BY <3>2 DEF Faces1, People!Eligible, People!Active
    <3>5. People!Members(g.id)' = g.faces
      <4>1. ASSUME NEW f \in People!FaceIds PROVE f \in People!Members(g.id)' <=> f \in g.faces
        BY <2>2, <3>2, <3>4 DEF People!Members, People!In
      <4>2. QED
        BY <2>1, <4>1 DEF People!Members, People!In
    <3>6. ASSUME NEW c \in People!ClusterIds, c # g.id, \A f \in People!Members(c) : f \notin g.faces
          PROVE  People!Members(c)' = People!Members(c)
      <4>1. ASSUME NEW f \in People!FaceIds PROVE f \in People!Members(c)' <=> f \in People!Members(c)
        BY <2>2, <3>4, <3>6 DEF People!Members, People!In
      <4>2. QED
        BY <4>1 DEF People!Members, People!In
    <3>7. ASSUME NEW h \in rebuild'.groups
          PROVE  /\ Added(h.id)' /\ clusters'[h.id].who = h.who /\ People!Members(h.id)' = {}
                 /\ h.faces = Faces1(h.who)' /\ h.faces # {} /\ clusters'[h.id].count = Cardinality(h.faces)
      <4>1. h \in rebuild.groups /\ h.id # g.id /\ h.id \in People!ClusterIds
        BY <1>1, <1>3, <2>3, <3>2 DEF PeopleInv, RebuildTyped
      <4>2. People!Members(h.id)' = {}
        BY <3>2, <3>6, <4>1
      <4>3. QED
        BY <1>1, <3>1, <3>2, <3>3, <4>1, <4>2
    <3>8. ASSUME NEW c \in People!ClusterIds, Added(c)', ~ \E h \in rebuild'.groups : h.id = c
          PROVE  /\ Gathered(c)' /\ People!Members(c)' # {}
                 /\ clusters'[c].count = Cardinality(People!Members(c)')
      <4>1. Added(c) /\ clusters'[c] = clusters[c]
        BY <1>1, <3>3, <3>8
      <4>2. CASE c = g.id
        BY <1>1, <3>1, <3>2, <3>5, <4>1, <4>2 DEF Gathered
      <4>3. CASE c # g.id
        <5>1. /\ People!Members(c) = Faces1(clusters[c].who) /\ People!Members(c) # {}
              /\ clusters[c].count = Cardinality(People!Members(c))
          BY <2>3, <3>2, <3>8, <4>1, <4>3 DEF Gathered
        <5>2. clusters[c].who # g.who
          BY <2>1, <3>2, <4>1, <4>3
        <5>3. \A f \in People!Members(c) : f \notin g.faces
          BY <3>4, <5>1, <5>2 DEF Faces1
        <5>4. People!Members(c)' = People!Members(c)
          BY <3>6, <4>3, <5>3
        <5>5. QED
          BY <1>1, <3>1, <4>1, <5>1, <5>4 DEF Gathered
      <4>4. QED
        BY <4>2, <4>3
    <3>9. \A c, d \in People!ClusterIds : Added(c)' /\ Added(d)' /\ clusters'[c].who = clusters'[d].who => c = d
      BY <1>1, <3>2, <3>3
    <3>10. \A f \in People!Eligible' : \E c \in People!ClusterIds : Added(c)' /\ clusters'[c].who = faces'[f].who
      <4>1. \A f \in People!Eligible : f \in People!FaceIds
        BY DEF People!Eligible, People!Active
      <4>2. QED
        BY <1>1, <2>2, <3>1, <3>2, <3>3, <4>1
    <3>11. \A x, y \in rebuild'.groups : x.id = y.id => x = y
      BY <2>3, <3>2
    <3>12. rebuild'.gated = People!Active' \ People!Eligible'
      BY <2>3, <3>1, <3>2
    <3>13. QED
      BY <2>3, <3>7, <3>8, <3>9, <3>10, <3>11, <3>12 DEF Sorted
  <2>5. QED
    BY <1>1, <2>2, <2>3, <2>4, StageStep
<1>4. CASE rebuild' = People!NoRebuild /\ UNCHANGED faces
  <2>1. DetectorTyped'
    BY <1>1 DEF PeopleInv, DetectorTyped
  <2>2. QED
    BY <1>1, <1>4, <2>1, StopStep
<1>5. QED
  BY <1>2, <1>3, <1>4 DEF People!RebuildAssign

LEMMA RebuildNullStep ==
  ASSUME People!FacesConstants, PeopleInv, People!RebuildNull
  PROVE  PeopleInv'
<1>1. /\ rebuild.pc = "null" /\ People!HalfWay
      /\ UNCHANGED <<turns, photoStatus, clusters, index, faceRequest, detector, drifted>>
      /\ rebuild' = [rebuild EXCEPT !.pc = "drop"]
      /\ faces' = [f \in People!FaceIds |->
           IF f \in rebuild.gated /\ faces[f] # People!NoFace THEN [faces[f] EXCEPT !.cluster = 0] ELSE faces[f]]
  BY DEF People!RebuildNull, People!HalfWay
<1>2. rebuild.gated \in SUBSET People!FaceIds /\ 0 \in 0..MaxCluster
  BY DEF PeopleInv, RebuildTyped, People!FacesConstants
<1>3. /\ faces' \in [People!FaceIds -> People!Face \cup {People!NoFace}]
      /\ \A f \in People!FaceIds :
            /\ faces'[f] = People!NoFace <=> faces[f] = People!NoFace
            /\ faces'[f].photo = faces[f].photo /\ faces'[f].who = faces[f].who
            /\ f \in rebuild.gated /\ faces[f] # People!NoFace => faces'[f].cluster = 0
            /\ f \notin rebuild.gated => faces'[f] = faces[f]
      /\ \A f \in People!FaceIds : faces'[f] # People!NoFace /\ faces'[f].cluster # 0 => People!Exists(faces'[f].cluster)
  BY <1>1, <1>2, Reassigned DEF PeopleInv
<1>4. /\ rebuild'.pc = "drop" /\ rebuild'.groups = rebuild.groups /\ rebuild'.old = rebuild.old
      /\ rebuild'.gated = rebuild.gated /\ rebuild'.disturbed = rebuild.disturbed /\ RebuildTyped'
  BY <1>1 DEF PeopleInv, RebuildTyped, People!HalfWay
<1>5. Sorted'
  <2> SUFFICES ASSUME ~rebuild.disturbed PROVE Sorted'
    BY <1>4 DEF Sorted
  <2>1. People!Active' = People!Active /\ People!Eligible' = People!Eligible /\ \A who : Faces1(who)' = Faces1(who)
    BY <1>1, <1>3, SameEligible
  <2>2. /\ rebuild.gated = People!Active \ People!Eligible /\ rebuild.groups = {}
        /\ \A c \in People!ClusterIds : Added(c) =>
             Gathered(c) /\ People!Members(c) # {} /\ clusters[c].count = Cardinality(People!Members(c))
        /\ \A c, d \in People!ClusterIds : Added(c) /\ Added(d) /\ clusters[c].who = clusters[d].who => c = d
        /\ \A f \in People!Eligible : \E c \in People!ClusterIds : Added(c) /\ clusters[c].who = faces[f].who
    BY <1>1 DEF PeopleInv, Sorted
  <2>3. \A c : Added(c)' <=> Added(c)
    BY <1>1, <1>4 DEF Added, People!Exists
  <2>4. ASSUME NEW c \in People!ClusterIds, Added(c)
        PROVE  /\ Gathered(c)' /\ People!Members(c)' # {}
               /\ clusters'[c].count = Cardinality(People!Members(c)')
    <3>1. \A f \in People!Members(c) : f \notin rebuild.gated
      BY <2>2, <2>4 DEF Faces1, Gathered
    <3>2. ASSUME NEW f \in People!FaceIds PROVE f \in People!Members(c)' <=> f \in People!Members(c)
      <4>1. CASE f \in rebuild.gated
        <5>1. faces[f] # People!NoFace
          BY <2>2, <4>1 DEF People!Active
        <5>2. faces'[f].cluster = 0 /\ c # 0
          BY <1>3, <4>1, <5>1 DEF People!ClusterIds
        <5>3. QED
          BY <3>1, <4>1, <5>2 DEF People!Members, People!In
      <4>2. CASE f \notin rebuild.gated
        BY <1>3, <4>2 DEF People!Members, People!In
      <4>3. QED
        BY <4>1, <4>2
    <3>3. People!Members(c)' = People!Members(c)
      BY <3>2 DEF People!Members, People!In
    <3>4. QED
      BY <1>1, <2>1, <2>2, <2>4, <3>3 DEF Gathered
  <2>5. \A f \in rebuild'.gated : faces'[f].cluster = 0
    BY <1>2, <1>3, <1>4, <2>2 DEF People!Active
  <2>6. \A f \in People!Eligible' : \E c \in People!ClusterIds : Added(c)' /\ clusters'[c].who = faces'[f].who
    <3>1. \A f \in People!Eligible : f \in People!FaceIds
      BY DEF People!Eligible, People!Active
    <3>2. QED
      BY <1>1, <1>3, <2>1, <2>2, <2>3, <3>1
  <2>7. \A c, d \in People!ClusterIds : Added(c)' /\ Added(d)' /\ clusters'[c].who = clusters'[d].who => c = d
    BY <1>1, <2>2, <2>3
  <2>8. rebuild'.gated = People!Active' \ People!Eligible' /\ rebuild'.groups = {}
    BY <1>4, <2>1, <2>2
  <2>9. QED
    BY <2>3, <2>4, <2>5, <2>6, <2>7, <2>8 DEF Sorted
<1>6. QED
  BY <1>1, <1>3, <1>4, <1>5, StageStep

\* What the last step of a rebuild leaves: only faces of the old clusters change.
LEMMA Dropped ==
  ASSUME People!FacesConstants, PeopleInv, People!RebuildDrop
  PROVE  /\ rebuild.pc = "drop" /\ People!HalfWay /\ rebuild' = People!NoRebuild
         /\ UNCHANGED <<turns, photoStatus, index, faceRequest, detector>>
         /\ drifted' = IF rebuild.disturbed THEN drifted \ rebuild.old ELSE {}
         /\ clusters' \in [People!ClusterIds -> People!Cluster \cup {People!NoCluster}]
         /\ \A c \in People!ClusterIds : clusters'[c] # People!NoCluster =>
              Added(c) /\ clusters'[c] = clusters[c] /\ People!Members(c)' = People!Members(c)
         /\ faces' \in [People!FaceIds -> People!Face \cup {People!NoFace}]
         /\ \A f \in People!FaceIds : faces'[f] = IF faces[f].cluster \in rebuild.old
                                                    THEN [faces[f] EXCEPT !.cluster = 0] ELSE faces[f]
         /\ \A f \in People!FaceIds : faces[f].cluster \in rebuild.old => faces'[f].cluster = 0
         /\ \A f \in People!FaceIds : faces'[f] # People!NoFace /\ faces'[f].cluster # 0 =>
              clusters'[faces'[f].cluster] # People!NoCluster
<1>1. /\ rebuild.pc = "drop" /\ People!HalfWay /\ rebuild' = People!NoRebuild
      /\ UNCHANGED <<turns, photoStatus, index, faceRequest, detector>>
      /\ drifted' = IF rebuild.disturbed THEN drifted \ rebuild.old ELSE {}
      /\ clusters' = [c \in People!ClusterIds |-> IF c \in rebuild.old THEN People!NoCluster ELSE clusters[c]]
      /\ faces' = [f \in People!FaceIds |->
           IF faces[f].cluster \in rebuild.old THEN [faces[f] EXCEPT !.cluster = 0] ELSE faces[f]]
  BY DEF People!RebuildDrop, People!HalfWay
<1>2. rebuild.old \in SUBSET People!ClusterIds /\ 0 \in 0..MaxCluster /\ 0 \notin People!ClusterIds
  BY DEF PeopleInv, RebuildTyped, People!FacesConstants, People!ClusterIds
<1>3. clusters' \in [People!ClusterIds -> People!Cluster \cup {People!NoCluster}]
  BY <1>1 DEF PeopleInv, People!TypeOK
<1>4. ASSUME NEW f \in People!FaceIds
      PROVE  /\ faces'[f] \in People!Face \cup {People!NoFace}
             /\ faces[f].cluster \in rebuild.old => faces'[f].cluster = 0
             /\ faces[f].cluster \notin rebuild.old => faces'[f] = faces[f]
  <2>1. CASE faces[f].cluster \in rebuild.old
    <3>1. faces[f] \in People!Face
      BY <1>2, <2>1, Kinds, FaceFields DEF PeopleInv
    <3>2. faces'[f] = [faces[f] EXCEPT !.cluster = 0]
      BY <1>1, <2>1
    <3>3. QED
      BY <1>2, <2>1, <3>1, <3>2 DEF People!Face
  <2>2. CASE faces[f].cluster \notin rebuild.old
    BY <1>1, <2>2 DEF PeopleInv, People!TypeOK
  <2>3. QED
    BY <2>1, <2>2
<1>5. faces' \in [People!FaceIds -> People!Face \cup {People!NoFace}]
  BY <1>1, <1>4
<1>6. ASSUME NEW c \in People!ClusterIds, clusters'[c] # People!NoCluster
      PROVE  Added(c) /\ clusters'[c] = clusters[c] /\ People!Members(c)' = People!Members(c)
  <2>1. c \notin rebuild.old /\ clusters'[c] = clusters[c] /\ c # 0
    BY <1>1, <1>2, <1>6
  <2>2. ASSUME NEW f \in People!FaceIds PROVE f \in People!Members(c)' <=> f \in People!Members(c)
    <3>1. CASE faces[f].cluster \in rebuild.old
      BY <1>4, <2>1, <3>1 DEF People!Members, People!In
    <3>2. CASE faces[f].cluster \notin rebuild.old
      BY <1>4, <3>2 DEF People!Members, People!In
    <3>3. QED
      BY <3>1, <3>2
  <2>3. People!Members(c)' = People!Members(c)
    BY <2>2 DEF People!Members, People!In
  <2>4. QED
    BY <1>6, <2>1, <2>3 DEF Added, People!Exists
<1>7. ASSUME NEW f \in People!FaceIds, faces'[f] # People!NoFace, faces'[f].cluster # 0
      PROVE  clusters'[faces'[f].cluster] # People!NoCluster
  <2>1. faces[f].cluster \notin rebuild.old /\ faces'[f] = faces[f]
    BY <1>4, <1>7
  <2>2. faces[f].cluster \in People!ClusterIds /\ People!Exists(faces[f].cluster)
    BY <1>7, <2>1, FaceFields DEF PeopleInv
  <2>3. QED
    BY <1>1, <2>1, <2>2 DEF People!Exists
<1>8. \A f \in People!FaceIds : faces'[f] = IF faces[f].cluster \in rebuild.old
                                                    THEN [faces[f] EXCEPT !.cluster = 0] ELSE faces[f]
  BY <1>1
<1>9. QED
  BY <1>1, <1>3, <1>4, <1>5, <1>6, <1>7, <1>8

LEMMA RebuildDropStep ==
  ASSUME People!FacesConstants, PeopleInv, People!RebuildDrop
  PROVE  PeopleInv'
<1>1. /\ rebuild.pc = "drop" /\ People!HalfWay /\ rebuild' = People!NoRebuild
      /\ UNCHANGED <<turns, photoStatus, index, faceRequest, detector>>
      /\ drifted' = IF rebuild.disturbed THEN drifted \ rebuild.old ELSE {}
      /\ clusters' \in [People!ClusterIds -> People!Cluster \cup {People!NoCluster}]
      /\ \A c \in People!ClusterIds : clusters'[c] # People!NoCluster =>
           Added(c) /\ clusters'[c] = clusters[c] /\ People!Members(c)' = People!Members(c)
      /\ faces' \in [People!FaceIds -> People!Face \cup {People!NoFace}]
      /\ \A f \in People!FaceIds : faces'[f] # People!NoFace /\ faces'[f].cluster # 0 =>
              clusters'[faces'[f].cluster] # People!NoCluster
  BY Dropped
<1>2. People!TypeOK'
  <2>1. drifted' \subseteq People!ClusterIds
    BY <1>1 DEF PeopleInv, People!TypeOK
  <2>2. /\ photoStatus' \in [Photos -> {"active", "trashed", "purged"}] /\ index' \in [Photos -> SUBSET FaceLabels]
        /\ rebuild'.pc = "idle"
    BY <1>1 DEF PeopleInv, People!TypeOK, People!NoRebuild
  <2>3. QED
    BY <1>1, <2>1, <2>2 DEF People!TypeOK, People!Exists
<1>3. RequestTyped' /\ DetectorTyped'
  BY <1>1 DEF PeopleInv, RequestTyped, DetectorTyped
<1>4. RebuildTyped' /\ HalfDrifted' /\ Planned' /\ Sorted'
  BY <1>1 DEF RebuildTyped, HalfDrifted, Planned, Sorted, People!HalfWay, People!NoRebuild
<1>5. ASSUME NEW c \in People!ClusterIds, c \notin drifted', clusters'[c] # People!NoCluster
      PROVE  clusters'[c].count = Cardinality(People!Members(c)')
  <2>1. Added(c) /\ clusters'[c] = clusters[c] /\ People!Members(c)' = People!Members(c)
    BY <1>1, <1>5
  <2>2. c \in drifted /\ c \notin rebuild.old
    BY <1>1, <2>1 DEF PeopleInv, HalfDrifted, Added
  <2>3. ~rebuild.disturbed
    BY <1>1, <1>5, <2>2
  <2>4. clusters[c].count = Cardinality(People!Members(c))
    BY <1>1, <2>1, <2>3 DEF PeopleInv, Sorted
  <2>5. QED
    BY <2>1, <2>4
<1>6. People!FacesCounted'
  BY <1>5, SameCounts DEF People!FacesCounted, People!Exists
<1>7. QED
  BY <1>2, <1>3, <1>4, <1>6 DEF PeopleInv

-------------------------------------------------------------------------------
LEMMA CrashStep ==
  ASSUME PeopleInv, People!Crash
  PROVE  PeopleInv'
<1>1. rebuild' = People!NoRebuild /\ UNCHANGED <<photoStatus, faces, clusters, index, faceRequest, drifted>>
  BY DEF People!Crash
<1>2. DetectorTyped'
  BY DEF People!Crash, DetectorTyped
<1>3. QED
  BY <1>1, <1>2, StopStep

LEMMA TrashStep ==
  ASSUME PeopleInv, NEW p \in Photos, People!Trash(p)
  PROVE  PeopleInv'
<1>1. /\ UNCHANGED <<faces, clusters, index, faceRequest, detector, drifted>> /\ People!Disturb
      /\ photoStatus' = [photoStatus EXCEPT ![p] = IF @ = "active" THEN "trashed" ELSE "active"]
  BY DEF People!Trash
<1>2. RebuildTyped' /\ Planned' /\ Sorted' /\ (People!HalfWay' <=> People!HalfWay)
  BY <1>1, DisturbKeeps DEF PeopleInv
<1>3. photoStatus' \in [Photos -> {"active", "trashed", "purged"}]
  BY <1>1 DEF PeopleInv, People!TypeOK
<1>4. People!TypeOK'
  BY <1>1, <1>2, <1>3 DEF PeopleInv, People!TypeOK, RebuildTyped, People!Exists
<1>5. RequestTyped' /\ DetectorTyped' /\ People!FacesCounted'
  BY <1>1 DEF PeopleInv, RequestTyped, DetectorTyped, People!FacesCounted, People!Exists, People!Members
<1>6. HalfDrifted'
  BY <1>1, <1>2 DEF PeopleInv, HalfDrifted, People!Exists
<1>7. QED
  BY <1>2, <1>4, <1>5, <1>6 DEF PeopleInv

LEMMA PurgeStep ==
  ASSUME PeopleInv, NEW p \in Photos, People!Purge(p)
  PROVE  PeopleInv'
<1>1. /\ UNCHANGED <<turns, clusters, faceRequest, detector>> /\ People!Disturb
      /\ photoStatus' = [photoStatus EXCEPT ![p] = "purged"] /\ index' = [index EXCEPT ![p] = {}]
      /\ faces' = [f \in People!FaceIds |-> IF faces[f].photo = p THEN People!NoFace ELSE faces[f]]
      /\ drifted' = drifted \cup {c \in People!ClusterIds : People!In(faces', c) # People!Members(c)}
  BY DEF People!Purge
<1>2. RebuildTyped' /\ Planned' /\ Sorted' /\ (People!HalfWay' <=> People!HalfWay)
  BY <1>1, DisturbKeeps DEF PeopleInv
<1>3. People!TypeOK'
  <2>1. photoStatus' \in [Photos -> {"active", "trashed", "purged"}] /\ index' \in [Photos -> SUBSET FaceLabels]
    BY <1>1 DEF PeopleInv, People!TypeOK
  <2>2. faces' \in [People!FaceIds -> People!Face \cup {People!NoFace}] /\ drifted' \subseteq People!ClusterIds
    BY <1>1 DEF PeopleInv, People!TypeOK
  <2>3. \A f \in People!FaceIds : faces'[f] # People!NoFace /\ faces'[f].cluster # 0 => clusters'[faces'[f].cluster] # People!NoCluster
    BY <1>1, FaceFields DEF PeopleInv, People!Exists
  <2>4. clusters' \in [People!ClusterIds -> People!Cluster \cup {People!NoCluster}]
    BY <1>1 DEF PeopleInv, People!TypeOK
  <2>5. QED
    BY <1>2, <2>1, <2>2, <2>3, <2>4 DEF People!TypeOK, RebuildTyped, People!Exists
<1>4. RequestTyped' /\ DetectorTyped'
  BY <1>1 DEF PeopleInv, RequestTyped, DetectorTyped
<1>5. ASSUME NEW c \in People!ClusterIds, c \notin drifted', People!Exists(c)'
      PROVE  clusters'[c].count = Cardinality(People!Members(c)')
  <2>1. c \notin drifted /\ People!Members(c)' = People!Members(c) /\ People!Exists(c) /\ clusters'[c] = clusters[c]
    BY <1>1, <1>5 DEF People!Members, People!Exists
  <2>2. QED
    BY <2>1, SameCounts DEF PeopleInv, People!FacesCounted
<1>6. People!FacesCounted'
  BY <1>5, SameCounts DEF People!FacesCounted
<1>7. HalfDrifted'
  BY <1>1, <1>2 DEF PeopleInv, HalfDrifted, People!Exists
<1>8. QED
  BY <1>2, <1>3, <1>4, <1>6, <1>7 DEF PeopleInv

LEMMA PeopleStart ==
  ASSUME People!FacesConstants, People!Init
  PROVE  PeopleInv
<1>1. /\ photoStatus = [p \in Photos |-> "active"] /\ faces = FirstFaces /\ clusters = FirstClusters
      /\ index = [p \in Photos |-> {}] /\ faceRequest = People!NoRequest /\ detector = People!NoDetection
      /\ rebuild = People!NoRebuild /\ drifted = {}
  BY DEF People!Init
<1>2. People!TypeOK
  <2>1. \A f \in People!FaceIds : faces[f] # People!NoFace /\ faces[f].cluster # 0 => People!Exists(faces[f].cluster)
    BY <1>1 DEF People!FacesConstants, People!Exists
  <2>2. rebuild.pc = "idle"
    BY <1>1 DEF People!NoRebuild
  <2>3. QED
    BY <1>1, <2>1, <2>2 DEF People!TypeOK, People!FacesConstants
<1>3. RequestTyped /\ DetectorTyped
  BY <1>1 DEF RequestTyped, DetectorTyped, People!NoRequest, People!None
<1>4. RebuildTyped /\ HalfDrifted /\ Planned /\ Sorted
  BY <1>1 DEF RebuildTyped, HalfDrifted, Planned, Sorted, People!HalfWay, People!NoRebuild
<1>5. People!FacesCounted
  BY <1>1 DEF People!FacesCounted, People!FacesConstants, People!Exists, People!Members
<1>6. QED
  BY <1>2, <1>3, <1>4, <1>5 DEF PeopleInv

LEMMA PeopleStep ==
  ASSUME People!FacesConstants, PeopleInv, [People!Next]_(People!vars)
  PROVE  PeopleInv'
<1>1. CASE UNCHANGED People!vars
  BY <1>1, QuietPeople DEF People!vars, PeopleInv, RequestTyped, DetectorTyped, People!TypeOK
<1>2. CASE People!Correct
  BY <1>2, AskStep, RenameCommitStep, AbsorbCommitStep, MergeCommitStep, ClusterDeleteStep,
     AddCommitStep, MoveCommitStep, EraseCommitStep DEF People!Correct
<1>3. CASE People!Detect
  BY <1>3, DetectBeginStep, DetectCommitStep DEF People!Detect
<1>4. CASE People!Rebuild
  BY <1>4, RebuildPlanStep, RebuildCreateStep, RebuildAssignStep, RebuildNullStep, RebuildDropStep
  DEF People!Rebuild
<1>5. CASE People!Crash
  BY <1>5, CrashStep
<1>6. CASE \E p \in Photos : People!Trash(p) \/ People!Purge(p)
  BY <1>6, TrashStep, PurgeStep
<1>7. QED
  BY <1>1, <1>2, <1>3, <1>4, <1>5, <1>6 DEF People!Next

-------------------------------------------------------------------------------
\* The inductive invariant of people and faces.
THEOREM PeopleKeep ==
  ASSUME People!FacesConstants
  PROVE  People!Spec => []PeopleInv
<1>1. People!Init => PeopleInv
  BY PeopleStart
<1>2. PeopleInv /\ [People!Next]_(People!vars) => PeopleInv'
  BY PeopleStep
<1>3. QED
  BY <1>1, <1>2, PTL DEF People!Spec

\* The count of a cluster is that of its faces, wherever no stale read, purge or half-done
\* rebuild has touched it.
THEOREM CountsRight ==
  ASSUME People!FacesConstants
  PROVE  People!Spec => []People!FacesCounted
<1>1. PeopleInv => People!FacesCounted
  BY DEF PeopleInv
<1>2. QED
  BY <1>1, PeopleKeep, PTL

\* Only the last step of a rebuild ends one and changes the tables.
LEMMA LastStage ==
  ASSUME PeopleInv, [People!Next]_(People!vars), rebuild.pc = "drop", rebuild'.pc = "idle",
         <<faces, clusters>>' # <<faces, clusters>>
  PROVE  People!RebuildDrop
<1>1. ~People!Disturb
  BY DEF People!Disturb, PeopleInv, RebuildTyped
<1>2. rebuild' # rebuild
  OBVIOUS
<1>3. ~People!Fail /\ ~People!Written
  BY <1>1, <1>2 DEF People!Fail, People!Written
<1>4. ~People!Ask
  BY <1>2 DEF People!Ask, People!Asked, People!RenameBegin, People!MergeBegin, People!DeleteBegin,
     People!AddBegin, People!MoveBegin, People!EraseBegin
<1>5. ~People!Correct
  BY <1>3, <1>4 DEF People!Correct, People!RenameCommit, People!AbsorbCommit, People!MergeCommit,
     People!DeleteCommit, People!AddCommit,
     People!MoveCommit, People!EraseCommit
<1>6. ~People!Detect
  <2>1. ~ \E p \in Photos : People!DetectBegin(p)
    BY <1>2 DEF People!DetectBegin
  <2>2. ~People!DetectCommit
    BY <1>1, <1>2 DEF People!DetectCommit
  <2>3. QED
    BY <2>1, <2>2 DEF People!Detect
<1>7. ~People!Crash /\ \A p \in Photos : ~People!Trash(p) /\ ~People!Purge(p)
  BY <1>1 DEF People!Crash, People!Trash, People!Purge
<1>8. ~(UNCHANGED People!vars)
  BY <1>2 DEF People!vars
<1>9. ~People!RebuildPlan /\ ~People!RebuildCreate /\ ~People!RebuildAssign /\ ~People!RebuildNull
  BY DEF People!RebuildPlan, People!RebuildCreate, People!RebuildAssign, People!RebuildNull
<1>10. QED
  BY <1>5, <1>6, <1>7, <1>8, <1>9 DEF People!Next, People!Rebuild

\* A rebuild nobody disturbed leaves each person's faces together and alone, narrow ones
\* in no cluster, and no cluster empty.
THEOREM RebuildSorts ==
  ASSUME People!FacesConstants
  PROVE  People!Spec => People!RebuildRepairs
<1>1. ASSUME PeopleInv, [People!Next]_(People!vars), rebuild.pc = "drop", rebuild'.pc = "idle", ~rebuild.disturbed,
             <<faces, clusters>>' # <<faces, clusters>>
      PROVE  /\ \A f \in People!Active : faces'[f].cluster # 0 <=> f \in People!Eligible
             /\ \A f, g \in People!Eligible :
                  faces'[f].cluster = faces'[g].cluster <=> faces[f].who = faces[g].who
             /\ \A c \in People!ClusterIds : clusters'[c] # People!NoCluster => People!In(faces', c) # {}
  <2>1. People!RebuildDrop
    BY <1>1, LastStage
  <2>2. /\ People!HalfWay
        /\ \A c \in People!ClusterIds : clusters'[c] # People!NoCluster =>
             Added(c) /\ clusters'[c] = clusters[c] /\ People!Members(c)' = People!Members(c)
        /\ \A f \in People!FaceIds : faces'[f] = IF faces[f].cluster \in rebuild.old
                                                    THEN [faces[f] EXCEPT !.cluster = 0] ELSE faces[f]
    BY <1>1, <2>1, Dropped
  <2>3. /\ rebuild.gated = People!Active \ People!Eligible
        /\ \A f \in rebuild.gated : faces[f].cluster = 0
        /\ \A c \in People!ClusterIds : Added(c) => Gathered(c) /\ People!Members(c) # {}
        /\ \A c, d \in People!ClusterIds : Added(c) /\ Added(d) /\ clusters[c].who = clusters[d].who => c = d
        /\ \A f \in People!Eligible : \E c \in People!ClusterIds : Added(c) /\ clusters[c].who = faces[f].who
    BY <1>1, <2>2 DEF PeopleInv, Sorted
  <2>4. 0 \notin People!ClusterIds /\ 0 \notin rebuild.old
    BY <1>1 DEF PeopleInv, RebuildTyped, People!ClusterIds
  <2>5. ASSUME NEW f \in People!Eligible
        PROVE  /\ faces'[f].cluster \in People!ClusterIds /\ Added(faces'[f].cluster)
               /\ clusters[faces'[f].cluster].who = faces[f].who
    <3>1. PICK c \in People!ClusterIds : Added(c) /\ clusters[c].who = faces[f].who
      BY <2>3
    <3>2. f \in People!Members(c)
      BY <2>3, <3>1 DEF Gathered, Faces1
    <3>3. f \in People!FaceIds /\ faces[f].cluster = c /\ c \notin rebuild.old
      BY <3>1, <3>2 DEF People!Members, People!In, Added
    <3>4. faces'[f] = faces[f]
      BY <2>2, <3>3
    <3>5. QED
      BY <3>1, <3>3, <3>4
  <2>6. ASSUME NEW f \in People!Active PROVE faces'[f].cluster # 0 <=> f \in People!Eligible
    <3>1. CASE f \in People!Eligible
      BY <2>4, <2>5, <3>1
    <3>2. CASE f \notin People!Eligible
      BY <2>2, <2>3, <2>4, <2>6, <3>2 DEF People!Active
    <3>3. QED
      BY <3>1, <3>2
  <2>7. \A f, g \in People!Eligible : faces'[f].cluster = faces'[g].cluster <=> faces[f].who = faces[g].who
    BY <2>3, <2>5
  <2>8. \A c \in People!ClusterIds : clusters'[c] # People!NoCluster => People!In(faces', c) # {}
    BY <2>2, <2>3 DEF People!Members
  <2>9. QED
    BY <2>6, <2>7, <2>8
<1>2. PeopleInv /\ [People!Next]_(People!vars) =>
        [rebuild.pc = "drop" /\ rebuild'.pc = "idle" /\ ~rebuild.disturbed
     /\ <<faces, clusters>>' # <<faces, clusters>> =>
       /\ \A f \in People!Active : faces'[f].cluster # 0 <=> f \in People!Eligible
       /\ \A f, g \in People!Eligible :
            faces'[f].cluster = faces'[g].cluster <=> faces[f].who = faces[g].who
       /\ \A c \in People!ClusterIds : clusters'[c] # People!NoCluster => People!In(faces', c) # {}]_(People!vars)
  BY <1>1, Zenon
<1>3. People!Spec => []PeopleInv /\ [][People!Next]_(People!vars)
  BY PeopleKeep, PTL DEF People!Spec
<1>4. QED
  BY <1>2, <1>3, PTL DEF People!RebuildRepairs

-------------------------------------------------------------------------------
(***************************************************************************)
(* The library as a whole.  It behaves as each of its parts, which no step *)
(* of another part disturbs, and so keeps what each of them keeps.         *)
(***************************************************************************)
\* A step of the library is a step of each part, or leaves that part alone.
LEMMA PartsStep ==
  ASSUME [LibraryNext]_libraryVars
  PROVE  /\ [Next]_vars
         /\ [Tree!Next]_(Tree!vars)
         /\ [Cleanup!Next]_(Cleanup!vars)
         /\ [People!Next]_(People!vars)
<1> USE DEF treeVars, cleanupVars, peopleVars, Tree!vars, Cleanup!vars, People!vars
<1>1. CASE Next /\ UNCHANGED <<treeVars, cleanupVars, peopleVars>>
  BY <1>1
<1>2. CASE Tree!Next /\ UNCHANGED <<vars, cleanupVars, peopleVars>>
  BY <1>2
<1>3. CASE Cleanup!Next /\ UNCHANGED <<vars, treeVars, peopleVars>>
  BY <1>3
<1>4. CASE People!Next /\ UNCHANGED <<vars, treeVars, cleanupVars>>
  BY <1>4
<1>5. CASE UNCHANGED libraryVars
  BY <1>5 DEF libraryVars
<1>6. QED
  BY <1>1, <1>2, <1>3, <1>4, <1>5 DEF LibraryNext

\* The library implements each of its parts.
THEOREM PartsHold ==
  LibrarySpec => Spec /\ Tree!Spec /\ Cleanup!Spec /\ People!Spec
<1>1. LibraryInit => Init /\ Tree!Init /\ Cleanup!Init /\ People!Init
  BY DEF LibraryInit
<1>2. [LibraryNext]_libraryVars =>
        /\ [Next]_vars
        /\ [Tree!Next]_(Tree!vars)
        /\ [Cleanup!Next]_(Cleanup!vars)
        /\ [People!Next]_(People!vars)
  BY PartsStep
<1>3. QED
  BY <1>1, <1>2, PTL DEF LibrarySpec, Spec, Tree!Spec, Cleanup!Spec, People!Spec

\* Documents, folders, copies and people keep their types.
THEOREM LibraryTypes == LibrarySpec => []TypesOK
<1>1. TreeInv => Tree!TypeOK
  BY DEF TreeInv
<1>2. PeopleInv => People!TypeOK
  BY DEF PeopleInv
<1>3. QED
  BY <1>1, <1>2, PartsHold, DocumentTypes, TreeStays, DedupTypes, PeopleKeep, LibraryAssumption,
     PTL DEF TypesOK

\* However deletes of folders run beside uploads, renames and scans, a picture they have
\* loaded is on disk or in the trash.
THEOREM PicturesStay == LibrarySpec => []PicturesSurvive
  BY PartsHold, FolderDeletes, LibraryAssumption, PTL DEF PicturesSurvive

\* A scan gives a photo to who uploaded it, or to the user its folder is named after where
\* no note says who did, unless a note strayed there.
THEOREM OwnersAreUploaders == LibrarySpec => OwnersUploaded
  BY PartsHold, NewOwners, LibraryAssumption, PTL DEF OwnersUploaded

\* Clean-ups leave a copy of each picture in its place.
THEOREM CopiesRemain == LibrarySpec => []CopyStays
  BY PartsHold, CopiesStay, LibraryAssumption, PTL DEF CopyStays

\* A clean-up that was left alone ends when its first page holds nothing to move.
THEOREM CleanupsFinish == LibrarySpec => CleanupCleans
  BY PartsHold, CleanupsClean, LibraryAssumption, PTL DEF CleanupCleans

\* The stored count of a cluster is the number of its faces, wherever nothing made it drift.
THEOREM CountsStay == LibrarySpec => []FacesCounted
  BY PartsHold, CountsRight, LibraryAssumption, PTL DEF FacesCounted

\* A rebuild that was left alone sorts the faces by person.
THEOREM RebuildsSort == LibrarySpec => RebuildRepairs
  BY PartsHold, RebuildSorts, LibraryAssumption, PTL DEF RebuildRepairs
================================================================================
