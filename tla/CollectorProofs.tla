-------------------------- MODULE CollectorProofs --------------------------
(***************************************************************************)
(* Theorems about Collector, for every set of digests and of references    *)
(* and every graph: what removal and collection never take, that a         *)
(* collection leaves what was promised and nothing else, and that the      *)
(* layout's collector is only given what it can work on.                   *)
(*                                                                         *)
(* What Collector computes from the layout is restated with the layout as  *)
(* arguments, m for made, B for blobs, T for the tagged nodes and E for    *)
(* index entries, so that one layout can be compared with the next.        *)
(***************************************************************************)
EXTENDS Collector, TLAPS

SubjectOf(m, B, n)   == IF n \in B THEN m[n].subject ELSE None
DescribesOf(m, B, n) == n \in B /\ m[n].describes
ChildrenOf(m, n) == (IF m[n].kind = "index" THEN m[n].parts ELSE {})
                      \cup ({m[n].subject} \ {None})
OpaqueOf(m, n) == IF m[n].kind = "image" THEN m[n].parts ELSE {}

ClosedOf(m, B, W) == \A n \in W : ChildrenOf(m, n) \cap B \subseteq W

WalkOf(m, B, S) ==
  {n \in B : \A W \in SUBSET B : S \cap B \subseteq W /\ ClosedOf(m, B, W)
                                   => n \in W}

ReachOf(m, B, S) ==
  WalkOf(m, B, S) \cup UNION {OpaqueOf(m, n) : n \in WalkOf(m, B, S)}

AnchorsOf(m, B, T, E) == {n \in E \cap T : ~DescribesOf(m, B, n)}

StaysForOf(m, B, T, n, R) ==
  \/ SubjectOf(m, B, n) \in R
  \/ n \in T /\ (n \in R \/ SubjectOf(m, B, n) \notin B)

AdmitsOf(m, B, T, E, A) ==
  {n \in E : /\ SubjectOf(m, B, n) # None
             /\ StaysForOf(m, B, T, n,
                           ReachOf(m, B, AnchorsOf(m, B, T, E) \cup A))}

AdmittedOf(m, B, T, E) ==
  {n \in E : \A A \in SUBSET E : AdmitsOf(m, B, T, E, A) \subseteq A => n \in A}

AttachedOf(m, B, T, E, R) ==
  {n \in E \ T : SubjectOf(m, B, n) # None /\ SubjectOf(m, B, n) \in R}

WithReferrersOf(m, B, T, E, R) ==
  R \cup ReachOf(m, B, AttachedOf(m, B, T, E, R))

KeptOf(m, B, T, E) ==
  WithReferrersOf(m, B, T, E,
    ReachOf(m, B, AnchorsOf(m, B, T, E) \cup (AdmittedOf(m, B, T, E) \cap T)))

LiveOf(m, B, T, E) == WithReferrersOf(m, B, T, E, ReachOf(m, B, T))

ContentOf(m, B, T, E) == ReachOf(m, B, AnchorsOf(m, B, T, E))

\* All that admission has to stand on.
GroundOf(m, B, T, E) ==
  ReachOf(m, B, AnchorsOf(m, B, T, E) \cup AdmittedOf(m, B, T, E))

-----------------------------------------------------------------------------
(* Walks.                                                                  *)

\* A walk is closed, contains its roots, and reaches nothing absent.
LEMMA WalkClosed ==
  ASSUME NEW m, NEW B, NEW S
  PROVE  /\ WalkOf(m, B, S) \subseteq B
         /\ S \cap B \subseteq WalkOf(m, B, S)
         /\ ClosedOf(m, B, WalkOf(m, B, S))
<1>1. WalkOf(m, B, S) \subseteq B /\ S \cap B \subseteq WalkOf(m, B, S)
  BY DEF WalkOf
<1>2. ASSUME NEW n \in WalkOf(m, B, S), NEW c \in ChildrenOf(m, n) \cap B
      PROVE  c \in WalkOf(m, B, S)
  <2>1. ASSUME NEW W \in SUBSET B, S \cap B \subseteq W, ClosedOf(m, B, W)
        PROVE  c \in W
    <3>1. n \in W BY <1>2, <2>1 DEF WalkOf
    <3> QED BY <1>2, <2>1, <3>1 DEF ClosedOf
  <2> QED BY <1>2, <2>1 DEF WalkOf
<1> QED BY <1>1, <1>2 DEF ClosedOf

\* Fewer blobs and fewer roots make a shorter walk.
LEMMA WalkShrinks ==
  ASSUME NEW m, NEW B, NEW C, C \subseteq B,
         NEW S, NEW T, S \cap C \subseteq T
  PROVE  WalkOf(m, C, S) \subseteq WalkOf(m, B, T)
<1> SUFFICES ASSUME NEW n \in WalkOf(m, C, S),
                    NEW W \in SUBSET B, T \cap B \subseteq W, ClosedOf(m, B, W)
             PROVE  n \in W
  BY DEF WalkOf
<1>1. W \cap C \in SUBSET C /\ S \cap C \subseteq W \cap C OBVIOUS
<1>2. ClosedOf(m, C, W \cap C) BY DEF ClosedOf
<1> QED BY <1>1, <1>2 DEF WalkOf

\* A walk that meets nothing taken is still made, from as many roots.
LEMMA WalkStays ==
  ASSUME NEW m, NEW B, NEW C, C \subseteq B,
         NEW S, NEW T, T \cap B \subseteq S, WalkOf(m, B, T) \subseteq C
  PROVE  WalkOf(m, B, T) \subseteq WalkOf(m, C, S)
<1> DEFINE V == WalkOf(m, B, T)
<1>0. V \subseteq B /\ T \cap B \subseteq V /\ ClosedOf(m, B, V)
  BY WalkClosed
<1> SUFFICES ASSUME NEW n \in V,
                    NEW W \in SUBSET C, S \cap C \subseteq W, ClosedOf(m, C, W)
             PROVE  n \in W
  BY DEF WalkOf
<1>1. W \cap V \in SUBSET B /\ T \cap B \subseteq W \cap V BY <1>0
<1>2. ClosedOf(m, B, W \cap V) BY <1>0 DEF ClosedOf
<1>3. n \in W \cap V BY <1>1, <1>2 DEF WalkOf
<1> QED BY <1>3

\* Fewer blobs and fewer roots reach less.
LEMMA ReachShrinks ==
  ASSUME NEW m, NEW B, NEW C, C \subseteq B,
         NEW S, NEW T, S \cap C \subseteq T
  PROVE  ReachOf(m, C, S) \subseteq ReachOf(m, B, T)
BY WalkShrinks DEF ReachOf

\* Taking what is not reached leaves everything within reach.
LEMMA ReachStays ==
  ASSUME NEW m, NEW B, NEW C, C \subseteq B,
         NEW S, NEW T, T \cap B \subseteq S, ReachOf(m, B, T) \cap B \subseteq C
  PROVE  ReachOf(m, B, T) \subseteq ReachOf(m, C, S)
<1>1. WalkOf(m, B, T) \subseteq C BY WalkClosed DEF ReachOf
<1>2. WalkOf(m, B, T) \subseteq WalkOf(m, C, S) BY <1>1, WalkStays
<1> QED BY <1>2 DEF ReachOf

\* What is present is reached from itself.
LEMMA ReachRoots ==
  ASSUME NEW m, NEW B, NEW S
  PROVE  S \cap B \subseteq ReachOf(m, B, S)
BY WalkClosed DEF ReachOf

-----------------------------------------------------------------------------
(* Admission.                                                              *)

\* The more is admitted, the more can be.
LEMMA AdmitsGrows ==
  ASSUME NEW m, NEW B, NEW T, NEW E, NEW X, NEW Y, X \subseteq Y
  PROVE  AdmitsOf(m, B, T, E, X) \subseteq AdmitsOf(m, B, T, E, Y)
<1> DEFINE R(A) == ReachOf(m, B, AnchorsOf(m, B, T, E) \cup A)
<1>1. R(X) \subseteq R(Y)
  BY ReachShrinks
<1> QED BY <1>1 DEF AdmitsOf, StaysForOf

\* Nothing more can be admitted.
LEMMA AdmittedIsClosed ==
  ASSUME NEW m, NEW B, NEW T, NEW E
  PROVE  AdmitsOf(m, B, T, E, AdmittedOf(m, B, T, E))
           \subseteq AdmittedOf(m, B, T, E)
<1> DEFINE A == AdmittedOf(m, B, T, E)
<1> SUFFICES ASSUME NEW n \in AdmitsOf(m, B, T, E, A),
                    NEW X \in SUBSET E, AdmitsOf(m, B, T, E, X) \subseteq X
             PROVE  n \in X
  BY DEF AdmittedOf, AdmitsOf
<1>1. A \subseteq X BY DEF AdmittedOf
<1> QED BY <1>1, AdmitsGrows

\* A referrer is admitted for a reason the ground gives.
LEMMA GroundAdmits ==
  ASSUME NEW m, NEW B, NEW T, NEW E, NEW n \in E,
         SubjectOf(m, B, n) # None,
         StaysForOf(m, B, T, n, GroundOf(m, B, T, E))
  PROVE  n \in AdmittedOf(m, B, T, E)
<1>1. n \in AdmitsOf(m, B, T, E, AdmittedOf(m, B, T, E))
  BY DEF AdmitsOf, GroundOf
<1> QED BY <1>1, AdmittedIsClosed

\* Whatever is kept stands on the ground.
LEMMA KeptInGround ==
  ASSUME NEW m, NEW B, NEW T, NEW E
  PROVE  KeptOf(m, B, T, E) \subseteq GroundOf(m, B, T, E)
<1> DEFINE A == AdmittedOf(m, B, T, E)
           P == AnchorsOf(m, B, T, E)
           R == ReachOf(m, B, P \cup (A \cap T))
           Q == AttachedOf(m, B, T, E, R)
<1>1. R \subseteq GroundOf(m, B, T, E)
  BY ReachShrinks DEF GroundOf
<1>2. Q \subseteq A
  BY <1>1, GroundAdmits DEF AttachedOf, StaysForOf
<1>3. ReachOf(m, B, Q) \subseteq GroundOf(m, B, T, E)
  <2>1. Q \cap B \subseteq P \cup A /\ B \subseteq B BY <1>2
  <2> HIDE DEF Q
  <2> QED BY <2>1, ReachShrinks DEF GroundOf
<1> QED BY <1>1, <1>3 DEF KeptOf, WithReferrersOf

\* A tagged description that is not admitted is not on the ground.
LEMMA OrphansOffGround ==
  ASSUME NEW m, NEW B, NEW T, NEW E, NEW n \in T \cap E,
         SubjectOf(m, B, n) # None, n \notin AdmittedOf(m, B, T, E)
  PROVE  n \notin GroundOf(m, B, T, E)
BY GroundAdmits DEF StaysForOf

\* Condemning what is off the ground admits as much as before.
LEMMA AdmittedStays ==
  ASSUME NEW m, NEW B, NEW T, NEW E, NEW D,
         D \cap B \cap GroundOf(m, B, T, E) = {}
  PROVE  AdmittedOf(m, B, T, E) \subseteq AdmittedOf(m, B \ D, T \ D, E \ D)
<1> DEFINE A == AdmittedOf(m, B, T, E)
           P == AnchorsOf(m, B, T, E)
           C == B \ D
           Q == AnchorsOf(m, C, T \ D, E \ D)
           G == GroundOf(m, B, T, E)
<1>0. A \cap B \subseteq G /\ P \cap B \subseteq G
  BY ReachRoots DEF GroundOf
<1>1. P \cap B \subseteq Q
  BY <1>0 DEF AnchorsOf, DescribesOf
<1> SUFFICES ASSUME NEW X \in SUBSET (E \ D),
                    AdmitsOf(m, C, T \ D, E \ D, X) \subseteq X
             PROVE  A \subseteq X
  <2>1. A \subseteq E \ D
    <3> SUFFICES ASSUME NEW n \in A PROVE n \notin D
      BY DEF AdmittedOf
    <3>1. A \cap B \in SUBSET E BY DEF AdmittedOf
    <3>2. AdmitsOf(m, B, T, E, A \cap B) \subseteq A \cap B
      BY AdmitsGrows, AdmittedIsClosed DEF AdmitsOf, SubjectOf
    <3>3. n \in B BY <3>1, <3>2 DEF AdmittedOf
    <3> QED BY <1>0, <3>3
  <2> QED BY <2>1 DEF AdmittedOf
<1> DEFINE Y == X \cap A
<1>2. AdmitsOf(m, B, T, E, Y) \subseteq A
  BY AdmitsGrows, AdmittedIsClosed
<1>3. ReachOf(m, B, P \cup Y) \subseteq ReachOf(m, C, Q \cup X)
  <2>1. ReachOf(m, B, P \cup Y) \subseteq G
    BY ReachShrinks DEF GroundOf
  <2>2. ReachOf(m, B, P \cup Y) \cap B \subseteq C
    BY <2>1
  <2>3. (P \cup Y) \cap B \subseteq Q \cup X /\ C \subseteq B
    BY <1>1
  <2> HIDE DEF P, Q, Y, C
  <2> QED BY <2>2, <2>3, ReachStays
<1>4. ASSUME NEW n \in AdmitsOf(m, B, T, E, Y)
      PROVE  n \in X
  <2>1. n \in E /\ n \in B /\ n \in A
    BY <1>2 DEF AdmitsOf, SubjectOf
  <2>2. n \notin D BY <1>0, <2>1
  <2>3. SubjectOf(m, C, n) = SubjectOf(m, B, n)
    BY <2>1, <2>2 DEF SubjectOf
  <2>4. StaysForOf(m, C, T \ D, n, ReachOf(m, C, Q \cup X))
    BY <1>3, <2>2, <2>3 DEF AdmitsOf, StaysForOf
  <2>5. n \in AdmitsOf(m, C, T \ D, E \ D, X)
    BY <2>1, <2>2, <2>3, <2>4 DEF AdmitsOf
  <2> QED BY <2>5
<1>5. Y \in SUBSET E /\ AdmitsOf(m, B, T, E, Y) \subseteq Y
  BY <1>2, <1>4 DEF AdmittedOf
<1> QED BY <1>5 DEF AdmittedOf

\* And keeps as much as before.
LEMMA KeptStays ==
  ASSUME NEW m, NEW B, NEW T, NEW E, NEW D,
         D \cap B \cap GroundOf(m, B, T, E) = {}
  PROVE  KeptOf(m, B, T, E) \subseteq KeptOf(m, B \ D, T \ D, E \ D)
<1> DEFINE A == AdmittedOf(m, B, T, E)
           P == AnchorsOf(m, B, T, E)
           R == ReachOf(m, B, P \cup (A \cap T))
           Q == AttachedOf(m, B, T, E, R)
           C == B \ D
           AA == AdmittedOf(m, C, T \ D, E \ D)
           PP == AnchorsOf(m, C, T \ D, E \ D)
           RR == ReachOf(m, C, PP \cup (AA \cap (T \ D)))
           QQ == AttachedOf(m, C, T \ D, E \ D, RR)
           G == GroundOf(m, B, T, E)
<1>0. A \cap B \subseteq G /\ P \cap B \subseteq G
  BY ReachRoots DEF GroundOf
<1>1. (P \cup (A \cap T)) \cap B \subseteq PP \cup (AA \cap (T \ D))
  BY <1>0, AdmittedStays DEF AnchorsOf, DescribesOf
<1>2. R \subseteq G /\ ReachOf(m, B, Q) \subseteq G
  BY KeptInGround DEF KeptOf, WithReferrersOf
<1>3. R \subseteq RR
  <2>1. R \cap B \subseteq C /\ C \subseteq B BY <1>2
  <2> HIDE DEF P, A, PP, AA, C
  <2> QED BY <1>1, <2>1, ReachStays
<1>4. Q \cap B \subseteq QQ
  <2> SUFFICES ASSUME NEW n \in Q, n \in B PROVE n \in QQ
    OBVIOUS
  <2>1. n \in ReachOf(m, B, Q) BY ReachRoots
  <2>2. n \notin D BY <1>2, <2>1
  <2> QED BY <1>3, <2>2 DEF AttachedOf, SubjectOf
<1>5. ReachOf(m, B, Q) \subseteq ReachOf(m, C, QQ)
  <2>1. ReachOf(m, B, Q) \cap B \subseteq C /\ C \subseteq B BY <1>2
  <2> HIDE DEF Q, QQ, C
  <2> QED BY <1>4, <2>1, ReachStays
<1> QED BY <1>3, <1>5 DEF KeptOf, WithReferrersOf

-----------------------------------------------------------------------------
(* What the layout's collector keeps, and content.                         *)

\* The layout's collector keeps all that the store does.
LEMMA KeptIsLive ==
  ASSUME NEW m, NEW B, NEW T, NEW E
  PROVE  KeptOf(m, B, T, E) \subseteq LiveOf(m, B, T, E)
<1> DEFINE S == AnchorsOf(m, B, T, E) \cup (AdmittedOf(m, B, T, E) \cap T)
           R == ReachOf(m, B, S)
           L == ReachOf(m, B, T)
<1>1. R \subseteq L
  <2>1. S \cap B \subseteq T /\ B \subseteq B BY DEF AnchorsOf
  <2> HIDE DEF S
  <2> QED BY <2>1, ReachShrinks
<1>2. AttachedOf(m, B, T, E, R) \subseteq AttachedOf(m, B, T, E, L)
  BY <1>1 DEF AttachedOf
<1>3. ReachOf(m, B, AttachedOf(m, B, T, E, R))
        \subseteq ReachOf(m, B, AttachedOf(m, B, T, E, L))
  BY <1>2, ReachShrinks
<1> QED BY <1>1, <1>3 DEF KeptOf, LiveOf, WithReferrersOf

\* Deleting what it would not keep leaves it all it would.
LEMMA LiveStays ==
  ASSUME NEW m, NEW B, NEW T, NEW E, NEW D,
         D \cap B \cap LiveOf(m, B, T, E) = {}
  PROVE  LiveOf(m, B, T, E) \subseteq LiveOf(m, B \ D, T \ D, E \ D)
<1> DEFINE C == B \ D
           R == ReachOf(m, B, T)
           RR == ReachOf(m, C, T \ D)
           Q == AttachedOf(m, B, T, E, R)
           QQ == AttachedOf(m, C, T \ D, E \ D, RR)
<1>1. R \subseteq LiveOf(m, B, T, E) /\ ReachOf(m, B, Q) \subseteq LiveOf(m, B, T, E)
  BY DEF LiveOf, WithReferrersOf
<1>2. R \subseteq RR
  <2>1. R \cap B \subseteq C /\ C \subseteq B BY <1>1
  <2>2. T \cap B \subseteq T \ D BY <1>1, ReachRoots
  <2> HIDE DEF C
  <2> QED BY <2>1, <2>2, ReachStays
<1>3. Q \cap B \subseteq QQ
  <2> SUFFICES ASSUME NEW n \in Q, n \in B PROVE n \in QQ
    OBVIOUS
  <2>1. n \in ReachOf(m, B, Q) BY ReachRoots
  <2>2. n \notin D BY <1>1, <2>1
  <2> QED BY <1>2, <2>2 DEF AttachedOf, SubjectOf
<1>4. ReachOf(m, B, Q) \subseteq ReachOf(m, C, QQ)
  <2>1. ReachOf(m, B, Q) \cap B \subseteq C /\ C \subseteq B BY <1>1
  <2> HIDE DEF Q, QQ, C
  <2> QED BY <1>3, <2>1, ReachStays
<1> QED BY <1>2, <1>4 DEF LiveOf, WithReferrersOf

\* So does forgetting referrers of what the tagged graph does not reach.
LEMMA LiveForgets ==
  ASSUME NEW m, NEW B, NEW T, NEW E, NEW D,
         \A n \in D : SubjectOf(m, B, n) \notin ReachOf(m, B, T)
  PROVE  LiveOf(m, B, T, E \ D) = LiveOf(m, B, T, E)
<1>1. AttachedOf(m, B, T, E \ D, ReachOf(m, B, T))
        = AttachedOf(m, B, T, E, ReachOf(m, B, T))
  BY DEF AttachedOf
<1> QED BY <1>1 DEF LiveOf, WithReferrersOf

\* Tagged content is kept.
LEMMA ContentIsKept ==
  ASSUME NEW m, NEW B, NEW T, NEW E
  PROVE  ContentOf(m, B, T, E) \subseteq KeptOf(m, B, T, E)
<1> DEFINE P == AnchorsOf(m, B, T, E)
           S == P \cup (AdmittedOf(m, B, T, E) \cap T)
<1>1. P \cap B \subseteq S /\ B \subseteq B OBVIOUS
<1>2. ReachOf(m, B, P) \subseteq ReachOf(m, B, S)
  <2> HIDE DEF P, S
  <2> QED BY <1>1, ReachShrinks
<1> QED BY <1>2 DEF ContentOf, KeptOf, WithReferrersOf

\* Removing blobs, tags or entries makes nothing content.
LEMMA ContentShrinks ==
  ASSUME NEW m, NEW B, NEW T, NEW E, NEW C, NEW U, NEW F,
         C \subseteq B, U \subseteq T, F \subseteq E
  PROVE  ContentOf(m, C, U, F) \subseteq ContentOf(m, B, T, E)
<1>1. AnchorsOf(m, C, U, F) \cap C \subseteq AnchorsOf(m, B, T, E)
  BY DEF AnchorsOf, DescribesOf
<1> QED BY <1>1, ReachShrinks DEF ContentOf

\* Descriptions are not what content hangs from.
LEMMA ContentIgnoresDescriptions ==
  ASSUME NEW m, NEW B, NEW T, NEW E, NEW D,
         \A n \in D : DescribesOf(m, B, n)
  PROVE  ContentOf(m, B, T, E \ D) = ContentOf(m, B, T, E)
<1>1. AnchorsOf(m, B, T, E \ D) = AnchorsOf(m, B, T, E)
  BY DEF AnchorsOf
<1> QED BY <1>1 DEF ContentOf

-----------------------------------------------------------------------------
(* With less listed, less is kept, as long as nothing tagged stops being so. *)

\* Referrers of less bring less.
LEMMA ReferrersShrink ==
  ASSUME NEW m, NEW B, NEW T, NEW E, NEW R, NEW C, NEW U, NEW F, NEW Q,
         C \subseteq B, F \subseteq E, F \cap T \subseteq U, Q \subseteq R
  PROVE  WithReferrersOf(m, C, U, F, Q) \subseteq WithReferrersOf(m, B, T, E, R)
<1>1. AttachedOf(m, C, U, F, Q) \subseteq AttachedOf(m, B, T, E, R)
  BY DEF AttachedOf, SubjectOf
<1>2. ReachOf(m, C, AttachedOf(m, C, U, F, Q))
        \subseteq ReachOf(m, B, AttachedOf(m, B, T, E, R))
  BY <1>1, ReachShrinks
<1> QED BY <1>2 DEF WithReferrersOf

LEMMA LiveShrinks ==
  ASSUME NEW m, NEW B, NEW T, NEW E, NEW C, NEW U, NEW F,
         C \subseteq B, U \subseteq T, F \subseteq E, F \cap T \subseteq U
  PROVE  LiveOf(m, C, U, F) \subseteq LiveOf(m, B, T, E)
<1>1. ReachOf(m, C, U) \subseteq ReachOf(m, B, T)
  BY ReachShrinks
<1> QED BY <1>1, ReferrersShrink DEF LiveOf

\* What the layout's collector keeps, once only what is admitted is tagged.
LEMMA LiveIsKept ==
  ASSUME NEW m, NEW B, NEW T, NEW E, NEW C, NEW U, NEW F,
         C \subseteq B, F \subseteq E, F \cap T \subseteq U,
         U \subseteq AnchorsOf(m, B, T, E) \cup (AdmittedOf(m, B, T, E) \cap T)
  PROVE  LiveOf(m, C, U, F) \subseteq KeptOf(m, B, T, E)
<1> DEFINE S == AnchorsOf(m, B, T, E) \cup (AdmittedOf(m, B, T, E) \cap T)
<1>1. ReachOf(m, C, U) \subseteq ReachOf(m, B, S)
  <2>1. U \cap C \subseteq S OBVIOUS
  <2> HIDE DEF S
  <2> QED BY <2>1, ReachShrinks
<1> QED BY <1>1, ReferrersShrink DEF LiveOf, KeptOf

LEMMA AdmittedShrinks ==
  ASSUME NEW m, NEW B, NEW T, NEW E, NEW U, NEW F, U \subseteq T, F \subseteq E
  PROVE  AdmittedOf(m, B, U, F) \subseteq AdmittedOf(m, B, T, E)
<1> SUFFICES ASSUME NEW X \in SUBSET E, AdmitsOf(m, B, T, E, X) \subseteq X
             PROVE  AdmittedOf(m, B, U, F) \subseteq X
  BY DEF AdmittedOf
<1> DEFINE Y == X \cap F
<1>1. AnchorsOf(m, B, U, F) \cup Y \subseteq AnchorsOf(m, B, T, E) \cup X
  BY DEF AnchorsOf
<1>2. ReachOf(m, B, AnchorsOf(m, B, U, F) \cup Y)
        \subseteq ReachOf(m, B, AnchorsOf(m, B, T, E) \cup X)
  <2> HIDE DEF Y
  <2> QED BY <1>1, ReachShrinks
<1>3. AdmitsOf(m, B, U, F, Y) \subseteq AdmitsOf(m, B, T, E, X)
  BY <1>2 DEF AdmitsOf, StaysForOf
<1>4. AdmitsOf(m, B, U, F, Y) \subseteq Y /\ Y \in SUBSET F
  BY <1>3 DEF AdmitsOf
<1> QED BY <1>4 DEF AdmittedOf

LEMMA KeptShrinks ==
  ASSUME NEW m, NEW B, NEW T, NEW E, NEW U, NEW F,
         U \subseteq T, F \subseteq E, F \cap T \subseteq U
  PROVE  KeptOf(m, B, U, F) \subseteq KeptOf(m, B, T, E)
<1>1. AnchorsOf(m, B, U, F) \cup (AdmittedOf(m, B, U, F) \cap U)
        \subseteq AnchorsOf(m, B, T, E) \cup (AdmittedOf(m, B, T, E) \cap T)
  BY AdmittedShrinks DEF AnchorsOf
<1> DEFINE Q == ReachOf(m, B, AnchorsOf(m, B, U, F) \cup (AdmittedOf(m, B, U, F) \cap U))
           R == ReachOf(m, B, AnchorsOf(m, B, T, E) \cup (AdmittedOf(m, B, T, E) \cap T))
<1>2. Q \subseteq R /\ B \subseteq B
  BY <1>1, ReachShrinks
<1>3. KeptOf(m, B, U, F) = WithReferrersOf(m, B, U, F, Q)
      /\ KeptOf(m, B, T, E) = WithReferrersOf(m, B, T, E, R)
  BY DEF KeptOf
<1> HIDE DEF Q, R
<1> QED BY <1>2, <1>3, ReferrersShrink

\* A tagged referrer that is kept is a root, so its subject is kept too.
LEMMA KeptHoldsSubject ==
  ASSUME NEW m, NEW B, NEW T, NEW E, NEW n \in T \cap E,
         n \in KeptOf(m, B, T, E), SubjectOf(m, B, n) \in B,
         SubjectOf(m, B, n) # None
  PROVE  SubjectOf(m, B, n) \in KeptOf(m, B, T, E)
<1> DEFINE S == AnchorsOf(m, B, T, E) \cup (AdmittedOf(m, B, T, E) \cap T)
           s == SubjectOf(m, B, n)
<1>1. n \in S
  BY KeptInGround, GroundAdmits DEF StaysForOf
<1>2. n \in B /\ s \in ChildrenOf(m, n)
  BY DEF SubjectOf, ChildrenOf
<1>3. s \in WalkOf(m, B, S)
  <2> HIDE DEF S
  <2>1. ClosedOf(m, B, WalkOf(m, B, S)) /\ n \in WalkOf(m, B, S)
    BY <1>1, <1>2, WalkClosed
  <2> QED BY <1>2, <2>1 DEF ClosedOf
<1> QED BY <1>3 DEF KeptOf, WithReferrersOf, ReachOf

-----------------------------------------------------------------------------
(* The restatements are what Collector says.                               *)

\* The walks of Collector, with the layout as an argument.
LEMMA RestatedReach ==
  ASSUME NEW S
  PROVE  Reach(S) = ReachOf(made, blobs, S)
BY DEF Reach, ReachOf, Walk, WalkOf, Closed, ClosedOf, Children, ChildrenOf,
       Opaque, OpaqueOf

RestatedFacts ==
  /\ Content = ContentOf(made, blobs, Tagged, known)
  /\ Live = LiveOf(made, blobs, Tagged, known)
  /\ Reach(Tagged) = ReachOf(made, blobs, Tagged)
  /\ \A E : Admitted(E) = AdmittedOf(made, blobs, Tagged, E)
  /\ \A E : Kept(E) = KeptOf(made, blobs, Tagged, E)

\* And what is computed from them.
LEMMA Restated == RestatedFacts
<1>1. ASSUME NEW E PROVE Anchors(E) = AnchorsOf(made, blobs, Tagged, E)
  BY DEF Anchors, AnchorsOf, Describes, DescribesOf
<1>2. ASSUME NEW n, NEW R
      PROVE  StaysFor(n, R) <=> StaysForOf(made, blobs, Tagged, n, R)
  BY DEF StaysFor, StaysForOf, Subject, SubjectOf
<1>3. ASSUME NEW E, NEW A
      PROVE  Admits(E, A) = AdmitsOf(made, blobs, Tagged, E, A)
  BY <1>1, <1>2, RestatedReach
     DEF Admits, AdmitsOf, Refers, Subject, SubjectOf
<1>4. ASSUME NEW E PROVE Admitted(E) = AdmittedOf(made, blobs, Tagged, E)
  BY <1>3 DEF Admitted, AdmittedOf
<1>5. ASSUME NEW E, NEW R
      PROVE  WithReferrers(E, R) = WithReferrersOf(made, blobs, Tagged, E, R)
  BY RestatedReach
     DEF WithReferrers, WithReferrersOf, Attached, AttachedOf, Refers,
         Subject, SubjectOf
<1>6. ASSUME NEW E PROVE Kept(E) = KeptOf(made, blobs, Tagged, E)
  BY <1>1, <1>4, <1>5, RestatedReach DEF Kept, KeptOf
<1>7. Live = LiveOf(made, blobs, Tagged, known)
  BY <1>5, RestatedReach DEF Live, LiveOf
<1>8. Content = ContentOf(made, blobs, Tagged, known)
  BY <1>1, RestatedReach DEF Content, ContentOf
<1> QED BY <1>4, <1>6, <1>7, <1>8, RestatedReach DEF RestatedFacts

\* The same after a step.
LEMMA RestatedNext ==
  /\ Content' = ContentOf(made', blobs', Tagged', known')
  /\ Live' = LiveOf(made', blobs', Tagged', known')
  /\ Reach(Tagged)' = ReachOf(made', blobs', Tagged')
<1>1. RestatedFacts' BY Restated, PTL
<1> QED BY <1>1 DEF RestatedFacts

-----------------------------------------------------------------------------
(* The inductive invariant.                                                *)

\* The index as if all that is condemned were gone already.
StillKept ==
  KeptOf(made, blobs \ work, Tagged \ work, known \ work)
StillLive ==
  LiveOf(made, blobs \ work, Tagged \ work, known \ work)

\* Nothing condemned is content.
Spared == (work \cup (IF pc \in {"taking", "untagged"} THEN {target} ELSE {}))
            \cap Content = {}

\* What describes something a removal takes is taken before it.
TakenWhole ==
  /\ pc \in {"taking", "untagged"} => target \in Nodes
  /\ pc = "untagged" => work = {}
  /\ pc \in {"taking", "untagged"} =>
       \A e \in Tagged :
         Describes(e) /\ Subject(e) \in work \cup {target} => e \in work

\* How far a collection has come.
InPass ==
  /\ pc \in {"idle", "repair", "collect", "collected"} => work = {}
  /\ pc = "unlinking" => target \in work
  /\ pc = "purge" => work \cap Tagged = {}
  /\ pc \in {"unlink", "unlinking", "purge", "collect"} => known \subseteq blobs

\* The promise, through the passes.
PromiseKept ==
  /\ pc \in Passes => promised \subseteq blobs \ work
  /\ pc \in {"repair", "unlink", "unlinking"} => promised \subseteq StillKept
  /\ pc \in {"purge", "collect"} => promised \subseteq StillLive

IInv ==
  /\ TypeOK
  /\ Tagged \subseteq known
  /\ \A n \in Nodes : made[n].describes => made[n].subject # None
  /\ Spared
  /\ TakenWhole
  /\ InPass
  /\ PromiseKept
  /\ CollectorReturns

\* The invariant holds at the start.
LEMMA InitIInv == Init => IInv
<1> SUFFICES ASSUME Init PROVE IInv OBVIOUS
<1>1. TypeOK
  BY CollectorAssumption DEF Init, TypeOK, Unmade, Blob, NodeOrNone, Passes
<1>2. Tagged = {} BY CollectorAssumption DEF Init, Tagged
<1> QED BY <1>1, <1>2
  DEF Init, IInv, Spared, TakenWhole, InPass, PromiseKept, CollectorReturns,
      Passes, Unmade, Blob

-----------------------------------------------------------------------------
(* Steps.                                                                  *)

\* What Unindex does to the tags and the index.
LEMMA UnindexTags ==
  ASSUME TypeOK, NEW n \in Nodes, Unindex(n)
  PROVE  /\ Tagged' = Tagged \ {n}
         /\ known' = known \ {n}
         /\ tags' \in [Refs -> NodeOrNone]
BY CollectorAssumption DEF TypeOK, Unindex, Tagged, NodeOrNone

\* A step that only removes makes nothing content.
LEMMA ContentSmaller ==
  ASSUME made' = made, blobs' \subseteq blobs, Tagged' \subseteq Tagged,
         known' \subseteq known
  PROVE  Content' \subseteq Content
BY Restated, RestatedNext, ContentShrinks DEF RestatedFacts

\* What goes along describes something, and so do all descriptions of it.
LEMMA AlongFacts ==
  ASSUME NEW n
  PROVE  /\ Along(n) \subseteq Tagged
         /\ \A e \in Along(n) : Describes(e)
         /\ \A e \in Tagged :
              Describes(e) /\ Subject(e) \in {n} \cup Along(n) => e \in Along(n)
<1>1. Along(n) \subseteq Tagged BY DEF Along
<1>2. ASSUME NEW e \in Along(n) PROVE Describes(e)
  <2> DEFINE D == {d \in Tagged : Describes(d)}
  <2>1. D \in SUBSET Tagged
        /\ {d \in Tagged : Describes(d) /\ Subject(d) \in {n} \cup D} \subseteq D
    OBVIOUS
  <2>2. e \in D BY <2>1 DEF Along
  <2> QED BY <2>2
<1>3. ASSUME NEW e \in Tagged, Describes(e), Subject(e) \in {n} \cup Along(n)
      PROVE  e \in Along(n)
  <2>1. ASSUME NEW D \in SUBSET Tagged,
               {d \in Tagged : Describes(d) /\ Subject(d) \in {n} \cup D}
                 \subseteq D
        PROVE  e \in D
    <3>1. Along(n) \subseteq D BY <2>1 DEF Along
    <3> QED BY <1>3, <2>1, <3>1
  <2> QED BY <1>3, <2>1 DEF Along
<1> QED BY <1>1, <1>2, <1>3

\* What a removal may take is not content.
LEMMA TakenIsNotContent ==
  ASSUME NEW n, Describes(n), ~Refused(n)
  PROVE  ({n} \cup Along(n)) \cap Content = {}
<1> DEFINE D == {n} \cup Along(n)
<1>1. \A e \in D : DescribesOf(made, blobs, e)
  BY AlongFacts DEF Describes, DescribesOf
<1>2. Content = ContentOf(made, blobs, Tagged, known \ D)
  <2> HIDE DEF D
  <2> QED BY <1>1, Restated, ContentIgnoresDescriptions DEF RestatedFacts
<1>3. Content \subseteq Kept(known \ D)
  <2> HIDE DEF D
  <2> QED BY <1>2, Restated, ContentIsKept DEF RestatedFacts
<1> QED BY <1>3 DEF Refused

\* No orphan is content, nor anything else that is kept.
LEMMA OrphansOff ==
  ASSUME IInv
  PROVE  /\ Orphans \cap GroundOf(made, blobs, Tagged, known) = {}
         /\ Orphans \cap Kept(known) = {}
         /\ Orphans \cap Content = {}
<1>1. ASSUME NEW n \in Orphans
      PROVE  n \notin GroundOf(made, blobs, Tagged, known)
  <2>1. n \in Tagged /\ n \in known /\ n \in Nodes
    BY DEF Orphans, IInv, Tagged
  <2>2. SubjectOf(made, blobs, n) # None
    BY <2>1 DEF Orphans, IInv, Describes, SubjectOf
  <2>3. n \notin AdmittedOf(made, blobs, Tagged, known)
    BY Restated DEF Orphans, RestatedFacts
  <2> QED BY <2>1, <2>2, <2>3, OrphansOffGround
<1>2. Kept(known) \subseteq GroundOf(made, blobs, Tagged, known)
  BY Restated, KeptInGround DEF RestatedFacts
<1>3. Content \subseteq Kept(known)
  BY Restated, ContentIsKept DEF RestatedFacts
<1> QED BY <1>1, <1>2, <1>3

-----------------------------------------------------------------------------
(* Types.                                                                  *)

\* Deleting a manifest keeps the kinds.
LEMMA DeleteType ==
  ASSUME TypeOK, NEW n \in Nodes, NEW step \in Passes \cup {"idle"},
         Delete(n, step)
  PROVE  TypeOK'
BY UnindexTags DEF Delete, Goto, Stop, TypeOK, NodeOrNone

\* So does an arrival.
LEMMA ArriveType ==
  ASSUME TypeOK, NEW n \in Nodes, NEW m \in Manifests \cup {Blob},
         Arrive(n, m), UNCHANGED <<tags, pc, work, target, promised>>,
         known' \in {known, known \cup {n}}
  PROVE  TypeOK'
BY DEF Arrive, TypeOK

\* So does every step.
LEMMA TypeStep ==
  ASSUME IInv, [Next]_vars
  PROVE  TypeOK'
<1> USE DEF IInv
<1>1. ASSUME NEW n \in Nodes, PushBlob(n) PROVE TypeOK'
  BY <1>1, ArriveType DEF PushBlob
<1>2. ASSUME NEW n \in Nodes, PushManifest(n) PROVE TypeOK'
  <2>1. PICK m \in Manifests : Arrive(n, m)
    BY <1>2, CollectorAssumption DEF PushManifest, Makeable, TypeOK
  <2> QED BY <1>2, <2>1, ArriveType DEF PushManifest
<1>3. ASSUME NEW r \in Refs, NEW n \in Nodes, Tag(r, n) PROVE TypeOK'
  BY <1>3 DEF Tag, TypeOK, NodeOrNone
<1>4. ASSUME NEW r \in Refs, Take(r) PROVE TypeOK'
  <2>1. Along(tags[r]) \subseteq Nodes
    BY AlongFacts DEF Tagged
  <2> QED BY <1>4, <2>1 DEF Take, Goto, layoutVars, TypeOK
<1>5. ASSUME NEW r \in Refs, Untag(r) PROVE TypeOK'
  BY <1>5 DEF Untag, TypeOK, NodeOrNone
<1>6. ASSUME NEW d \in Nodes, TakeAlong(d) PROVE TypeOK'
  BY <1>6, UnindexTags DEF TakeAlong, Stop, TypeOK, NodeOrNone
<1>7. CASE TakeNamed
  BY <1>7 DEF TakeNamed, Goto, TypeOK, NodeOrNone
<1>8. CASE TakeDone
  BY <1>8, DeleteType DEF TakeDone, TakenWhole
<1>9. CASE Collect
  BY <1>9 DEF Collect, Goto, layoutVars, TypeOK, Passes
<1>10. CASE Repair
  <2>1. PICK n \in Nodes : Unindex(n) BY <1>10 DEF Repair, TypeOK
  <2> QED BY <1>10, <2>1, UnindexTags DEF Repair, TypeOK
<1>11. CASE Repaired
  BY <1>11 DEF Repaired, Orphans, Tagged, Goto, layoutVars, TypeOK, Passes
<1>12. ASSUME NEW r \in Refs, Unlink(r) PROVE TypeOK'
  BY <1>12 DEF Unlink, Goto, TypeOK, NodeOrNone, Passes
<1>13. CASE Unlinked
  <2>1. target \in Nodes BY <1>13 DEF Unlinked, InPass, TypeOK
  <2> QED BY <1>13, <2>1, DeleteType DEF Unlinked, Passes
<1>14. CASE UnlinkDone
  BY <1>14 DEF UnlinkDone, Adrift, Untagged, Goto, layoutVars, TypeOK, Passes
<1>15. CASE Purge
  <2>1. PICK n \in work : Delete(n, "purge") BY <1>15 DEF Purge
  <2>2. n \in Nodes BY DEF TypeOK
  <2> QED BY <2>1, <2>2, DeleteType DEF Passes
<1>16. CASE Forget
  BY <1>16 DEF Forget, Goto, TypeOK, Passes
<1>17. CASE LayoutGC
  BY <1>17 DEF LayoutGC, Goto, layoutVars, TypeOK, Passes
<1>18. CASE Sweep
  BY <1>18 DEF Sweep, TypeOK
<1>19. CASE SaveIndex
  BY <1>19 DEF SaveIndex, Tagged, Attached, Goto, Stop, TypeOK, Passes, NodeOrNone
<1>20. CASE Ends
  BY <1>20 DEF Ends, Stop, layoutVars, TypeOK, NodeOrNone
<1>21. CASE UNCHANGED vars
  BY <1>21 DEF vars, layoutVars, TypeOK
<1> QED
  BY <1>1, <1>2, <1>3, <1>4, <1>5, <1>6, <1>7, <1>8, <1>9, <1>10, <1>11,
     <1>12, <1>13, <1>14, <1>15, <1>16, <1>17, <1>18, <1>19, <1>20, <1>21
  DEF Next, Arrivals, Removal, Collection

-----------------------------------------------------------------------------
(* The graph and the index.                                                *)

\* How the tags and the index may change.
LEMMA IndexStep ==
  ASSUME IInv, [Next]_vars
  PROVE  /\ Tagged' \subseteq known'
         /\ \A n \in Nodes : made'[n].describes => made'[n].subject # None
<1> USE DEF IInv
<1>1. ASSUME NEW n \in Nodes, PushBlob(n) \/ PushManifest(n)
      PROVE  /\ Tagged' \subseteq known'
             /\ \A x \in Nodes : made'[x].describes => made'[x].subject # None
  <2>1. PICK m : Arrive(n, m) /\ (m.describes => m.subject # None)
    <3>1. CASE PushBlob(n) BY <3>1 DEF PushBlob, Blob
    <3>2. CASE PushManifest(n)
      BY <3>2 DEF PushManifest, Makeable, TypeOK
    <3> QED BY <1>1, <3>1, <3>2
  <2>2. Tagged' = Tagged BY <1>1 DEF PushBlob, PushManifest, Tagged
  <2> QED BY <1>1, <2>1, <2>2 DEF PushBlob, PushManifest, Arrive, TypeOK
<1>2. ASSUME made' = made, \/ known \subseteq known' /\ Tagged' \subseteq Tagged
                           \/ Tagged' \subseteq known'
      PROVE  /\ Tagged' \subseteq known'
             /\ \A x \in Nodes : made'[x].describes => made'[x].subject # None
  BY <1>2
<1>3. ASSUME NEW n \in Nodes, Unindex(n) PROVE Tagged' \subseteq known'
  BY <1>3, UnindexTags
<1>4. ASSUME NEW r \in Refs, NEW n \in Nodes, Tag(r, n)
      PROVE  made' = made /\ Tagged' \subseteq known'
  BY <1>4 DEF Tag, Tagged, TypeOK
<1>5. ASSUME NEW r \in Refs, Take(r) \/ Untag(r) \/ Unlink(r)
      PROVE  made' = made /\ known' = known /\ Tagged' \subseteq Tagged
  BY <1>5, CollectorAssumption
     DEF Take, Untag, Unlink, layoutVars, Tagged, TypeOK
<1>6. ASSUME NEW d \in Nodes, TakeAlong(d)
      PROVE  made' = made /\ Tagged' \subseteq known'
  BY <1>6, <1>3 DEF TakeAlong
<1>7. CASE TakeNamed
  BY <1>7, <1>2, CollectorAssumption DEF TakeNamed, Tagged, TypeOK
<1>8. ASSUME TakeDone \/ Unlinked \/ Purge
      PROVE  made' = made /\ Tagged' \subseteq known'
  <2>1. ASSUME NEW n \in Nodes, NEW step, Delete(n, step)
        PROVE  made' = made /\ Tagged' \subseteq known'
    BY <2>1, <1>3 DEF Delete
  <2>2. CASE TakeDone
    BY <2>1, <2>2 DEF TakeDone, TakenWhole
  <2>3. CASE Unlinked
    BY <2>1, <2>3 DEF Unlinked, InPass, TypeOK
  <2>4. CASE Purge
    BY <2>1, <2>4 DEF Purge, TypeOK
  <2> QED BY <1>8, <2>2, <2>3, <2>4
<1>9. CASE Repair
  <2>1. PICK n \in Nodes : Unindex(n) BY <1>9 DEF Repair, TypeOK
  <2> QED BY <1>9, <2>1, <1>2, <1>3 DEF Repair
<1>10. CASE Collect \/ Repaired \/ UnlinkDone \/ LayoutGC \/ Sweep \/ Ends
              \/ UNCHANGED vars
  <2>1. made' = made /\ known' = known /\ Tagged' = Tagged
    BY <1>10 DEF Collect, Repaired, UnlinkDone, LayoutGC, Sweep, Ends, vars,
                 layoutVars, Tagged
  <2> QED BY <2>1, <1>2
<1>11. CASE Forget
  BY <1>11, <1>2 DEF Forget, Adrift, Untagged, Tagged
<1>12. CASE SaveIndex
  BY <1>12, <1>2 DEF SaveIndex, Tagged
<1> QED
  BY <1>1, <1>2, <1>4, <1>5, <1>6, <1>7, <1>8, <1>9, <1>10, <1>11, <1>12
  DEF Next, Arrivals, Removal, Collection

-----------------------------------------------------------------------------
(* The command under way.                                                  *)

Progress == Spared /\ TakenWhole /\ InPass /\ PromiseKept /\ CollectorReturns

\* Between commands there is nothing to keep track of.
LEMMA IdleProgress ==
  ASSUME pc' = "idle", work' = {}
  PROVE  Progress'
BY DEF Progress, Spared, TakenWhole, InPass, PromiseKept, CollectorReturns, Passes

\* Nothing is lost by doing nothing.
LEMMA StutterProgress ==
  ASSUME IInv, UNCHANGED vars
  PROVE  Progress'
<1>1. /\ made' = made /\ blobs' = blobs /\ known' = known /\ pc' = pc
      /\ work' = work /\ target' = target /\ promised' = promised
      /\ Tagged' = Tagged
  BY DEF vars, layoutVars, Tagged
<1>2. Content' = Content /\ Reach(Tagged)' = Reach(Tagged)
  BY <1>1, Restated, RestatedNext DEF RestatedFacts
<1>3. StillKept' = StillKept /\ StillLive' = StillLive
  BY <1>1 DEF StillKept, StillLive
<1>4. \A n : (Subject(n) = Subject(n)') /\ (Describes(n) <=> Describes(n)')
  BY <1>1 DEF Subject, Describes
<1>5. CollectorReturns'
  BY <1>1, <1>2, <1>4
     DEF IInv, CollectorReturns, Placed, Untagged, Refers
<1>6. TakenWhole'
  BY <1>1, <1>4 DEF IInv, TakenWhole
<1> QED
  BY <1>1, <1>2, <1>3, <1>5, <1>6
     DEF IInv, Progress, Spared, InPass, PromiseKept

\* The work left is less, and so is what may be content.
LEMMA SparedStays ==
  ASSUME Spared, made' = made, blobs' \subseteq blobs, Tagged' \subseteq Tagged,
         known' \subseteq known, work' \subseteq work,
         pc' \in {"taking", "untagged"} =>
           pc \in {"taking", "untagged"} /\ target' = target
  PROVE  Spared'
BY ContentSmaller DEF Spared

\* Every step of a removal keeps the invariant.
LEMMA RemovalProgress ==
  ASSUME IInv, Removal
  PROVE  Progress'
<1> USE DEF IInv
<1>1. ASSUME NEW r \in Refs, Take(r) PROVE Progress'
  <2> DEFINE n == tags[r]
  <2>1. /\ Describes(n) /\ ~Refused(n) /\ work' = Along(n) /\ target' = n
        /\ pc' = "taking" /\ n \in Nodes
        /\ made' = made /\ blobs' = blobs /\ known' = known /\ Tagged' = Tagged
    BY <1>1 DEF Take, Goto, layoutVars, Tagged, TypeOK, NodeOrNone
  <2>2. Content' = Content
    BY <2>1, Restated, RestatedNext DEF RestatedFacts
  <2>3. Spared'
    BY <2>1, <2>2, TakenIsNotContent DEF Spared
  <2>4. TakenWhole'
    BY <2>1, AlongFacts DEF TakenWhole, Describes, Subject
  <2> QED BY <2>1, <2>3, <2>4
    DEF Progress, InPass, PromiseKept, CollectorReturns, Passes
<1>2. ASSUME NEW r \in Refs, Untag(r) PROVE Progress'
  BY <1>2, IdleProgress DEF Untag, InPass
<1>3. ASSUME NEW d \in Nodes, TakeAlong(d) PROVE Progress'
  <2>1. CASE Stop
    BY <2>1, IdleProgress DEF Stop
  <2>2. CASE ~Stop
    <3>1. /\ pc = "taking" /\ d \in work /\ \A e \in work : Subject(e) # d
          /\ pc' = pc /\ target' = target /\ work' = work \ {d}
          /\ blobs' = blobs \ {d} /\ made' = made
          /\ Tagged' = Tagged \ {d} /\ known' = known \ {d}
      BY <1>3, <2>2, UnindexTags DEF TakeAlong
    <3>2. Spared' BY <3>1, SparedStays
    <3>3. TakenWhole' BY <3>1 DEF TakenWhole, Describes, Subject
    <3> QED BY <3>1, <3>2, <3>3
      DEF Progress, InPass, PromiseKept, CollectorReturns, Passes
  <2> QED BY <2>1, <2>2
<1>4. CASE TakeNamed
  <2>1. /\ pc = "taking" /\ work = {} /\ pc' = "untagged" /\ work' = work
        /\ target' = target /\ made' = made /\ blobs' = blobs /\ known' = known
        /\ Tagged' \subseteq Tagged
    BY <1>4, CollectorAssumption DEF TakeNamed, Goto, Tagged, TypeOK
  <2>2. Spared' BY <2>1, SparedStays
  <2>3. TakenWhole' BY <2>1 DEF TakenWhole, Describes, Subject
  <2> QED BY <2>1, <2>2, <2>3
    DEF Progress, InPass, PromiseKept, CollectorReturns, Passes
<1>5. CASE TakeDone
  BY <1>5, IdleProgress DEF TakeDone, TakenWhole, Delete, Goto, Stop
<1> QED BY <1>1, <1>2, <1>3, <1>4, <1>5 DEF Removal

\* A node condemned is deleted: what is left without the condemned stays.
LEMMA DeleteCondemned ==
  ASSUME IInv, NEW n \in work, NEW step, Delete(n, step), pc' # "idle"
  PROVE  /\ pc' = step /\ made' = made /\ promised' = promised
         /\ blobs' = blobs \ {n} /\ work' = work \ {n}
         /\ Tagged' = Tagged \ {n} /\ known' = known \ {n}
         /\ StillKept' = StillKept /\ StillLive' = StillLive
<1>1. /\ pc' = step /\ made' = made /\ promised' = promised
      /\ blobs' = blobs \ {n} /\ work' = work \ {n}
      /\ Tagged' = Tagged \ {n} /\ known' = known \ {n}
  BY UnindexTags DEF Delete, Goto, Stop, IInv, TypeOK
<1>2. /\ blobs' \ work' = blobs \ work /\ Tagged' \ work' = Tagged \ work
      /\ known' \ work' = known \ work
  BY <1>1
<1> QED BY <1>1, <1>2 DEF StillKept, StillLive

\* So does the deletion of something condemned.
LEMMA DeleteProgress ==
  ASSUME IInv, NEW n \in work, NEW step, Delete(n, step),
         \/ pc \in {"unlink", "unlinking"} /\ step = "unlink"
         \/ pc = "purge" /\ step = "purge"
  PROVE  Progress'
<1> USE DEF IInv
<1>1. CASE pc' = "idle"
  <2>1. work' = {} BY <1>1 DEF Delete, Goto, Stop
  <2> QED BY <1>1, <2>1, IdleProgress
<1>2. CASE pc' # "idle"
  <2>1. /\ pc' = step /\ made' = made /\ promised' = promised
        /\ blobs' = blobs \ {n} /\ work' = work \ {n}
        /\ Tagged' = Tagged \ {n} /\ known' = known \ {n}
        /\ StillKept' = StillKept /\ StillLive' = StillLive
    BY <1>2, DeleteCondemned
  <2>2. Spared' BY <2>1, SparedStays
  <2>3. InPass' BY <2>1 DEF InPass
  <2>4. PromiseKept' BY <2>1 DEF PromiseKept, Passes
  <2> QED BY <2>1, <2>2, <2>3, <2>4
    DEF Progress, TakenWhole, CollectorReturns
<1> QED BY <1>1, <1>2

\* So do the start of a collection, its repair, and the choice of orphans.
LEMMA PromiseProgress ==
  ASSUME IInv, Collect \/ Repair \/ Repaired
  PROVE  Progress'
<1> USE DEF IInv
<1>1. CASE Collect
  <2>1. /\ pc' = "repair" /\ promised' = Kept(known) \cap blobs
        /\ made' = made /\ blobs' = blobs /\ known' = known /\ Tagged' = Tagged
        /\ work' = work /\ work = {}
    BY <1>1 DEF Collect, Goto, layoutVars, Tagged, InPass
  <2>2. /\ blobs' \ work' = blobs /\ Tagged' \ work' = Tagged
        /\ known' \ work' = known
    BY <2>1
  <2>3. StillKept' = Kept(known)
    BY <2>1, <2>2, Restated DEF StillKept, RestatedFacts
  <2> QED BY <2>1, <2>3
    DEF Progress, Spared, TakenWhole, InPass, PromiseKept, CollectorReturns
<1>2. CASE Repair
  <2>1. PICK n \in known \ blobs : Unindex(n) BY <1>2 DEF Repair
  <2>2. /\ pc = "repair" /\ pc' = pc /\ made' = made /\ blobs' = blobs
        /\ promised' = promised /\ work' = work /\ work = {}
        /\ Tagged' = Tagged \ {n} /\ known' = known \ {n}
    BY <1>2, <2>1, UnindexTags DEF Repair, InPass, TypeOK
  <2>3. /\ blobs \ work = blobs /\ Tagged \ work = Tagged /\ known \ work = known
        /\ blobs' \ work' = blobs \ {n} /\ Tagged' \ work' = Tagged \ {n}
        /\ known' \ work' = known \ {n}
    BY <2>1, <2>2
  <2>4. StillKept \subseteq StillKept'
    <3>1. {n} \cap blobs \cap GroundOf(made, blobs, Tagged, known) = {}
      BY <2>1
    <3>2. KeptOf(made, blobs, Tagged, known)
            \subseteq KeptOf(made, blobs \ {n}, Tagged \ {n}, known \ {n})
      BY <3>1, KeptStays
    <3> QED BY <2>2, <2>3, <3>2 DEF StillKept
  <2> QED BY <2>2, <2>4
    DEF Progress, Spared, TakenWhole, InPass, PromiseKept, CollectorReturns
<1>3. CASE Repaired
  <2>1. /\ pc = "repair" /\ pc' = "unlink" /\ known \subseteq blobs
        /\ work = {} /\ work' = Orphans /\ promised' = promised
        /\ made' = made /\ blobs' = blobs /\ known' = known /\ Tagged' = Tagged
    BY <1>3 DEF Repaired, Goto, layoutVars, Tagged, InPass
  <2>2. /\ blobs \ work = blobs /\ Tagged \ work = Tagged /\ known \ work = known
    BY <2>1
  <2>3. StillKept = Kept(known)
    BY <2>2, Restated DEF StillKept, RestatedFacts
  <2>4. StillKept \subseteq StillKept'
    <3>1. Orphans \cap blobs \cap GroundOf(made, blobs, Tagged, known) = {}
      BY OrphansOff
    <3>2. KeptOf(made, blobs, Tagged, known)
            \subseteq KeptOf(made, blobs \ Orphans, Tagged \ Orphans,
                             known \ Orphans)
      BY <3>1, KeptStays
    <3> QED BY <2>1, <2>2, <3>2 DEF StillKept
  <2>5. Content' = Content
    BY <2>1, Restated, RestatedNext DEF RestatedFacts
  <2>6. Spared' BY <2>1, <2>5, OrphansOff DEF Spared
  <2>7. PromiseKept'
    BY <2>1, <2>3, <2>4, OrphansOff DEF PromiseKept, Passes
  <2> QED BY <2>1, <2>6, <2>7
    DEF Progress, TakenWhole, InPass, CollectorReturns
<1> QED BY <1>1, <1>2, <1>3

\* So does untagging an orphan.
LEMMA UnlinkProgress ==
  ASSUME IInv, NEW r \in Refs, Unlink(r)
  PROVE  Progress'
<1> USE DEF IInv
<1>1. /\ pc = "unlink" /\ pc' = "unlinking" /\ tags[r] \in work
      /\ target' = tags[r] /\ work' = work /\ promised' = promised
      /\ made' = made /\ blobs' = blobs /\ known' = known
  BY DEF Unlink, Goto
<1>2. Tagged' \subseteq Tagged /\ Tagged' \ work' = Tagged \ work
  BY <1>1, CollectorAssumption DEF Unlink, Tagged, TypeOK
<1>3. StillKept' = StillKept
  BY <1>1, <1>2 DEF StillKept
<1>4. Spared' BY <1>1, <1>2, SparedStays
<1>5. PromiseKept' BY <1>1, <1>3 DEF PromiseKept, Passes
<1> QED BY <1>1, <1>4, <1>5
  DEF Progress, TakenWhole, InPass, CollectorReturns

\* So do the choice of untagged referrers and what is forgotten of them.
LEMMA PurgeProgress ==
  ASSUME IInv, UnlinkDone \/ Forget
  PROVE  Progress'
<1> USE DEF IInv
<1>1. CASE UnlinkDone
  <2>1. /\ pc = "unlink" /\ pc' = "purge" /\ work = {} /\ work' = Adrift \ Live
        /\ promised' = promised /\ made' = made /\ blobs' = blobs
        /\ known' = known /\ Tagged' = Tagged
    BY <1>1 DEF UnlinkDone, Goto, layoutVars, Tagged
  <2>2. /\ blobs \ work = blobs /\ Tagged \ work = Tagged /\ known \ work = known
    BY <2>1
  <2>3. StillKept \subseteq Live
    BY <2>2, Restated, KeptIsLive DEF StillKept, RestatedFacts
  <2>4. Live \subseteq StillLive'
    <3>1. work' \cap blobs \cap LiveOf(made, blobs, Tagged, known) = {}
      BY <2>1, Restated DEF RestatedFacts
    <3>2. LiveOf(made, blobs, Tagged, known)
            \subseteq LiveOf(made, blobs \ work', Tagged \ work', known \ work')
      BY <3>1, LiveStays
    <3> QED BY <2>1, <3>2, Restated DEF StillLive, RestatedFacts
  <2>5. Content' = Content /\ Content \subseteq Live
    <3>1. Content' = Content
      BY <2>1, Restated, RestatedNext DEF RestatedFacts
    <3>2. Content \subseteq Live
      BY Restated, ContentIsKept, KeptIsLive DEF RestatedFacts
    <3> QED BY <3>1, <3>2
  <2>6. Spared' BY <2>1, <2>5 DEF Spared
  <2>7. PromiseKept' BY <2>1, <2>3, <2>4 DEF PromiseKept, Passes
  <2>8. InPass' BY <2>1 DEF InPass, Adrift, Untagged
  <2> QED BY <2>1, <2>6, <2>7, <2>8
    DEF Progress, TakenWhole, CollectorReturns
<1>2. CASE Forget
  <2>1. /\ pc = "purge" /\ pc' = "collect" /\ work = {} /\ work' = work
        /\ promised' = promised /\ made' = made /\ blobs' = blobs
        /\ known' = known \ Adrift /\ Tagged' = Tagged
    BY <1>2 DEF Forget, Goto, Tagged
  <2>2. \A n \in Adrift :
          SubjectOf(made, blobs, n) \notin ReachOf(made, blobs, Tagged)
    BY RestatedReach DEF Adrift, Subject, SubjectOf
  <2>3. /\ blobs \ work = blobs /\ Tagged \ work = Tagged /\ known \ work = known
        /\ blobs' \ work' = blobs /\ Tagged' \ work' = Tagged
        /\ known' \ work' = known \ Adrift
    BY <2>1
  <2>4. StillLive' = StillLive
    <3>1. LiveOf(made, blobs, Tagged, known \ Adrift)
            = LiveOf(made, blobs, Tagged, known)
      BY <2>2, LiveForgets
    <3> QED BY <2>1, <2>3, <3>1 DEF StillLive
  <2>5. PromiseKept'
    <3>1. promised \subseteq blobs \ work /\ promised \subseteq StillLive
      BY <2>1 DEF PromiseKept, Passes
    <3>2. promised' \subseteq blobs' \ work' /\ promised' \subseteq StillLive'
      BY <2>1, <2>4, <3>1
    <3> QED BY <2>1, <3>2 DEF PromiseKept
  <2>6. InPass' BY <2>1 DEF InPass
  <2>7. Reach(Tagged)' = Reach(Tagged)
    BY <2>1, Restated, RestatedNext DEF RestatedFacts
  <2>8. \A n : (Subject(n) = Subject(n)') /\ (Refers(n) <=> Refers(n)')
    BY <2>1 DEF Subject, Refers
  <2>9. Placed'
    BY <2>1, <2>6, <2>7, <2>8 DEF Placed, Untagged, Adrift, InPass
  <2> QED BY <2>1, <2>5, <2>6, <2>9
    DEF Progress, Spared, TakenWhole, CollectorReturns
<1> QED BY <1>1, <1>2

\* So do the layout's collector and the save after it.
LEMMA SweepProgress ==
  ASSUME IInv, LayoutGC \/ Sweep \/ SaveIndex
  PROVE  Progress'
<1> USE DEF IInv
<1>1. CASE LayoutGC
  <2>1. /\ pc = "collect" /\ pc' = "sweep" /\ work = {} /\ work' = blobs \ Live
        /\ promised' = promised /\ made' = made /\ blobs' = blobs
        /\ known' = known /\ Tagged' = Tagged
    BY <1>1 DEF LayoutGC, Goto, layoutVars, Tagged, InPass
  <2>2. /\ blobs \ work = blobs /\ Tagged \ work = Tagged /\ known \ work = known
    BY <2>1
  <2>3. promised \subseteq Live
    BY <2>1, <2>2, Restated DEF PromiseKept, StillLive, RestatedFacts
  <2>4. Content' = Content
    BY <2>1, Restated, RestatedNext DEF RestatedFacts
  <2>5. Content \subseteq Live
    BY Restated, ContentIsKept, KeptIsLive DEF RestatedFacts
  <2>6. Spared' BY <2>1, <2>4, <2>5 DEF Spared
  <2>7. PromiseKept' BY <2>1, <2>3 DEF PromiseKept, Passes
  <2> QED BY <2>1, <2>6, <2>7
    DEF Progress, TakenWhole, InPass, CollectorReturns
<1>2. CASE Sweep
  <2>1. /\ pc = "sweep" /\ pc' = pc /\ work' \subseteq work
        /\ blobs' \subseteq blobs /\ blobs' \ work' = blobs \ work
        /\ promised' = promised /\ made' = made
        /\ known' = known /\ Tagged' = Tagged
    BY <1>2 DEF Sweep, Tagged
  <2>2. Spared' BY <2>1, SparedStays
  <2>3. PromiseKept' BY <2>1 DEF PromiseKept, Passes
  <2> QED BY <2>1, <2>2, <2>3
    DEF Progress, TakenWhole, InPass, CollectorReturns
<1>3. CASE SaveIndex
  <2>1. CASE pc' = "idle"
    BY <1>3, <2>1, IdleProgress DEF SaveIndex, Stop, Goto
  <2>2. CASE pc' # "idle"
    <3>1. /\ pc = "sweep" /\ pc' = "collected" /\ work = {} /\ work' = {}
          /\ promised' = promised /\ blobs' = blobs
      BY <1>3, <2>2 DEF SaveIndex, Stop, Goto
    <3> QED BY <3>1
      DEF Progress, Spared, TakenWhole, InPass, PromiseKept, CollectorReturns,
          Passes
  <2> QED BY <2>1, <2>2
<1> QED BY <1>1, <1>2, <1>3

\* So does every step of a collection.
LEMMA CollectionProgress ==
  ASSUME IInv, Collection
  PROVE  Progress'
<1>1. CASE Unlinked
  <2>1. target \in work /\ pc = "unlinking" /\ Delete(target, "unlink")
    BY <1>1 DEF Unlinked, IInv, InPass
  <2> QED BY <2>1, DeleteProgress
<1>2. CASE Purge
  <2>1. PICK n \in work : Delete(n, "purge") BY <1>2 DEF Purge
  <2>2. pc = "purge" BY <1>2 DEF Purge
  <2> QED BY <2>1, <2>2, DeleteProgress
<1>3. ASSUME NEW r \in Refs, Unlink(r) PROVE Progress'
  BY <1>3, UnlinkProgress
<1>4. CASE Collect \/ Repair \/ Repaired
  BY <1>4, PromiseProgress
<1>5. CASE UnlinkDone \/ Forget
  BY <1>5, PurgeProgress
<1>6. CASE LayoutGC \/ Sweep \/ SaveIndex
  BY <1>6, SweepProgress
<1> QED BY <1>1, <1>2, <1>3, <1>4, <1>5, <1>6 DEF Collection

\* The invariant is inductive.
LEMMA StepIInv ==
  ASSUME IInv, [Next]_vars
  PROVE  IInv'
<1>1. Progress'
  <2>1. CASE Arrivals
    <3>1. pc' = "idle" /\ work' = {}
      BY <2>1 DEF Arrivals, PushBlob, PushManifest, Tag, IInv, InPass
    <3> QED BY <3>1, IdleProgress
  <2>2. CASE Ends
    BY <2>2, IdleProgress DEF Ends, Stop
  <2> QED
    BY <2>1, <2>2, RemovalProgress, CollectionProgress, StutterProgress DEF Next
<1> QED BY <1>1, TypeStep, IndexStep DEF IInv, Progress

\* The invariant always holds.
LEMMA Invariance == Spec => []IInv
BY InitIInv, StepIInv, PTL DEF Spec

-----------------------------------------------------------------------------
(* The theorems.                                                           *)

\* The layout and the command keep their kinds.
THEOREM CollectorTypeCorrect == Spec => []TypeOK
<1>1. IInv => TypeOK BY DEF IInv
<1> QED BY <1>1, Invariance, PTL

\* A collection keeps everything Held said it would, whatever its passes
\* remove before and whatever an interrupted command left.
THEOREM CollectionKeepsPromise == Spec => []HeldIsKept
<1>1. IInv => HeldIsKept BY DEF IInv, PromiseKept, HeldIsKept
<1> QED BY <1>1, Invariance, PTL

\* Every untagged manifest left for the layout's collector is there, and its
\* subject is in the tagged graph.
THEOREM CollectorAlwaysReturns == Spec => []CollectorReturns
<1>1. IInv => CollectorReturns BY DEF IInv
<1> QED BY <1>1, Invariance, PTL

\* What a step removes from blobs/ was condemned, or named by a removal.
LEMMA RemovedIsCondemned ==
  ASSUME IInv, [Next]_vars, NEW n \in blobs \ blobs'
  PROVE  n \in work \/ (pc = "untagged" /\ n = target)
<1> USE DEF IInv
<1>1. CASE Arrivals
  BY <1>1 DEF Arrivals, PushBlob, PushManifest, Tag, Arrive
<1>2. CASE Removal
  BY <1>2 DEF Removal, Take, Untag, TakeAlong, TakeNamed, TakeDone, Delete,
              layoutVars
<1>3. CASE Collection
  <2>1. CASE Unlinked
    BY <2>1 DEF Unlinked, Delete, InPass
  <2>2. CASE ~Unlinked
    BY <1>3, <2>2 DEF Collection, Collect, Repair, Repaired, UnlinkDone,
       Unlink, Purge, Delete, Forget, LayoutGC, Sweep, SaveIndex, layoutVars
  <2> QED BY <2>1, <2>2
<1>4. CASE Ends \/ UNCHANGED vars
  BY <1>4 DEF Ends, vars, layoutVars
<1> QED BY <1>1, <1>2, <1>3, <1>4 DEF Next

\* No step takes a blob that tagged content reaches.
THEOREM ContentIsNeverTaken == Spec => ContentStays
<1>1. ASSUME IInv, [Next]_vars
      PROVE  Content \cap blobs \subseteq blobs'
  <2>1. ASSUME NEW n \in blobs \ blobs' PROVE n \notin Content
    <3>1. n \in work \/ (pc = "untagged" /\ n = target)
      BY <1>1, <2>1, RemovedIsCondemned
    <3> QED BY <1>1, <3>1 DEF IInv, Spared
  <2> QED BY <2>1
<1> QED BY <1>1, Invariance, PTL DEF Spec, ContentStays

\* A removal that stops anywhere leaves no tagged description whose subject
\* it has taken.
THEOREM RemovalGoesDeepestFirst == Spec => DeepestFirst
<1>1. ASSUME IInv, [Next]_vars
      PROVE  \A n \in blobs \ blobs', e \in Tagged \cap blobs' :
               (pc \in {"taking", "untagged"} /\ Describes(e)) => Subject(e) # n
  <2> SUFFICES ASSUME NEW n \in blobs \ blobs', NEW e \in Tagged \cap blobs',
                      pc \in {"taking", "untagged"}, Describes(e)
               PROVE  Subject(e) # n
    OBVIOUS
  <2>1. n \in work \/ (pc = "untagged" /\ n = target)
    BY <1>1, RemovedIsCondemned
  <2>2. CASE pc = "untagged"
    BY <1>1, <2>1, <2>2 DEF IInv, TakenWhole
  <2>3. CASE pc = "taking"
    <3>1. PICK d \in work : (\A x \in work : Subject(x) # d) /\ n = d
      BY <1>1, <2>3
         DEF Next, Arrivals, Removal, Collection, PushBlob, PushManifest, Tag,
             Take, Untag, TakeAlong, TakeNamed, TakeDone, Collect, Repair,
             Repaired, Unlink, Unlinked, UnlinkDone, Purge, Forget, LayoutGC,
             Sweep, SaveIndex, Ends, layoutVars, vars
    <3> QED BY <1>1, <2>3, <3>1 DEF IInv, TakenWhole
  <2> QED BY <1>1, <2>2, <2>3
<1> QED BY <1>1, Invariance, PTL DEF Spec, DeepestFirst

\* The removal of what describes something the store no longer holds is
\* never refused: what is kept without it is kept with it, and keeping a
\* tagged description keeps what it describes.
THEOREM RemovedModelsDescriptionsGo == Spec => []RemovedModelFreesDescriptions
<1>1. IInv => RemovedModelFreesDescriptions
  <2> SUFFICES ASSUME IInv, NEW n \in blobs, n \notin Kept(known),
                      NEW e \in Tagged, Describes(e), Subject(e) = n
               PROVE  ~Refused(e)
    BY DEF RemovedModelFreesDescriptions
  <2> DEFINE D == {d \in Tagged : Describes(d) /\ d \notin Kept(known)}
  <2>1. ASSUME NEW d \in Tagged, Describes(d), d \in Kept(known), Subject(d) \in blobs
        PROVE  Subject(d) \in Kept(known)
    <3>1. d \in Tagged \cap known /\ d \in blobs /\ Subject(d) # None
      BY <2>1 DEF IInv, Tagged, Describes, Subject
    <3>2. Subject(d) = SubjectOf(made, blobs, d)
      BY DEF Subject, SubjectOf
    <3> QED BY <2>1, <3>1, <3>2, Restated, KeptHoldsSubject DEF RestatedFacts
  <2>2. e \notin Kept(known)
    BY <2>1
  <2>3. {d \in Tagged : Describes(d) /\ Subject(d) \in {e} \cup D} \subseteq D
    BY <2>1, <2>2 DEF Describes
  <2>4. Along(e) \subseteq D
    BY <2>3 DEF Along
  <2>5. Kept(known \ ({e} \cup Along(e))) \subseteq Kept(known)
    BY Restated, KeptShrinks DEF RestatedFacts
  <2> QED BY <2>2, <2>4, <2>5 DEF Refused
<1> QED BY <1>1, Invariance, PTL

-----------------------------------------------------------------------------
(* The converse of the promise.                                            *)

\* Nothing stays that was not promised: no pass leaves a later one more to
\* keep than Held said at the start.
NothingElse ==
  /\ pc = "repair" => StillKept \cap blobs \subseteq promised
  /\ pc \in {"unlink", "unlinking", "purge", "collect"} =>
       StillLive \cap (blobs \ work) \subseteq promised
  /\ pc \in {"sweep", "collected"} => blobs \ work \subseteq promised

LEMMA NothingElseStep ==
  ASSUME IInv, NothingElse, [Next]_vars
  PROVE  NothingElse'
<1> USE DEF IInv
<1>1. CASE pc' \in {"idle", "taking", "untagged"}
  BY <1>1 DEF NothingElse
<1>2. CASE Collect
  <2>1. /\ pc' = "repair" /\ promised' = Kept(known) \cap blobs
        /\ made' = made /\ blobs' = blobs /\ known' = known /\ Tagged' = Tagged
        /\ work' = {}
    BY <1>2 DEF Collect, Goto, layoutVars, Tagged, InPass
  <2>2. blobs' \ work' = blobs /\ Tagged' \ work' = Tagged /\ known' \ work' = known
    BY <2>1
  <2>3. StillKept' = Kept(known)
    BY <2>1, <2>2, Restated DEF StillKept, RestatedFacts
  <2> QED BY <2>1, <2>3 DEF NothingElse
<1>3. CASE Repair
  <2>1. PICK n \in known \ blobs : Unindex(n) BY <1>3 DEF Repair
  <2>2. /\ pc = "repair" /\ pc' = pc /\ made' = made /\ blobs' = blobs
        /\ promised' = promised /\ work' = {} /\ work = {}
        /\ Tagged' = Tagged \ {n} /\ known' = known \ {n}
    BY <1>3, <2>1, UnindexTags DEF Repair, InPass, TypeOK
  <2>3. /\ blobs \ work = blobs /\ Tagged \ work = Tagged /\ known \ work = known
        /\ blobs' \ work' = blobs /\ Tagged' \ work' = Tagged \ {n}
        /\ known' \ work' = known \ {n}
    BY <2>2
  <2>4. StillKept' \subseteq StillKept
    BY <2>2, <2>3, KeptShrinks DEF StillKept
  <2> QED BY <2>2, <2>4 DEF NothingElse
<1>4. CASE Repaired
  <2>1. /\ pc = "repair" /\ pc' = "unlink"
        /\ work = {} /\ work' = Orphans /\ promised' = promised
        /\ made' = made /\ blobs' = blobs /\ known' = known /\ Tagged' = Tagged
    BY <1>4 DEF Repaired, Goto, layoutVars, Tagged, InPass
  <2>2. blobs \ work = blobs /\ Tagged \ work = Tagged /\ known \ work = known
    BY <2>1
  <2>3. Tagged \ Orphans
          \subseteq AnchorsOf(made, blobs, Tagged, known)
                      \cup (AdmittedOf(made, blobs, Tagged, known) \cap Tagged)
    BY Restated DEF Orphans, AnchorsOf, DescribesOf, Describes, RestatedFacts
  <2>4. LiveOf(made, blobs \ Orphans, Tagged \ Orphans, known \ Orphans)
          \subseteq KeptOf(made, blobs, Tagged, known)
    BY <2>3, LiveIsKept
  <2>5. StillLive' \subseteq StillKept
    BY <2>1, <2>2, <2>4 DEF StillLive, StillKept
  <2> QED BY <2>1, <2>5 DEF NothingElse
<1>5. ASSUME NEW r \in Refs, Unlink(r) PROVE NothingElse'
  <2>1. /\ pc = "unlink" /\ pc' = "unlinking" /\ work' = work /\ promised' = promised
        /\ made' = made /\ blobs' = blobs /\ known' = known
        /\ Tagged' \ work' = Tagged \ work
    BY <1>5, CollectorAssumption DEF Unlink, Goto, Tagged, TypeOK
  <2>2. StillLive' = StillLive
    BY <2>1 DEF StillLive
  <2> QED BY <2>1, <2>2 DEF NothingElse
<1>6. ASSUME NEW n \in work, NEW step, Delete(n, step), pc' # "idle",
             \/ pc = "unlinking" /\ step = "unlink"
             \/ pc = "purge" /\ step = "purge"
      PROVE  NothingElse'
  <2>1. /\ pc' = step /\ promised' = promised /\ StillLive' = StillLive
        /\ blobs' \ work' = blobs \ work
    BY <1>6, DeleteCondemned
  <2> QED BY <1>6, <2>1 DEF NothingElse
<1>7. CASE UnlinkDone
  <2>1. /\ pc = "unlink" /\ pc' = "purge" /\ work = {}
        /\ promised' = promised /\ made' = made /\ blobs' = blobs
        /\ known' = known /\ Tagged' = Tagged
    BY <1>7 DEF UnlinkDone, Goto, layoutVars, Tagged
  <2>2. StillLive' \subseteq StillLive
    BY <2>1, LiveShrinks DEF StillLive
  <2> QED BY <2>1, <2>2 DEF NothingElse
<1>8. CASE Forget
  <2>1. /\ pc = "purge" /\ pc' = "collect" /\ work = {} /\ work' = work
        /\ promised' = promised /\ made' = made /\ blobs' = blobs
        /\ known' \subseteq known /\ Tagged' = Tagged
    BY <1>8 DEF Forget, Goto, Tagged
  <2>2. StillLive' \subseteq StillLive
    BY <2>1, LiveShrinks DEF StillLive
  <2> QED BY <2>1, <2>2 DEF NothingElse
<1>9. CASE LayoutGC
  <2>1. /\ pc = "collect" /\ pc' = "sweep" /\ work = {} /\ work' = blobs \ Live
        /\ promised' = promised /\ blobs' = blobs
    BY <1>9 DEF LayoutGC, Goto, layoutVars, InPass
  <2>2. blobs \ work = blobs /\ Tagged \ work = Tagged /\ known \ work = known
    BY <2>1
  <2>3. Live = StillLive
    BY <2>2, Restated DEF StillLive, RestatedFacts
  <2> QED BY <2>1, <2>3 DEF NothingElse
<1>10. CASE Sweep
  <2>1. /\ pc = "sweep" /\ pc' = pc /\ blobs' \ work' = blobs \ work
        /\ promised' = promised
    BY <1>10 DEF Sweep
  <2> QED BY <2>1 DEF NothingElse
<1>11. CASE SaveIndex /\ pc' # "idle"
  <2>1. /\ pc = "sweep" /\ pc' = "collected" /\ work' = work
        /\ promised' = promised /\ blobs' = blobs
    BY <1>11 DEF SaveIndex, Stop, Goto
  <2> QED BY <2>1 DEF NothingElse
<1>12. CASE UNCHANGED vars
  <2>1. /\ made' = made /\ blobs' = blobs /\ known' = known /\ pc' = pc
        /\ work' = work /\ promised' = promised /\ Tagged' = Tagged
    BY <1>12 DEF vars, layoutVars, Tagged
  <2>2. StillKept' = StillKept /\ StillLive' = StillLive
    BY <2>1 DEF StillKept, StillLive
  <2> QED BY <2>1, <2>2 DEF NothingElse
<1>13. CASE Arrivals \/ Removal \/ Ends
  BY <1>1, <1>13 DEF Arrivals, PushBlob, PushManifest, Tag, Removal, Take, Untag,
    TakeAlong, TakeNamed, TakeDone, Delete, Ends, Goto, Stop
<1>14. CASE Unlinked
  <2>1. target \in work /\ pc = "unlinking" /\ Delete(target, "unlink")
    BY <1>14 DEF Unlinked, InPass
  <2> QED BY <1>1, <1>6, <2>1
<1>15. CASE Purge
  <2>1. pc = "purge" /\ \E n \in work : Delete(n, "purge")
    BY <1>15 DEF Purge
  <2> QED BY <1>1, <1>6, <2>1
<1> QED BY <1>1, <1>2, <1>3, <1>4, <1>5, <1>7, <1>8, <1>9, <1>10, <1>11, <1>12, <1>13,
  <1>14, <1>15 DEF Next, Collection

\* A collection that completes leaves what Held said it would keep, and
\* nothing else.
THEOREM CollectionReclaims == Spec => []UnheldIsReclaimed
<1>1. Init => NothingElse
  BY DEF Init, NothingElse
<1>2. IInv /\ NothingElse => UnheldIsReclaimed
  BY DEF IInv, InPass, PromiseKept, NothingElse, UnheldIsReclaimed, Passes
<1>3. IInv /\ NothingElse /\ [Next]_vars => NothingElse'
  BY NothingElseStep
<1> QED BY <1>1, <1>2, <1>3, Invariance, PTL DEF Spec
=============================================================================
