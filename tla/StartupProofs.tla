---------------------------- MODULE StartupProofs ----------------------------
(***************************************************************************)
(* What the first boots rely on, for any tree of files, any profiles and    *)
(* any number of writes that go wrong.                                      *)
(***************************************************************************)
EXTENDS Startup, SequenceTheorems, FiniteSetTheorems, TLAPS

------------------------------------------------------------------------------
(* copy_tree comes once to every file: what holds of its stack of calls.    *)

(* copy_tree searches directories of the disc.                              *)
Frame == [dir : Dirs, subdirs : Seq(Dirs), i : Nat]

Searches ==
    /\ frames \in Seq(Frame)
    /\ dta \in [dir : Dirs, n : Nat]
    /\ frames # <<>> => dta.n # 0 /\ step = "COPY"

(* What the search stands at is on the disc.                                *)
LEMMA FoundOnDisc ==
    ASSUME Searches, Searching
    PROVE  /\ Found \in Dirs \cup TreeFiles
           /\ dta.n \in 1 .. Len(Entries[dta.dir])
<1>1. dta.dir \in Dirs /\ dta.n \in 1 .. Len(Entries[dta.dir])
  BY InstallAssumption DEF Searches, Searching, InstallAssumption
<1>2. Found \in ToSet(Entries[dta.dir])
  BY <1>1, InstallAssumption DEF Found, ToSet, InstallAssumption
<1> DEFINE Listed == UNION {ToSet(Entries[d]) : d \in Dirs}
<1>3. ToSet(Entries[dta.dir]) \in {ToSet(Entries[d]) : d \in Dirs}
  BY <1>1
<1>4. Found \in Listed
  BY <1>2, <1>3
<1>5. TreeFiles = Listed \ Dirs
  BY DEF TreeFiles
<1> HIDE DEF Listed
<1>6. Found \in Dirs \cup TreeFiles
  BY <1>4, <1>5
<1> QED
  BY <1>1, <1>6

(* The frame on top, and the stack with another in its place.               *)
LEMMA TopFrame ==
    ASSUME Searches, frames # <<>>
    PROVE  /\ Top \in Frame /\ Len(frames) \in 1 .. Len(frames)
           /\ Front(frames) \in Seq(Frame)
           /\ \A f \in Frame : [frames EXCEPT ![Len(frames)] = f] \in Seq(Frame)
<1>1. Len(frames) \in Nat \ {0} /\ DOMAIN frames = 1 .. Len(frames)
  BY DEF Searches
<1>2. Top \in Frame /\ Front(frames) \in Seq(Frame)
  BY <1>1 DEF Searches, Top, Last, Front
<1> QED
  BY <1>1, <1>2 DEF Searches

LEMMA SearchesStep == Searches /\ InstallNext => Searches'
<1> SUFFICES ASSUME Searches, InstallNext PROVE Searches'
  OBVIOUS
<1> USE InstallAssumption DEF InstallAssumption
<1>0. \A s : Memory(s) => Searches'
  BY DEF Memory, NoSearch, Searches, Dirs
<1>1. CASE UNCHANGED <<frames, dta>> /\ (step # "COPY" \/ step' = step)
  BY <1>1 DEF Searches
<1>2. CASE FoundFile
  BY <1>2 DEF FoundFile, Searches
<1>3. CASE FoundDir
  <2>1. Found \in Dirs /\ frames # <<>>
    BY <1>3 DEF FoundDir, Searching
  <2>2. \E f \in Frame : SetTop(f)
    <3> DEFINE subs == IF Len(Top.subdirs) < MAX_SUBDIRS THEN Append(Top.subdirs, Found) ELSE Top.subdirs
    <3>1. Top \in Frame
      BY <2>1, TopFrame
    <3>2. subs \in Seq(Dirs)
      BY <2>1, <3>1 DEF Frame
    <3>3. [Top EXCEPT !.subdirs = subs] \in Frame
      BY <3>1, <3>2 DEF Frame
    <3>4. SetTop([Top EXCEPT !.subdirs = subs])
      BY <1>3 DEF FoundDir
    <3> QED
      BY <3>3, <3>4
  <2>3. frames' \in Seq(Frame) /\ frames' # <<>>
    BY <2>1, <2>2, TopFrame DEF SetTop
  <2>4. dta' = [dta EXCEPT !.n = dta.n + 1] /\ step' = step
    BY <1>3 DEF FoundDir
  <2>5. dta' \in [dir : Dirs, n : Nat] /\ dta'.n # 0
    <3>1. dta \in [dir : Dirs, n : Nat]
      BY DEF Searches
    <3>2. dta.n + 1 \in Nat /\ dta.n + 1 # 0
      BY <3>1
    <3> QED
      BY <2>4, <3>1, <3>2
  <2>6. step' = "COPY"
    BY <2>1, <2>4 DEF Searches
  <2> QED
    BY <2>3, <2>5, <2>6 DEF Searches
<1>4. CASE LoopEnds
  <2>1. \E f \in Frame : SetTop(f)
    BY <1>4, TopFrame DEF LoopEnds, Frame
  <2>2. frames' \in Seq(Frame)
    BY <1>4, <2>1, TopFrame DEF SetTop, LoopEnds
  <2> QED
    BY <1>4, <2>2 DEF LoopEnds, Searches
<1>5. CASE Descend
  <2>1. CASE frames = <<>>
    <3>1. frames' = <<Called(Root)>> /\ dta' = [dir |-> Root, n |-> 1] /\ step' = "COPY"
      BY <1>5, <2>1 DEF Descend
    <3>2. Called(Root) \in Frame
      BY DEF Called, Frame
    <3> QED
      BY <3>1, <3>2 DEF Searches
  <2>2. CASE frames # <<>>
    <3> DEFINE d == Top.subdirs[Top.i]
               g == [frames EXCEPT ![Len(frames)].i = @ + 1]
    <3>1. /\ Top.i \in 1 .. Len(Top.subdirs)
          /\ frames' = Append(g, Called(d)) /\ dta' = [dir |-> d, n |-> 1] /\ step' = "COPY"
      BY <1>5, <2>2 DEF Descend
    <3>2. Top \in Frame /\ d \in Dirs
      BY <2>2, <3>1, TopFrame DEF Frame
    <3>3. g = [frames EXCEPT ![Len(frames)] = [Top EXCEPT !.i = Top.i + 1]]
      BY <2>2, TopFrame DEF Top, Last
    <3>4. [Top EXCEPT !.i = Top.i + 1] \in Frame
      <4>1. Top.i + 1 \in Nat
        BY <3>2 DEF Frame
      <4> QED
        BY <3>2, <4>1 DEF Frame
    <3>5. g \in Seq(Frame)
      BY <2>2, <3>3, <3>4, TopFrame
    <3>6. Called(d) \in Frame
      BY <3>2 DEF Called, Frame
    <3> QED
      BY <3>1, <3>2, <3>5, <3>6 DEF Searches
  <2> QED
    BY <2>1, <2>2
<1>6. CASE Return
  <2>1. frames # <<>> /\ frames' = Front(frames) /\ dta' = dta
    BY <1>6 DEF Return
  <2>2. frames' # <<>> => step' = step
    BY <1>6 DEF Return, Searches, Front
  <2> QED
    BY <2>1, <2>2, TopFrame DEF Searches
<1> QED
  BY <1>0, <1>1, <1>2, <1>3, <1>4, <1>5, <1>6 DEF InstallNext, Screens, Preflight, Asked, Format,
     RemoveFlag, Bootstrap, Leave

Finding == frames # <<>> /\ Top.i = 0

(* A call of copy_tree: the directory is one that was entered; once its     *)
(* find loop is over it knows the directories it has room for, and it has   *)
(* called itself for those before its index.                                *)
FrameOK(k) ==
    /\ frames[k].dir \in visited
    /\ frames[k].i <= Len(frames[k].subdirs) + 1
    /\ k < Len(frames) => frames[k].i # 0
    /\ frames[k].i # 0 => ToSet(frames[k].subdirs) = Remembered(frames[k].dir)
    /\ \A m \in 1 .. Len(frames[k].subdirs) :
          /\ frames[k].subdirs[m] \in ToSet(Entries[frames[k].dir])
          /\ frames[k].subdirs[m] \in visited <=> m < frames[k].i
          /\ \A l \in 1 .. Len(frames[k].subdirs) :
                frames[k].subdirs[l] = frames[k].subdirs[m] => l = m

Stack ==
    /\ \A k \in 1 .. Len(frames) : FrameOK(k)
    /\ \A k, l \in 1 .. Len(frames) : frames[k].dir = frames[l].dir => k = l

(* The one search of DOS is that of the call on top, and what it lists has  *)
(* not been entered.                                                        *)
Before == Cardinality(SubdirsBefore(dta.dir, dta.n))

FindLoop ==
    Finding =>
        /\ dta.dir = Top.dir /\ dta.n \in 1 .. Len(Entries[dta.dir]) + 1
        /\ Len(Top.subdirs) = IF Before < MAX_SUBDIRS THEN Before ELSE MAX_SUBDIRS
        /\ ToSet(Top.subdirs) = FirstSubdirs(dta.dir, dta.n)
        /\ ToSet(Entries[dta.dir]) \cap visited = {}

(* A directory is entered from one that was, and left with all it           *)
(* remembered entered.                                                      *)
Through ==
    /\ visited \subseteq Dirs
    /\ \A d \in visited : d = Root \/ \E e \in visited : d \in ToSet(Entries[e])
    /\ \A d \in visited :
          (\E k \in 1 .. Len(frames) : frames[k].dir = d) \/ Remembered(d) \subseteq visited
    /\ frames # <<>> \/ step \in {"FLAG", "CONFIG", "AUTOEXEC", "DONE", "ERROR"} => Root \in visited

Passed(d, j) == d \in visited /\ ~ (Finding /\ dta.dir = d /\ dta.n <= j)

Tries ==
    /\ tried \in Seq(TreeFiles)
    /\ \A k, l \in 1 .. Len(tried) : tried[k] = tried[l] => k = l
    /\ \A d \in Dirs : \A j \in 1 .. Len(Entries[d]) :
          Entries[d][j] \notin Dirs => (Entries[d][j] \in ToSet(tried) <=> Passed(d, j))
    /\ g_files_done \in 0 .. Len(tried)

Unstarted ==
    frames = <<>> /\ step \in {"WELCOME", "PREFLIGHT", "CONFIRM", "FORMAT", "COPY", "exit"} =>
        tried = <<>> /\ visited = {}

CopyInv == Searches /\ Stack /\ FindLoop /\ Through /\ Tries /\ Unstarted

(* Each name is listed in one place, and the root in none.                  *)
LEMMA ListedOnce ==
    /\ \A d \in Dirs : Entries[d] \in Seq(STRING) /\ DOMAIN Entries[d] = 1 .. Len(Entries[d])
                       /\ Len(Entries[d]) \in Nat
    /\ \A d \in Dirs : \A x : x \in ToSet(Entries[d]) <=> \E j \in 1 .. Len(Entries[d]) : Entries[d][j] = x
    /\ \A d, e \in Dirs : \A x : x \in ToSet(Entries[d]) /\ x \in ToSet(Entries[e]) => d = e
    /\ \A d \in Dirs : Root \notin ToSet(Entries[d])
    /\ \A d \in Dirs, e \in Dirs : \A i \in 1 .. Len(Entries[d]), j \in 1 .. Len(Entries[e]) :
          Entries[d][i] = Entries[e][j] => d = e /\ i = j
<1>1. \A d \in Dirs : Entries[d] \in Seq(STRING) /\ DOMAIN Entries[d] = 1 .. Len(Entries[d])
                       /\ Len(Entries[d]) \in Nat
  BY InstallAssumption, LenProperties DEF InstallAssumption
<1>2. \A d \in Dirs : \A x : x \in ToSet(Entries[d]) <=> \E j \in 1 .. Len(Entries[d]) : Entries[d][j] = x
  BY <1>1 DEF ToSet
<1>3. \A d, e \in Dirs : \A x : x \in ToSet(Entries[d]) /\ x \in ToSet(Entries[e]) => d = e
  <2> SUFFICES ASSUME NEW d \in Dirs, NEW e \in Dirs, NEW x,
                      x \in ToSet(Entries[d]), x \in ToSet(Entries[e])
               PROVE  d = e
    OBVIOUS
  <2>1. PICK i \in DOMAIN Entries[d] : Entries[d][i] = x
    BY <1>1, <1>2
  <2>2. PICK j \in DOMAIN Entries[e] : Entries[e][j] = x
    BY <1>1, <1>2
  <2> QED
    BY <2>1, <2>2, InstallAssumption DEF InstallAssumption
<1>4. \A d \in Dirs, e \in Dirs : \A i \in 1 .. Len(Entries[d]), j \in 1 .. Len(Entries[e]) :
          Entries[d][i] = Entries[e][j] => d = e /\ i = j
  <2> SUFFICES ASSUME NEW d \in Dirs, NEW e \in Dirs,
                      NEW i \in DOMAIN Entries[d], NEW j \in DOMAIN Entries[e], Entries[d][i] = Entries[e][j]
               PROVE  d = e /\ i = j
    BY <1>1
  <2> QED
    BY InstallAssumption DEF InstallAssumption
<1> QED
  BY <1>1, <1>2, <1>3, <1>4, InstallAssumption DEF InstallAssumption

(* The stack with another frame on top, one more, and one less.             *)
LEMMA FrameReplaced ==
    ASSUME Searches, frames # <<>>, NEW f \in Frame, SetTop(f)
    PROVE  /\ Len(frames') = Len(frames) /\ frames' # <<>> /\ Top' = f
           /\ \A k \in 1 .. Len(frames) : frames'[k] = IF k = Len(frames) THEN f ELSE frames[k]
<1>1. Len(frames) \in Nat \ {0} /\ DOMAIN frames = 1 .. Len(frames)
  BY DEF Searches
<1>2. frames' \in Seq(Frame) /\ Len(frames') = Len(frames)
  BY <1>1, TopFrame DEF SetTop
<1>3. \A k \in 1 .. Len(frames) : frames'[k] = IF k = Len(frames) THEN f ELSE frames[k]
  BY <1>1 DEF SetTop
<1>4. Top' = frames'[Len(frames')]
  BY DEF Top, Last
<1>5. frames'[Len(frames')] = f
  <2>1. Len(frames) \in 1 .. Len(frames)
    BY <1>1
  <2>2. frames'[Len(frames)] = f
    BY <1>3, <2>1
  <2> QED
    BY <1>2, <2>2
<1>6. frames' # <<>>
  <2>1. Len(frames') # 0
    BY <1>1, <1>2
  <2> QED
    BY <2>1
<1> QED
  BY <1>2, <1>3, <1>4, <1>5, <1>6

LEMMA FramePushed ==
    ASSUME Searches, frames # <<>>, NEW d \in Dirs,
           frames' = Append([frames EXCEPT ![Len(frames)].i = @ + 1], Called(d))
    PROVE  /\ Len(frames') = Len(frames) + 1 /\ frames' # <<>> /\ Top' = Called(d)
           /\ \A k \in 1 .. Len(frames) :
                 frames'[k] = IF k = Len(frames) THEN [Top EXCEPT !.i = Top.i + 1] ELSE frames[k]
           /\ frames'[Len(frames) + 1] = Called(d)
<1> DEFINE g == [frames EXCEPT ![Len(frames)].i = @ + 1]
<1>1. Len(frames) \in Nat \ {0} /\ DOMAIN frames = 1 .. Len(frames)
  BY DEF Searches
<1>2. Top \in Frame
  BY TopFrame
<1>3. /\ g \in Seq(Frame) /\ Len(g) = Len(frames)
      /\ \A k \in 1 .. Len(frames) :
            g[k] = IF k = Len(frames) THEN [Top EXCEPT !.i = Top.i + 1] ELSE frames[k]
  <2>1. g = [frames EXCEPT ![Len(frames)] = [Top EXCEPT !.i = Top.i + 1]]
    BY <1>1 DEF Top, Last
  <2>2. [Top EXCEPT !.i = Top.i + 1] \in Frame
    <3>1. Top.i + 1 \in Nat
      BY <1>2 DEF Frame
    <3> QED
      BY <1>2, <3>1 DEF Frame
  <2>3. g \in Seq(Frame)
    BY <2>1, <2>2, TopFrame
  <2> QED
    BY <1>1, <2>1, <2>3
<1> HIDE DEF g
<1>4. frames' = Append(g, Called(d))
  BY DEF g
<1>5. Called(d) \in Frame
  BY DEF Called, Frame
<1>6. /\ Append(g, Called(d)) # <<>> /\ Len(Append(g, Called(d))) = Len(g) + 1
      /\ \A k \in 1 .. Len(g) : Append(g, Called(d))[k] = g[k]
      /\ Append(g, Called(d))[Len(g) + 1] = Called(d)
  BY <1>3, <1>5, AppendProperties
<1>7. /\ Len(frames') = Len(frames) + 1 /\ frames' # <<>>
      /\ \A k \in 1 .. Len(frames) : frames'[k] = g[k]
      /\ frames'[Len(frames) + 1] = Called(d)
  BY <1>3, <1>4, <1>6
<1>8. Top' = frames'[Len(frames')]
  BY DEF Top, Last
<1> QED
  BY <1>3, <1>7, <1>8

LEMMA FramePopped ==
    ASSUME Searches, frames # <<>>, frames' = Front(frames)
    PROVE  /\ Len(frames') = Len(frames) - 1
           /\ frames' = <<>> <=> Len(frames) = 1
           /\ \A k \in 1 .. (Len(frames) - 1) : frames'[k] = frames[k]
           /\ frames' # <<>> => Top' = frames[Len(frames) - 1]
<1>1. Len(frames) \in Nat \ {0} /\ DOMAIN frames = 1 .. Len(frames) /\ \A k \in 1 .. Len(frames) : frames[k] \in Frame
  BY DEF Searches
<1>2. /\ frames' \in Seq(Frame)
      /\ Len(frames') = Len(frames) - 1
      /\ \A k \in 1 .. (Len(frames) - 1) : frames'[k] = frames[k]
  BY <1>1, TopFrame DEF Front
<1>3. frames' = <<>> <=> Len(frames) = 1
  BY <1>1, <1>2
<1>4. Top' = frames'[Len(frames')]
  BY DEF Top, Last
<1> QED
  BY <1>1, <1>2, <1>3, <1>4

(* What the find loop has met, one entry further on.                        *)
LEMMA NextEntry ==
    ASSUME NEW d \in Dirs, NEW n \in 1 .. Len(Entries[d])
    PROVE  /\ Cardinality(SubdirsBefore(d, n)) \in Nat
           /\ Cardinality(SubdirsBefore(d, n + 1)) =
                 Cardinality(SubdirsBefore(d, n)) + (IF Entries[d][n] \in Dirs THEN 1 ELSE 0)
           /\ FirstSubdirs(d, n + 1) =
                 IF Entries[d][n] \in Dirs /\ Cardinality(SubdirsBefore(d, n)) < MAX_SUBDIRS
                 THEN FirstSubdirs(d, n) \cup {Entries[d][n]}
                 ELSE FirstSubdirs(d, n)
           /\ \A x \in FirstSubdirs(d, n) : x \in ToSet(Entries[d]) /\ x # Entries[d][n]
<1>1. n \in Nat /\ 1 <= n /\ n <= Len(Entries[d]) /\ Len(Entries[d]) \in Nat
  BY ListedOnce
<1>2. IsFiniteSet(SubdirsBefore(d, n)) /\ n \notin SubdirsBefore(d, n)
  <2>1. SubdirsBefore(d, n) \subseteq 1 .. (n - 1)
    BY DEF SubdirsBefore
  <2>2. IsFiniteSet(1 .. (n - 1))
    BY <1>1, FS_Interval
  <2> QED
    BY <1>1, <2>1, <2>2, FS_Subset
<1>3. SubdirsBefore(d, n + 1) =
        IF Entries[d][n] \in Dirs THEN SubdirsBefore(d, n) \cup {n} ELSE SubdirsBefore(d, n)
  <2>1. 1 .. ((n + 1) - 1) = (1 .. (n - 1)) \cup {n}
    BY <1>1
  <2> QED
    BY <2>1 DEF SubdirsBefore
<1>4. Cardinality(SubdirsBefore(d, n)) \in Nat
  BY <1>2, FS_CardinalityType
<1>5. Cardinality(SubdirsBefore(d, n + 1)) =
        Cardinality(SubdirsBefore(d, n)) + (IF Entries[d][n] \in Dirs THEN 1 ELSE 0)
  <2>1. Cardinality(SubdirsBefore(d, n) \cup {n}) = Cardinality(SubdirsBefore(d, n)) + 1
    BY <1>2, FS_AddElement
  <2> QED
    BY <1>3, <1>4, <2>1
<1>6. FirstSubdirs(d, n + 1) =
        IF Entries[d][n] \in Dirs /\ Cardinality(SubdirsBefore(d, n)) < MAX_SUBDIRS
        THEN FirstSubdirs(d, n) \cup {Entries[d][n]}
        ELSE FirstSubdirs(d, n)
  BY <1>3 DEF FirstSubdirs
<1>7. ASSUME NEW x \in FirstSubdirs(d, n) PROVE x \in ToSet(Entries[d]) /\ x # Entries[d][n]
  <2>1. PICK k \in 1 .. (n - 1) : x = Entries[d][k]
    BY DEF FirstSubdirs, SubdirsBefore
  <2>2. k \in 1 .. Len(Entries[d]) /\ k # n
    BY <1>1
  <2>3. x \in ToSet(Entries[d])
    BY <2>1, <2>2, ListedOnce
  <2>4. Entries[d][k] # Entries[d][n]
    BY <2>2, ListedOnce
  <2> QED
    BY <2>1, <2>3, <2>4
<1> QED
  BY <1>4, <1>5, <1>6, <1>7

LEMMA FoundFileKeeps == ASSUME CopyInv, FoundFile PROVE CopyInv'
<1> DEFINE d0 == dta.dir
           n == dta.n
<1>1. /\ Finding /\ d0 \in Dirs /\ n \in 1 .. Len(Entries[d0]) /\ Found = Entries[d0][n]
      /\ Found \notin Dirs /\ Found \in TreeFiles
  BY FoundOnDisc, InstallAssumption DEF FoundFile, Searching, Finding, Found, CopyInv, Searches, TreeFiles, InstallAssumption
<1>2. UNCHANGED <<step, frames, visited>> /\ tried' = Append(tried, Found)
  BY DEF FoundFile
<1>3. dta' = [dta EXCEPT !.n = n + 1] /\ dta'.dir = d0 /\ dta'.n = n + 1
  BY DEF FoundFile, CopyInv, Searches
<1>4. Searches'
  BY SearchesStep DEF CopyInv, InstallNext
<1>5. Stack'
  BY <1>2 DEF CopyInv, Stack, FrameOK
<1>6. d0 = Top.dir /\ d0 \in visited
  <2>1. Len(frames) \in 1 .. Len(frames) /\ Top = frames[Len(frames)]
    BY <1>1, TopFrame DEF CopyInv, Finding, Top, Last
  <2> QED
    BY <1>1, <2>1 DEF CopyInv, FindLoop, Stack, FrameOK
<1>7. Len(Entries[d0]) \in Nat
  BY <1>1, ListedOnce
<1>8. FindLoop'
  <2>1. /\ Cardinality(SubdirsBefore(d0, n + 1)) = Cardinality(SubdirsBefore(d0, n))
        /\ FirstSubdirs(d0, n + 1) = FirstSubdirs(d0, n)
    <3>1. Entries[d0][n] \notin Dirs
      BY <1>1
    <3>2. /\ Cardinality(SubdirsBefore(d0, n)) \in Nat
          /\ Cardinality(SubdirsBefore(d0, n + 1)) =
                Cardinality(SubdirsBefore(d0, n)) + (IF Entries[d0][n] \in Dirs THEN 1 ELSE 0)
      BY <1>1, NextEntry
    <3>3. FirstSubdirs(d0, n + 1) =
             IF Entries[d0][n] \in Dirs /\ Cardinality(SubdirsBefore(d0, n)) < MAX_SUBDIRS
             THEN FirstSubdirs(d0, n) \cup {Entries[d0][n]}
             ELSE FirstSubdirs(d0, n)
      BY <1>1, NextEntry
    <3> QED
      BY <3>1, <3>2, <3>3
  <2>2. Top' = Top
    BY <1>2 DEF Top
  <2>3. n + 1 \in 1 .. Len(Entries[d0]) + 1
    BY <1>1, <1>7
  <2> QED
    BY <1>1, <1>2, <1>3, <2>1, <2>2, <2>3 DEF CopyInv, FindLoop, Before
<1>9. Through'
  BY <1>2 DEF CopyInv, Through
<1>10. Tries'
  <2>1. tried \in Seq(TreeFiles) /\ Len(tried) \in Nat
    BY DEF CopyInv, Tries
  <2>2. /\ tried' \in Seq(TreeFiles) /\ Len(tried') = Len(tried) + 1
        /\ \A k \in 1 .. Len(tried) : tried'[k] = tried[k]
        /\ tried'[Len(tried) + 1] = Found
    <3>1. /\ Append(tried, Found) \in Seq(TreeFiles) /\ Len(Append(tried, Found)) = Len(tried) + 1
          /\ \A k \in 1 .. Len(tried) : Append(tried, Found)[k] = tried[k]
          /\ Append(tried, Found)[Len(tried) + 1] = Found
      BY <1>1, <2>1, AppendProperties
    <3> QED
      BY <1>2, <3>1
  <2>3. /\ \A x : x \in ToSet(tried) <=> \E k \in 1 .. Len(tried) : tried[k] = x
        /\ \A x : x \in ToSet(tried') <=> \E k \in 1 .. Len(tried') : tried'[k] = x
    BY <2>1, <2>2, LenProperties DEF ToSet
  <2>4. \A x : x \in ToSet(tried') <=> x \in ToSet(tried) \/ x = Found
    BY <2>1, <2>2, <2>3
  <2>5. Found \notin ToSet(tried)
    BY <1>1, <1>6 DEF CopyInv, Tries, Passed
  <2>6. \A k, l \in 1 .. Len(tried') : tried'[k] = tried'[l] => k = l
    <3> SUFFICES ASSUME NEW k \in 1 .. (Len(tried) + 1), NEW l \in 1 .. (Len(tried) + 1),
                        tried'[k] = tried'[l]
                 PROVE  k = l
      BY <2>2
    <3>1. \A m \in 1 .. Len(tried) : tried[m] # Found
      BY <2>3, <2>5
    <3>2. \A i, j \in 1 .. Len(tried) : tried[i] = tried[j] => i = j
      BY DEF CopyInv, Tries
    <3> QED
      BY <2>1, <2>2, <3>1, <3>2
  <2>7. ASSUME NEW d \in Dirs, NEW j \in 1 .. Len(Entries[d]), Entries[d][j] \notin Dirs
        PROVE  Entries[d][j] \in ToSet(tried') <=> Passed(d, j)'
    <3>1. Entries[d][j] \in ToSet(tried) <=> Passed(d, j)
      BY <2>7 DEF CopyInv, Tries
    <3>2. Entries[d][j] = Found <=> d = d0 /\ j = n
      BY <1>1, ListedOnce
    <3>3. Finding' /\ visited' = visited
      BY <1>1, <1>2 DEF Finding, Top
    <3>4. j \in Nat /\ n \in Nat
      BY <1>1, <1>7, ListedOnce
    <3>5. Passed(d, j)' <=> Passed(d, j) \/ (d = d0 /\ j = n)
      BY <1>1, <1>3, <1>6, <3>3, <3>4 DEF Passed
    <3> QED
      BY <2>4, <3>1, <3>2, <3>5
  <2>8. g_files_done' \in 0 .. Len(tried')
    BY <2>1, <2>2 DEF FoundFile, copy_file, CopyInv, Tries
  <2> QED
    BY <2>2, <2>6, <2>7, <2>8 DEF Tries
<1>11. Unstarted'
  BY <1>1, <1>2 DEF Unstarted, Finding
<1> QED
  BY <1>4, <1>5, <1>8, <1>9, <1>10, <1>11 DEF CopyInv

LEMMA FoundDirKeeps == ASSUME CopyInv, FoundDir PROVE CopyInv'
<1> DEFINE d0 == dta.dir
           n == dta.n
           top == [Top EXCEPT !.subdirs = IF Len(@) < MAX_SUBDIRS THEN Append(@, Found) ELSE @]
<1>1. /\ Finding /\ frames # <<>> /\ d0 \in Dirs /\ n \in 1 .. Len(Entries[d0])
      /\ Found = Entries[d0][n] /\ Found \in Dirs /\ Found \in ToSet(Entries[d0])
  <2>1. /\ Finding /\ frames # <<>> /\ d0 \in Dirs /\ n \in 1 .. Len(Entries[d0]) /\ Found \in Dirs
    BY FoundOnDisc DEF FoundDir, Searching, Finding, CopyInv, Searches
  <2> QED
    BY <2>1, ListedOnce DEF Found
<1>2. UNCHANGED <<step, visited, tried, g_files_done>> /\ SetTop(top)
  BY DEF FoundDir
<1>3. dta' = [dta EXCEPT !.n = n + 1] /\ dta'.dir = d0 /\ dta'.n = n + 1
  BY DEF FoundDir, CopyInv, Searches
<1>4. Searches'
  BY SearchesStep DEF CopyInv, InstallNext
<1>5. /\ Len(frames) \in Nat \ {0} /\ \A k \in 1 .. Len(frames) : frames[k] \in Frame
      /\ Top = frames[Len(frames)] /\ Top \in Frame /\ Top.i = 0 /\ d0 = Top.dir
  BY <1>1, TopFrame DEF CopyInv, Searches, Top, Last, Finding, FindLoop
<1>6. /\ top \in Frame /\ top.dir = d0 /\ top.i = 0
      /\ top.subdirs = IF Len(Top.subdirs) < MAX_SUBDIRS THEN Append(Top.subdirs, Found) ELSE Top.subdirs
  BY <1>1, <1>5 DEF Frame
<1> HIDE DEF top
<1>7. /\ Len(frames') = Len(frames) /\ frames' # <<>> /\ Top' = top
      /\ \A k \in 1 .. Len(frames) : frames'[k] = IF k = Len(frames) THEN top ELSE frames[k]
  BY <1>1, <1>2, <1>6, FrameReplaced DEF CopyInv
<1>8. Len(Entries[d0]) \in Nat /\ n \in Nat /\ MAX_SUBDIRS \in Nat
  BY <1>1, ListedOnce, InstallAssumption DEF InstallAssumption
<1>9. /\ Before \in Nat
      /\ Cardinality(SubdirsBefore(d0, n + 1)) = Before + 1
      /\ FirstSubdirs(d0, n + 1) =
            IF Before < MAX_SUBDIRS THEN FirstSubdirs(d0, n) \cup {Found} ELSE FirstSubdirs(d0, n)
      /\ Found \notin FirstSubdirs(d0, n)
  <2>1. /\ Cardinality(SubdirsBefore(d0, n)) \in Nat
        /\ Cardinality(SubdirsBefore(d0, n + 1)) =
              Cardinality(SubdirsBefore(d0, n)) + (IF Entries[d0][n] \in Dirs THEN 1 ELSE 0)
    BY <1>1, NextEntry
  <2>2. FirstSubdirs(d0, n + 1) =
           IF Entries[d0][n] \in Dirs /\ Cardinality(SubdirsBefore(d0, n)) < MAX_SUBDIRS
           THEN FirstSubdirs(d0, n) \cup {Entries[d0][n]}
           ELSE FirstSubdirs(d0, n)
    BY <1>1, NextEntry
  <2>3. \A x \in FirstSubdirs(d0, n) : x # Entries[d0][n]
    BY <1>1, NextEntry
  <2> QED
    BY <1>1, <2>1, <2>2, <2>3 DEF Before
<1>10. /\ Top.subdirs \in Seq(Dirs) /\ Len(Top.subdirs) \in Nat
       /\ Len(Top.subdirs) = IF Before < MAX_SUBDIRS THEN Before ELSE MAX_SUBDIRS
       /\ ToSet(Top.subdirs) = FirstSubdirs(d0, n)
       /\ ToSet(Entries[d0]) \cap visited = {}
  BY <1>1, <1>5 DEF CopyInv, FindLoop, Frame
<1>11. ASSUME Before < MAX_SUBDIRS PROVE Stack' /\ FindLoop'
  <2>1. top.subdirs = Append(Top.subdirs, Found)
    BY <1>6, <1>8, <1>9, <1>10, <1>11
  <2>2. /\ top.subdirs \in Seq(Dirs) /\ Len(top.subdirs) = Before + 1
        /\ \A m \in 1 .. Before : top.subdirs[m] = Top.subdirs[m]
        /\ top.subdirs[Before + 1] = Found
    BY <1>1, <1>10, <1>11, <2>1, AppendProperties
  <2>3. /\ \A x : x \in ToSet(Top.subdirs) <=> \E m \in 1 .. Before : Top.subdirs[m] = x
        /\ \A x : x \in ToSet(top.subdirs) <=> \E m \in 1 .. (Before + 1) : top.subdirs[m] = x
    BY <1>10, <1>11, <2>2, LenProperties DEF ToSet
  <2>4. ToSet(top.subdirs) = FirstSubdirs(d0, n + 1)
    <3>1. \A x : x \in ToSet(top.subdirs) <=> x \in ToSet(Top.subdirs) \/ x = Found
      BY <1>9, <2>2, <2>3
    <3> QED
      BY <1>9, <1>10, <1>11, <3>1
  <2>5. /\ \A m \in 1 .. Before :
              /\ Top.subdirs[m] \in ToSet(Entries[d0]) /\ Top.subdirs[m] # Found
              /\ \A l \in 1 .. Before : Top.subdirs[l] = Top.subdirs[m] => l = m
        /\ d0 \in visited
    <3>1. FrameOK(Len(frames))
      BY <1>5 DEF CopyInv, Stack
    <3>2. \A m \in 1 .. Before : Top.subdirs[m] \in FirstSubdirs(d0, n)
      BY <1>10, <2>3
    <3> QED
      BY <1>5, <1>9, <1>10, <1>11, <3>1, <3>2 DEF FrameOK
  <2>6. \A m \in 1 .. (Before + 1) :
           /\ top.subdirs[m] \in ToSet(Entries[d0]) /\ top.subdirs[m] \notin visited
           /\ \A l \in 1 .. (Before + 1) : top.subdirs[l] = top.subdirs[m] => l = m
    <3> SUFFICES ASSUME NEW m \in 1 .. (Before + 1)
                 PROVE  /\ top.subdirs[m] \in ToSet(Entries[d0]) /\ top.subdirs[m] \notin visited
                        /\ \A l \in 1 .. (Before + 1) : top.subdirs[l] = top.subdirs[m] => l = m
      OBVIOUS
    <3>1. CASE m \in 1 .. Before
      <4>1. top.subdirs[m] = Top.subdirs[m] /\ top.subdirs[m] # Found
        BY <2>2, <2>5, <3>1
      <4>2. \A l \in 1 .. (Before + 1) : top.subdirs[l] = top.subdirs[m] => l = m
        BY <1>9, <2>2, <2>5, <3>1, <4>1
      <4> QED
        BY <1>10, <2>5, <3>1, <4>1, <4>2
    <3>2. CASE m = Before + 1
      <4>1. \A l \in 1 .. Before : top.subdirs[l] # Found
        BY <2>2, <2>5
      <4> QED
        BY <1>1, <1>9, <1>10, <2>2, <3>2, <4>1
    <3> QED
      BY <1>9, <3>1, <3>2
  <2> QED
    <3>1. Stack'
      <4>1. ASSUME NEW k \in 1 .. Len(frames) PROVE FrameOK(k)'
        <5>1. CASE k = Len(frames)
          <6>1. frames'[k] = top /\ visited' = visited /\ Len(frames') = Len(frames)
            BY <1>2, <1>7, <5>1
          <6>2. \A m \in 1 .. Len(top.subdirs) : m \in Nat
            OBVIOUS
          <6>3. \A m \in 1 .. Len(top.subdirs) :
                   /\ top.subdirs[m] \in ToSet(Entries[top.dir])
                   /\ top.subdirs[m] \in visited <=> m < top.i
                   /\ \A l \in 1 .. Len(top.subdirs) : top.subdirs[l] = top.subdirs[m] => l = m
            BY <1>6, <1>9, <2>2, <2>6, <6>2
          <6>4. top.i = 0 /\ top.i <= Len(top.subdirs) + 1 /\ top.dir \in visited
            BY <1>6, <1>9, <2>2, <2>5
          <6>5. ~ (k < Len(frames))
            BY <1>5, <5>1
          <6> QED
            BY <6>1, <6>3, <6>4, <6>5 DEF FrameOK
        <5>2. CASE k # Len(frames)
          BY <1>2, <1>7, <5>2 DEF CopyInv, Stack, FrameOK
        <5> QED
          BY <5>1, <5>2
      <4>2. \A k \in 1 .. Len(frames) : frames'[k].dir = frames[k].dir
        BY <1>5, <1>6, <1>7
      <4> QED
        BY <1>7, <4>1, <4>2 DEF CopyInv, Stack
    <3>2. FindLoop'
      <4>1. n + 1 \in 1 .. Len(Entries[d0]) + 1
        BY <1>1, <1>8
      <4>2. Before' = Before + 1
        BY <1>3, <1>9 DEF Before
      <4>3. Len(top.subdirs) = IF Before' < MAX_SUBDIRS THEN Before' ELSE MAX_SUBDIRS
        BY <1>8, <1>9, <1>11, <2>2, <4>2
      <4> QED
        BY <1>2, <1>3, <1>6, <1>7, <1>10, <2>4, <4>1, <4>3 DEF FindLoop
    <3> QED
      BY <3>1, <3>2
<1>12. ASSUME ~ (Before < MAX_SUBDIRS) PROVE Stack' /\ FindLoop'
  <2>1. top.subdirs = Top.subdirs
    BY <1>6, <1>8, <1>9, <1>10, <1>12
  <2>2. \A k \in 1 .. Len(frames) :
           /\ frames'[k].dir = frames[k].dir /\ frames'[k].i = frames[k].i
           /\ frames'[k].subdirs = frames[k].subdirs
    BY <1>5, <1>6, <1>7, <2>1
  <2>3. Stack'
    <3>1. ASSUME NEW k \in 1 .. Len(frames) PROVE FrameOK(k)'
      <4>1. FrameOK(k)
        BY DEF CopyInv, Stack
      <4>2. /\ frames'[k].dir = frames[k].dir /\ frames'[k].i = frames[k].i
            /\ frames'[k].subdirs = frames[k].subdirs
        BY <2>2
      <4> QED
        BY <1>2, <1>7, <4>1, <4>2 DEF FrameOK
    <3> QED
      BY <1>7, <2>2, <3>1 DEF CopyInv, Stack
  <2>4. n + 1 \in 1 .. Len(Entries[d0]) + 1
    BY <1>1, <1>8
  <2>5. Before' = Before + 1
    BY <1>3, <1>9 DEF Before
  <2>6. Len(top.subdirs) = IF Before' < MAX_SUBDIRS THEN Before' ELSE MAX_SUBDIRS
    BY <1>8, <1>9, <1>10, <1>12, <2>1, <2>5
  <2>7. ToSet(top.subdirs) = FirstSubdirs(d0, n + 1)
    BY <1>9, <1>10, <1>12, <2>1
  <2>8. FindLoop'
    BY <1>2, <1>3, <1>6, <1>7, <1>10, <2>4, <2>6, <2>7 DEF FindLoop
  <2> QED
    BY <2>3, <2>8
<1>13. Through'
  <2>1. \A k \in 1 .. Len(frames) : frames'[k].dir = frames[k].dir
    BY <1>5, <1>6, <1>7
  <2> QED
    BY <1>1, <1>2, <1>7, <2>1 DEF CopyInv, Through
<1>14. Tries'
  <2>1. ASSUME NEW d \in Dirs, NEW j \in 1 .. Len(Entries[d]), Entries[d][j] \notin Dirs
        PROVE  Entries[d][j] \in ToSet(tried) <=> Passed(d, j)'
    <3>1. Entries[d][j] \in ToSet(tried) <=> Passed(d, j)
      BY <2>1 DEF CopyInv, Tries
    <3>2. ~ (d = d0 /\ j = n)
      BY <1>1, <2>1
    <3>3. Finding'
      BY <1>6, <1>7 DEF Finding
    <3>4. j \in Nat
      OBVIOUS
    <3>5. Passed(d, j)' <=> Passed(d, j)
      BY <1>1, <1>2, <1>3, <1>8, <3>2, <3>3, <3>4 DEF Passed
    <3> QED
      BY <3>1, <3>5
  <2> QED
    BY <1>2, <2>1 DEF CopyInv, Tries
<1>15. Unstarted'
  BY <1>7 DEF Unstarted
<1> QED
  BY <1>4, <1>11, <1>12, <1>13, <1>14, <1>15 DEF CopyInv

LEMMA LoopEndsKeeps == ASSUME CopyInv, LoopEnds PROVE CopyInv'
<1> DEFINE d0 == dta.dir
           n == dta.n
           top == [Top EXCEPT !.i = 1]
<1>1. Finding /\ frames # <<>> /\ d0 \in Dirs /\ n \in 1 .. Len(Entries[d0]) + 1 /\ ~ (n <= Len(Entries[d0]))
  BY DEF LoopEnds, Searching, Finding, CopyInv, Searches, FindLoop
<1>2. UNCHANGED <<step, visited, tried, g_files_done, dta>> /\ SetTop(top)
  BY DEF LoopEnds
<1>3. Searches'
  BY SearchesStep DEF CopyInv, InstallNext
<1>4. /\ Len(frames) \in Nat \ {0} /\ \A k \in 1 .. Len(frames) : frames[k] \in Frame
      /\ Top = frames[Len(frames)] /\ Top \in Frame /\ Top.i = 0 /\ d0 = Top.dir
  BY <1>1, TopFrame DEF CopyInv, Searches, Top, Last, Finding, FindLoop
<1>5. top \in Frame /\ top.dir = d0 /\ top.i = 1 /\ top.subdirs = Top.subdirs
  BY <1>4 DEF Frame
<1> HIDE DEF top
<1>6. /\ Len(frames') = Len(frames) /\ frames' # <<>> /\ Top' = top
      /\ \A k \in 1 .. Len(frames) : frames'[k] = IF k = Len(frames) THEN top ELSE frames[k]
  BY <1>1, <1>2, <1>5, FrameReplaced DEF CopyInv
<1>7. Len(Entries[d0]) \in Nat /\ n = Len(Entries[d0]) + 1
  BY <1>1, ListedOnce
<1>8. ToSet(top.subdirs) = Remembered(d0)
  BY <1>1, <1>4, <1>5, <1>7 DEF CopyInv, FindLoop, Remembered
<1>9. \A k \in 1 .. Len(frames) : frames'[k].dir = frames[k].dir /\ frames'[k].subdirs = frames[k].subdirs
  BY <1>4, <1>5, <1>6
<1>10. Stack'
  <2>1. ASSUME NEW k \in 1 .. Len(frames) PROVE FrameOK(k)'
    <3>1. FrameOK(k)
      BY DEF CopyInv, Stack
    <3>2. CASE k = Len(frames)
      <4>1. frames'[k] = top /\ frames[k] = Top /\ ~ (k < Len(frames))
        BY <1>4, <1>6, <3>2
      <4>2. Top.subdirs \in Seq(Dirs) /\ Len(Top.subdirs) \in Nat
        BY <1>4 DEF Frame
      <4>3. \A m \in 1 .. Len(Top.subdirs) : ~ (m < 0) /\ ~ (m < 1)
        BY <4>2
      <4>4. top.i <= Len(top.subdirs) + 1 /\ top.i # 0
        BY <1>5, <4>2
      <4> QED
        BY <1>2, <1>4, <1>5, <1>6, <1>8, <3>1, <4>1, <4>3, <4>4 DEF FrameOK
    <3>3. CASE k # Len(frames)
      BY <1>2, <1>6, <3>1, <3>3 DEF FrameOK
    <3> QED
      BY <3>2, <3>3
  <2> QED
    BY <1>6, <1>9, <2>1 DEF CopyInv, Stack
<1>11. ~ Finding'
  BY <1>5, <1>6 DEF Finding
<1>12. FindLoop' /\ Unstarted'
  BY <1>6, <1>11 DEF FindLoop, Unstarted
<1>13. Through'
  BY <1>1, <1>2, <1>6, <1>9 DEF CopyInv, Through
<1>14. Tries'
  <2>1. ASSUME NEW d \in Dirs, NEW j \in 1 .. Len(Entries[d]), Entries[d][j] \notin Dirs
        PROVE  Entries[d][j] \in ToSet(tried) <=> Passed(d, j)'
    <3>1. Entries[d][j] \in ToSet(tried) <=> Passed(d, j)
      BY <2>1 DEF CopyInv, Tries
    <3>2. ~ (d0 = d /\ n <= j)
      BY <1>7
    <3> QED
      BY <1>2, <1>11, <3>1, <3>2 DEF Passed
  <2> QED
    BY <1>2, <2>1 DEF CopyInv, Tries
<1> QED
  BY <1>3, <1>10, <1>12, <1>13, <1>14 DEF CopyInv

(* An empty find loop.                                                      *)
LEMMA NothingFound ==
    ASSUME NEW d \in Dirs
    PROVE  /\ Called(d) = [dir |-> d, subdirs |-> <<>>, i |-> 0]
           /\ Cardinality(SubdirsBefore(d, 1)) = 0 /\ FirstSubdirs(d, 1) = {} /\ ToSet(<<>>) = {}
           /\ 1 \in 1 .. Len(Entries[d]) + 1
<1>1. SubdirsBefore(d, 1) = {}
  BY DEF SubdirsBefore
<1>2. Cardinality(SubdirsBefore(d, 1)) = 0
  BY <1>1, FS_EmptySet
<1>3. FirstSubdirs(d, 1) = {}
  BY <1>1 DEF FirstSubdirs
<1>4. ToSet(<<>>) = {}
  BY DEF ToSet
<1>5. Len(Entries[d]) \in Nat
  BY ListedOnce
<1> QED
  BY <1>2, <1>3, <1>4, <1>5 DEF Called

LEMMA FirstCallKeeps == ASSUME CopyInv, Descend, frames = <<>> PROVE CopyInv'
<1>1. /\ step = "COPY" /\ frames' = <<Called(Root)>> /\ dta' = [dir |-> Root, n |-> 1] /\ visited' = {Root}
      /\ UNCHANGED <<step, g_files_done, tried>>
  BY DEF Descend
<1>2. Searches'
  BY SearchesStep DEF CopyInv, InstallNext
<1>3. Root \in Dirs
  BY InstallAssumption DEF InstallAssumption
<1>4. tried = <<>> /\ visited = {}
  BY <1>1 DEF CopyInv, Unstarted
<1>5. /\ Len(frames') = 1 /\ frames'[1] = Called(Root) /\ frames' # <<>> /\ Top' = Called(Root)
      /\ dta'.dir = Root /\ dta'.n = 1
  BY <1>1 DEF Top, Last
<1>6. /\ Called(Root).dir = Root /\ Called(Root).subdirs = <<>> /\ Called(Root).i = 0
  BY DEF Called
<1>7. Stack'
  BY <1>1, <1>5, <1>6 DEF Stack, FrameOK
<1>8. FindLoop'
  <2>1. Before' = 0
    BY <1>3, <1>5, NothingFound DEF Before
  <2>2. ToSet(Entries[Root]) \cap {Root} = {}
    BY <1>3, ListedOnce
  <2>3. 0 = IF 0 < MAX_SUBDIRS THEN 0 ELSE MAX_SUBDIRS
    BY InstallAssumption DEF InstallAssumption
  <2> QED
    BY <1>1, <1>3, <1>5, <1>6, <2>1, <2>2, <2>3, NothingFound DEF FindLoop
<1>9. Through'
  BY <1>1, <1>3, <1>5, <1>6 DEF Through
<1>10. Tries'
  <2>1. Finding'
    BY <1>5, <1>6 DEF Finding
  <2>2. ASSUME NEW d \in Dirs, NEW j \in 1 .. Len(Entries[d]) PROVE ~ Passed(d, j)' /\ Entries[d][j] \notin ToSet(tried)
    <3>1. d = Root => dta'.n <= j
      BY <1>5
    <3> QED
      BY <1>1, <1>3, <1>4, <1>5, <2>1, <3>1, NothingFound DEF Passed
  <2> QED
    BY <1>1, <2>2 DEF CopyInv, Tries
<1>11. Unstarted'
  BY <1>5 DEF Unstarted
<1> QED
  BY <1>2, <1>7, <1>8, <1>9, <1>10, <1>11 DEF CopyInv

LEMMA NextCallKeeps == ASSUME CopyInv, Descend, frames # <<>> PROVE CopyInv'
<1> DEFINE L == Len(frames)
           p == Top.dir
           d == Top.subdirs[Top.i]
           up == [Top EXCEPT !.i = Top.i + 1]
<1>1. /\ Top.i \in 1 .. Len(Top.subdirs) /\ dta' = [dir |-> d, n |-> 1] /\ visited' = visited \cup {d}
      /\ frames' = Append([frames EXCEPT ![Len(frames)].i = @ + 1], Called(d))
      /\ UNCHANGED <<step, g_files_done, tried>>
  BY DEF Descend
<1>2. Searches'
  BY SearchesStep DEF CopyInv, InstallNext
<1>3. /\ L \in Nat \ {0} /\ \A k \in 1 .. L : frames[k] \in Frame
      /\ Top = frames[L] /\ Top \in Frame
  BY TopFrame DEF CopyInv, Searches, Top, Last
<1>4. d \in Dirs /\ p \in Dirs /\ Top.subdirs \in Seq(Dirs) /\ Len(Top.subdirs) \in Nat /\ Top.i \in Nat
  BY <1>1, <1>3 DEF Frame
<1>5. up \in Frame /\ up.dir = p /\ up.i = Top.i + 1 /\ up.subdirs = Top.subdirs
  BY <1>3, <1>4 DEF Frame
<1> HIDE DEF up
<1>6. /\ Len(frames') = L + 1 /\ frames' # <<>> /\ Top' = Called(d)
      /\ \A k \in 1 .. L : frames'[k] = IF k = L THEN up ELSE frames[k]
      /\ frames'[L + 1] = Called(d)
  BY <1>1, <1>4, FramePushed DEF CopyInv, up
<1>7. FrameOK(L) /\ L \in 1 .. L
  BY <1>3 DEF CopyInv, Stack
<1>8. /\ p \in visited /\ d \notin visited /\ d \in ToSet(Entries[p]) /\ visited \subseteq Dirs
      /\ \A m \in 1 .. Len(Top.subdirs) : Top.subdirs[m] = d <=> m = Top.i
  <2>1. \A m \in 1 .. Len(Top.subdirs) :
           /\ Top.subdirs[m] \in ToSet(Entries[p])
           /\ Top.subdirs[m] \in visited <=> m < Top.i
           /\ \A l \in 1 .. Len(Top.subdirs) : Top.subdirs[l] = Top.subdirs[m] => l = m
    BY <1>3, <1>7 DEF FrameOK
  <2>2. p \in visited /\ visited \subseteq Dirs
    BY <1>3, <1>7 DEF FrameOK, CopyInv, Through
  <2> QED
    BY <1>1, <1>4, <2>1, <2>2
<1> HIDE DEF d
<1>9. /\ Called(d).dir = d /\ Called(d).subdirs = <<>> /\ Called(d).i = 0
      /\ dta'.dir = d /\ dta'.n = 1
  BY <1>1 DEF Called
<1>10. ~ Finding /\ Finding'
  BY <1>1, <1>6, <1>9 DEF Finding
<1>11. \A k \in 1 .. L : frames'[k].dir = frames[k].dir /\ frames'[k].subdirs = frames[k].subdirs
  BY <1>3, <1>5, <1>6
<1>12. Stack'
  <2>1. ASSUME NEW k \in 1 .. L, k # L PROVE FrameOK(k)'
    <3>1. FrameOK(k) /\ frames'[k] = frames[k] /\ k < L /\ k < L + 1
      BY <1>3, <1>6, <2>1 DEF CopyInv, Stack
    <3>2. frames[k].dir \in Dirs /\ frames[k].dir # p
      BY <1>3, <1>7, <2>1 DEF CopyInv, Stack, Frame
    <3>3. \A m \in 1 .. Len(frames[k].subdirs) : frames[k].subdirs[m] # d
      <4>1. \A m \in 1 .. Len(frames[k].subdirs) : frames[k].subdirs[m] \in ToSet(Entries[frames[k].dir])
        BY <3>1 DEF FrameOK
      <4>2. d \notin ToSet(Entries[frames[k].dir])
        BY <1>4, <1>8, <3>2, ListedOnce
      <4> QED
        BY <4>1, <4>2
    <3> QED
      BY <1>1, <1>6, <3>1, <3>3 DEF FrameOK
  <2>2. ASSUME NEW k \in 1 .. L, k = L PROVE FrameOK(k)'
    <3>1. frames'[k] = up /\ k < L + 1
      BY <1>3, <1>6, <1>7, <2>2
    <3>2. up.i <= Len(up.subdirs) + 1 /\ up.i # 0 /\ Top.i # 0
      BY <1>1, <1>4, <1>5
    <3>3. \A m \in 1 .. Len(Top.subdirs) : Top.subdirs[m] \in visited' <=> m < Top.i + 1
      <4>1. \A m \in 1 .. Len(Top.subdirs) : Top.subdirs[m] \in visited <=> m < Top.i
        BY <1>3, <1>7 DEF FrameOK
      <4> QED
        BY <1>1, <1>4, <1>8, <4>1
    <3>4. up.dir \in visited' /\ ToSet(up.subdirs) = Remembered(up.dir)
      BY <1>1, <1>3, <1>5, <1>7, <3>2 DEF FrameOK
    <3>5. \A m \in 1 .. Len(up.subdirs) :
             /\ up.subdirs[m] \in ToSet(Entries[up.dir])
             /\ up.subdirs[m] \in visited' <=> m < up.i
             /\ \A l \in 1 .. Len(up.subdirs) : up.subdirs[l] = up.subdirs[m] => l = m
      BY <1>3, <1>5, <1>7, <3>3 DEF FrameOK
    <3> QED
      BY <1>6, <3>1, <3>2, <3>4, <3>5 DEF FrameOK
  <2>3. ASSUME NEW k, k = L + 1 PROVE FrameOK(k)'
    <3>1. frames'[k] = Called(d) /\ ~ (k < L + 1) /\ Called(d).dir \in visited'
      BY <1>1, <1>3, <1>6, <1>9, <2>3
    <3>2. Len(Called(d).subdirs) = 0 /\ 0 <= 0 + 1 /\ 1 .. 0 = {}
      BY <1>9
    <3> QED
      BY <1>6, <1>9, <3>1, <3>2 DEF FrameOK
  <2>4. \A k \in 1 .. L : frames[k].dir # d
    BY <1>8 DEF CopyInv, Stack, FrameOK
  <2>5. \A k, l \in 1 .. L : frames[k].dir = frames[l].dir => k = l
    BY DEF CopyInv, Stack
  <2>6. \A k \in 1 .. (L + 1) : k \in 1 .. L \/ k = L + 1
    BY <1>3
  <2>7. \A k, l \in 1 .. (L + 1) : frames'[k].dir = frames'[l].dir => k = l
    BY <1>6, <1>9, <1>11, <2>4, <2>5, <2>6
  <2>8. ASSUME NEW k \in 1 .. (L + 1) PROVE FrameOK(k)'
    BY <2>1, <2>2, <2>3, <2>6
  <2> QED
    BY <1>6, <2>7, <2>8 DEF Stack
<1>13. ToSet(Entries[d]) \cap visited' = {}
  <2> SUFFICES ASSUME NEW x \in ToSet(Entries[d]), x \in visited' PROVE FALSE
    OBVIOUS
  <2>1. CASE x = d
    BY <1>4, <1>8, <2>1, ListedOnce
  <2>2. CASE x \in visited
    <3>1. x # Root
      BY <1>4, ListedOnce
    <3>2. PICK e \in visited : x \in ToSet(Entries[e])
      BY <2>2, <3>1 DEF CopyInv, Through
    <3>3. e = d
      BY <1>4, <1>8, <3>2, ListedOnce
    <3> QED
      BY <1>8, <3>2, <3>3
  <2> QED
    BY <1>1, <2>1, <2>2
<1>14. FindLoop'
  <2>1. Before' = 0
    BY <1>4, <1>9, NothingFound DEF Before
  <2>2. 0 = IF 0 < MAX_SUBDIRS THEN 0 ELSE MAX_SUBDIRS
    BY InstallAssumption DEF InstallAssumption
  <2> QED
    BY <1>4, <1>6, <1>9, <1>13, <2>1, <2>2, NothingFound DEF FindLoop
<1>15. Through'
  <2>1. \A x \in visited' : x = Root \/ \E e \in visited' : x \in ToSet(Entries[e])
    BY <1>1, <1>8 DEF CopyInv, Through
  <2>2. ASSUME NEW x \in visited' 
        PROVE  (\E k \in 1 .. Len(frames') : frames'[k].dir = x) \/ Remembered(x) \subseteq visited'
    <3>1. CASE x = d
      <4>1. L + 1 \in 1 .. Len(frames')
        BY <1>3, <1>6
      <4> QED
        BY <1>6, <1>9, <3>1, <4>1
    <3>2. CASE x \in visited
      <4>1. \A k \in 1 .. L : k \in 1 .. Len(frames')
        BY <1>3, <1>6
      <4> QED
        BY <1>1, <1>11, <3>2, <4>1 DEF CopyInv, Through
    <3> QED
      BY <1>1, <2>2, <3>1, <3>2
  <2> QED
    BY <1>1, <1>4, <1>8, <2>1, <2>2 DEF CopyInv, Through
<1>16. Tries'
  <2>1. ASSUME NEW x \in Dirs, NEW j \in 1 .. Len(Entries[x]), Entries[x][j] \notin Dirs
        PROVE  Entries[x][j] \in ToSet(tried) <=> Passed(x, j)'
    <3>1. Entries[x][j] \in ToSet(tried) <=> Passed(x, j)
      BY <2>1 DEF CopyInv, Tries
    <3>2. 1 <= j
      OBVIOUS
    <3> QED
      BY <1>1, <1>8, <1>9, <1>10, <3>1, <3>2 DEF Passed
  <2> QED
    BY <1>1, <2>1 DEF CopyInv, Tries
<1>17. Unstarted'
  BY <1>6 DEF Unstarted
<1> QED
  BY <1>2, <1>12, <1>14, <1>15, <1>16, <1>17 DEF CopyInv

LEMMA ReturnKeeps == ASSUME CopyInv, Return PROVE CopyInv'
<1> DEFINE L == Len(frames)
<1>1. /\ frames # <<>> /\ Top.i > Len(Top.subdirs) /\ frames' = Front(frames)
      /\ UNCHANGED <<dta, g_files_done, tried, visited>>
  BY DEF Return
<1>2. Searches'
  BY SearchesStep DEF CopyInv, InstallNext
<1>3. /\ L \in Nat \ {0} /\ \A k \in 1 .. L : frames[k] \in Frame
      /\ Top = frames[L] /\ Top \in Frame
  BY <1>1, TopFrame DEF CopyInv, Searches, Top, Last
<1>4. /\ Len(frames') = L - 1 /\ (frames' = <<>> <=> L = 1)
      /\ \A k \in 1 .. (L - 1) : frames'[k] = frames[k]
      /\ frames' # <<>> => Top' = frames[L - 1]
  BY <1>1, FramePopped DEF CopyInv
<1>5. Top.subdirs \in Seq(Dirs) /\ Len(Top.subdirs) \in Nat /\ Top.i \in Nat /\ Top.i # 0
  BY <1>1, <1>3 DEF Frame
<1>6. FrameOK(L) /\ L \in 1 .. L
  BY <1>3 DEF CopyInv, Stack
<1>7. Remembered(Top.dir) \subseteq visited
  <2>1. \A m \in 1 .. Len(Top.subdirs) : Top.subdirs[m] \in visited
    BY <1>1, <1>3, <1>5, <1>6 DEF FrameOK
  <2>2. ToSet(Top.subdirs) = Remembered(Top.dir)
    BY <1>3, <1>5, <1>6 DEF FrameOK
  <2>3. \A x \in ToSet(Top.subdirs) : \E m \in 1 .. Len(Top.subdirs) : x = Top.subdirs[m]
    BY <1>5, LenProperties DEF ToSet
  <2> QED
    BY <2>1, <2>2, <2>3
<1>8. \A k \in 1 .. (L - 1) : k \in 1 .. L /\ k < L /\ frames[k].i # 0
  BY <1>3 DEF CopyInv, Stack, FrameOK
<1>9. ~ Finding /\ ~ Finding'
  <2>1. frames' # <<>> => L - 1 \in 1 .. (L - 1)
    BY <1>3, <1>4
  <2> QED
    BY <1>4, <1>5, <1>8, <2>1 DEF Finding
<1>10. Stack'
  <2>1. ASSUME NEW k \in 1 .. (L - 1) PROVE FrameOK(k)'
    <3>1. FrameOK(k)
      BY <1>8 DEF CopyInv, Stack
    <3> QED
      BY <1>1, <1>4, <1>8, <3>1 DEF FrameOK
  <2>2. \A k, l \in 1 .. (L - 1) : frames'[k].dir = frames'[l].dir => k = l
    BY <1>4, <1>8 DEF CopyInv, Stack
  <2> QED
    BY <1>4, <2>1, <2>2 DEF Stack
<1>11. FindLoop'
  BY <1>9 DEF FindLoop
<1>12. Through'
  <2>1. ASSUME NEW x \in visited
        PROVE  (\E k \in 1 .. Len(frames') : frames'[k].dir = x) \/ Remembered(x) \subseteq visited
    <3>1. CASE Remembered(x) \subseteq visited
      BY <3>1
    <3>2. CASE ~ (Remembered(x) \subseteq visited)
      <4>1. PICK k \in 1 .. L : frames[k].dir = x
        BY <3>2 DEF CopyInv, Through
      <4>2. k # L
        BY <1>3, <1>7, <3>2, <4>1
      <4>3. k \in 1 .. (L - 1)
        BY <1>3, <4>2
      <4> QED
        BY <1>4, <4>1, <4>3
    <3> QED
      BY <3>1, <3>2
  <2> QED
    BY <1>1, <2>1 DEF CopyInv, Through
<1>13. Tries'
  BY <1>1, <1>9 DEF CopyInv, Tries, Passed
<1>14. Unstarted'
  <2>1. L = 1 => step' \in {"FLAG", "ERROR"}
    BY DEF Return
  <2> QED
    BY <1>4, <2>1 DEF Unstarted
<1> QED
  BY <1>2, <1>10, <1>11, <1>12, <1>13, <1>14 DEF CopyInv

(* A program that starts, or is gone, has copied nothing.                   *)
LEMMA MemoryKeeps ==
    ASSUME NEW s \in {"WELCOME", "exit"}, Memory(s)
    PROVE  CopyInv'
<1>1. /\ step' = s /\ frames' = <<>> /\ dta' = NoSearch /\ tried' = <<>> /\ visited' = {} /\ g_files_done' = 0
  BY DEF Memory
<1>2. Searches'
  BY <1>1, InstallAssumption DEF NoSearch, Searches, InstallAssumption
<1>3. Stack' /\ FindLoop' /\ Through' /\ Unstarted'
  BY <1>1 DEF Stack, FindLoop, Finding, Through, Unstarted
<1>4. Tries'
  BY <1>1, NothingFound DEF Tries, Passed, ToSet
<1> QED
  BY <1>2, <1>3, <1>4 DEF CopyInv

(* A screen or a step after the copy leaves copy_tree alone.                *)
LEMMA OtherStepKeeps ==
    ASSUME CopyInv, UNCHANGED <<frames, dta, tried, visited, g_files_done>>, frames = <<>>,
           step' \in {"FLAG", "CONFIG", "AUTOEXEC", "DONE", "ERROR"} =>
              step \in {"FLAG", "CONFIG", "AUTOEXEC", "DONE", "ERROR"},
           step' \in {"WELCOME", "PREFLIGHT", "CONFIRM", "FORMAT", "COPY", "exit"} =>
              step \in {"WELCOME", "PREFLIGHT", "CONFIRM", "FORMAT", "COPY", "exit"}
    PROVE  CopyInv'
<1>1. Searches' /\ Stack' /\ FindLoop' /\ Tries'
  BY DEF CopyInv, Searches, Stack, FrameOK, FindLoop, Finding, Before, Tries, Passed
<1> QED
  BY <1>1 DEF CopyInv, Through, Unstarted

LEMMA CopyStep == CopyInv /\ InstallNext => CopyInv'
<1> SUFFICES ASSUME CopyInv, InstallNext PROVE CopyInv'
  OBVIOUS
<1>0. step # "COPY" => frames = <<>>
  BY DEF CopyInv, Searches
<1>1. ASSUME NEW key, NEW now, NEW then, Asked(now, then, key),
             <<now, then>> \in {<<"WELCOME", "PREFLIGHT">>, <<"PREFLIGHT", "CONFIRM">>, <<"CONFIRM", "FORMAT">>}
      PROVE  CopyInv'
  BY <1>0, <1>1, MemoryKeeps, OtherStepKeeps DEF Asked
<1>2. ASSUME NEW key, Format(key) PROVE CopyInv'
  BY <1>0, <1>2, MemoryKeeps, OtherStepKeeps DEF Format
<1>3. CASE Screens
  BY <1>1, <1>2, <1>3 DEF Screens, Preflight
<1>4. CASE RemoveFlag
  BY <1>0, <1>4, OtherStepKeeps DEF RemoveFlag
<1>5. CASE Bootstrap("CONFIG.SYS", "CONFIG", "AUTOEXEC") \/ Bootstrap("AUTOEXEC.BAT", "AUTOEXEC", "DONE")
  BY <1>0, <1>5, OtherStepKeeps DEF Bootstrap
<1>6. CASE Leave
  BY <1>6, MemoryKeeps DEF Leave
<1> QED
  BY <1>3, <1>4, <1>5, <1>6, FoundFileKeeps, FoundDirKeeps, LoopEndsKeeps, FirstCallKeeps,
     NextCallKeeps, ReturnKeeps DEF InstallNext

LEMMA CopyInvMeans == CopyInv => EveryFileOnce
<1> SUFFICES ASSUME CopyInv, step \in {"FLAG", "ERROR"}
             PROVE  /\ IsInjective(tried)
                    /\ \A d \in visited :
                          /\ ToSet(Entries[d]) \ Dirs \subseteq ToSet(tried)
                          /\ Remembered(d) \subseteq visited
  BY DEF EveryFileOnce
<1>1. frames = <<>> /\ ~ Finding /\ Len(frames) = 0
  BY DEF CopyInv, Searches, Finding
<1>2. IsInjective(tried)
  BY LenProperties DEF CopyInv, Tries, IsInjective
<1>3. ASSUME NEW d \in visited PROVE ToSet(Entries[d]) \ Dirs \subseteq ToSet(tried) /\ Remembered(d) \subseteq visited
  <2>1. d \in Dirs
    BY DEF CopyInv, Through
  <2>2. ASSUME NEW x \in ToSet(Entries[d]), x \notin Dirs PROVE x \in ToSet(tried)
    <3>1. PICK j \in 1 .. Len(Entries[d]) : x = Entries[d][j]
      BY <2>1, ListedOnce
    <3> QED
      BY <1>1, <2>1, <2>2, <3>1 DEF CopyInv, Tries, Passed
  <2>3. Remembered(d) \subseteq visited
    BY <1>1 DEF CopyInv, Through
  <2> QED
    BY <2>2, <2>3
<1> QED
  BY <1>2, <1>3

------------------------------------------------------------------------------
(* The first boots.                                                         *)

(* The installer has its screens only while it runs; a command returns to   *)
(* the prompt or to AUTOEXEC.BAT.                                           *)
Screen ==
    /\ DOMAIN disk = File
    /\ step # "exit" => mode = "install"
    /\ mode = "mem_config" => call.target \in Profiles
    /\ call.back \in {"prompt", "batch"}

(* No guard while the installer still writes the files it vouches for, and  *)
(* DETECT has written each of them before it comes to the guard.            *)
Guarded ==
    /\ wiped /\ step \in Copying => disk["NOS-HW.CFG"] = "none"
    /\ mode \in {"autoexec", "hwcfg"} => disk["CONFIG.SYS"] \notin {"none", "boot"}
    /\ mode = "hwcfg" => disk["AUTOEXEC.BAT"] \notin {"none", "boot"}

(* The flag is gone before the installer says that it is done, and stays    *)
(* so until the welcome is left, where FORMAT or remove() could take it.    *)
Unwelcomed ==
    /\ wiped /\ step \in Copying => disk["WELCOMED"] = "none"
    /\ (fresh \/ step \in {"CONFIG", "AUTOEXEC"}) /\ (wiped \/ "WELCOMED" \notin blocked)
          => disk["WELCOMED"] = "none"

(* A DETECT that AUTOEXEC.BAT started goes on only if there was no guard,   *)
(* and reboots only when there is one.                                      *)
OneReboot ==
    /\ mode = "install" => loops = 0
    /\ loops = 1 => Exists("NOS-HW.CFG")
    /\ mode \in {"mtcp", "flag", "key"} => Exists("NOS-HW.CFG")
    /\ mode \in {"config", "autoexec", "hwcfg", "mtcp", "flag", "key"} /\ call.back = "batch"
          => loops = 0
    /\ mode \in {"mem_config", "mem_profile", "mem_key"} => call.back = "prompt"
    /\ loops \in {0, 1}

IInv ==
    /\ Screen /\ Searches /\ Guarded /\ Unwelcomed /\ OneReboot
    /\ WelcomeOnFirstBoot /\ GuardMeansConfigured /\ WelcomeStays

LEMMA Names ==
    /\ {"CONFIG.SYS", "AUTOEXEC.BAT", "NOS-HW.CFG", "MTCP.CFG", "PROFILE.DAT", "WELCOMED"} \subseteq File
    /\ {"NOS-HW.CFG", "WELCOMED"} \cap TreeFiles = {}
  BY InstallAssumption, StartupAssumption DEF InstallAssumption, StartupAssumption, File

(* One write changes one file, to what was meant or to a torn one.          *)
LEMMA WrittenChanges ==
    ASSUME NEW f \in File, NEW content, Written(f, content), DOMAIN disk = File
    PROVE  /\ DOMAIN disk' = File
           /\ disk'[f] \in {content, "torn"}
           /\ \A g \in File : g # f => disk'[g] = disk[g]
  BY DEF Written

LEMMA StartupInit == Init => IInv
<1> SUFFICES ASSUME Init PROVE IInv
  OBVIOUS
<1>1. step = "exit" /\ wiped = FALSE /\ mode = "off" /\ fresh = FALSE /\ loops = 0 /\ buffered = FALSE
  BY DEF Init, InstallInit
<1>2. DOMAIN disk = File
  BY DEF Init, InstallInit, Blank, Installed, InUse
<1>4. call.back = "prompt"
  BY DEF Init, NoCall
<1>3. Searches
  BY InstallAssumption DEF Init, InstallInit, NoSearch, Searches, InstallAssumption, Dirs
<1> QED
  BY <1>1, <1>2, <1>3, <1>4 DEF IInv, Screen, Guarded, Unwelcomed, OneReboot, WelcomeOnFirstBoot,
     GuardMeansConfigured, WelcomeStays, Copying

(* The installer writes no guard, and no flag but to remove it.             *)
LEMMA InstallKeepsGuard ==
    ASSUME IInv, InstallNext, step # "exit"
    PROVE  /\ DOMAIN disk' = File
           /\ disk'["NOS-HW.CFG"] \in {disk["NOS-HW.CFG"], "none"}
           /\ disk'["WELCOMED"] \in {disk["WELCOMED"], "none"}
           /\ step' \in Copying /\ wiped' =>
                 \/ disk'["NOS-HW.CFG"] = "none"
                 \/ step \in Copying /\ wiped
           /\ step' \in Copying /\ wiped' =>
                 \/ disk'["WELCOMED"] = "none"
                 \/ step \in Copying /\ wiped
           /\ wiped' /\ disk'["NOS-HW.CFG"] # "none" => wiped /\ disk' = disk
           /\ wiped' = wiped \/ step' = "COPY"
           /\ step' \in {"CONFIG", "AUTOEXEC", "DONE"} /\ (wiped' \/ "WELCOMED" \notin blocked)
                 => disk'["WELCOMED"] = "none"
<1> USE Names
<1>1. CASE Screens
  <2>1. CASE \E key : Format(key)
    BY <2>1 DEF Format, Memory, Blank, IInv, Screen, Copying
  <2>2. CASE /\ \A key : ~ Format(key)
             /\ \E key, now, then : Asked(now, then, key) /\ <<now, then>> \in
                   {<<"WELCOME", "PREFLIGHT">>, <<"PREFLIGHT", "CONFIRM">>, <<"CONFIRM", "FORMAT">>}
    BY <2>2 DEF Asked, Memory, IInv, Screen, Copying
  <2> QED
    BY <1>1, <2>1, <2>2 DEF Screens, Preflight
<1>2. CASE FoundFile
  <2>1. Found \in TreeFiles /\ Found \in File
    BY <1>2, FoundOnDisc DEF FoundFile, IInv, File
  <2>2. \A g \in File : g # Found => disk'[g] = disk[g]
    BY <1>2, <2>1 DEF FoundFile, copy_file, Written, Unopened, IInv, Screen
  <2>3. DOMAIN disk' = File
    BY <1>2, <2>1 DEF FoundFile, copy_file, Written, Unopened, IInv, Screen
  <2>4. frames # <<>> /\ UNCHANGED <<step, wiped>>
    BY <1>2 DEF FoundFile, Searching
  <2>5. step = "COPY"
    BY <2>4 DEF IInv, Searches
  <2> QED
    BY <2>1, <2>2, <2>3, <2>4, <2>5 DEF IInv, Guarded, Copying
<1>3. CASE FoundDir \/ LoopEnds \/ Descend \/ Return
  <2>1. frames # <<>> => step = "COPY"
    BY DEF IInv, Searches
  <2>2. UNCHANGED <<disk, wiped>> /\ step = "COPY" /\ step' \in {"COPY", "FLAG", "ERROR"}
    <3>1. CASE FoundDir \/ LoopEnds
      BY <2>1, <3>1 DEF FoundDir, LoopEnds, Searching
    <3>2. CASE Descend
      BY <3>2 DEF Descend
    <3>3. CASE Return
      BY <2>1, <3>3 DEF Return
    <3> QED
      BY <1>3, <3>1, <3>2, <3>3
  <2> QED
    BY <2>2 DEF IInv, Screen, Guarded, Copying
<1>4. CASE RemoveFlag
  BY <1>4 DEF RemoveFlag, Removed, IInv, Screen, Guarded, Unwelcomed, Copying
<1>5. CASE Bootstrap("CONFIG.SYS", "CONFIG", "AUTOEXEC") \/ Bootstrap("AUTOEXEC.BAT", "AUTOEXEC", "DONE")
  BY <1>5 DEF Bootstrap, Written, Unopened, IInv, Screen, Searches, Guarded, Unwelcomed, Copying
<1>6. CASE Leave
  BY <1>6 DEF Leave, Memory, IInv, Screen, Copying
<1> QED
  BY <1>1, <1>2, <1>3, <1>4, <1>5, <1>6 DEF InstallNext

(* A program that is gone takes no step.                                    *)
LEMMA InstallRuns == IInv /\ InstallNext => step # "exit"
<1> SUFFICES ASSUME IInv, InstallNext PROVE step # "exit"
  OBVIOUS
<1>1. frames # <<>> => step = "COPY"
  BY DEF IInv, Searches
<1> QED
  BY <1>1 DEF InstallNext, Screens, Preflight, Asked, Format, FoundFile, FoundDir, LoopEnds,
     Searching, Descend, Return, RemoveFlag, Bootstrap, Leave

LEMMA InstallingStep == IInv /\ Installing /\ blocked' = blocked => IInv'
<1> SUFFICES ASSUME IInv, Installing, blocked' = blocked PROVE IInv'
  OBVIOUS
<1> USE DEF Copying
<1>1. InstallNext /\ step # "exit" /\ mode = "install" /\ UNCHANGED <<call, buffered, loops>>
  BY InstallRuns DEF Installing
<1>2. Searches'
  BY <1>1, SearchesStep DEF IInv
<1>3. Screen'
  BY <1>1, InstallKeepsGuard DEF Installing, IInv, Screen
<1>4. Guarded' /\ GuardMeansConfigured'
  BY <1>1, InstallKeepsGuard DEF Installing, IInv, Guarded, GuardMeansConfigured, Exists
<1>5. Unwelcomed'
  <2>1. fresh' => step' = "DONE" \/ (fresh /\ step' # "COPY")
    BY DEF Installing
  <2>2. wiped' /\ step' \in Copying => disk'["WELCOMED"] = "none"
    BY <1>1, InstallKeepsGuard DEF IInv, Unwelcomed
  <2>3. fresh' /\ step' # "DONE" /\ (wiped' \/ "WELCOMED" \notin blocked) => disk'["WELCOMED"] = "none"
    BY <1>1, <2>1, InstallKeepsGuard DEF IInv, Unwelcomed
  <2>4. step' \in {"CONFIG", "AUTOEXEC", "DONE"} /\ (wiped' \/ "WELCOMED" \notin blocked)
          => disk'["WELCOMED"] = "none"
    BY <1>1, InstallKeepsGuard
  <2> QED
    BY <2>2, <2>3, <2>4 DEF Unwelcomed
<1>6. OneReboot' /\ WelcomeOnFirstBoot' /\ WelcomeStays'
  BY <1>1 DEF Installing, IInv, OneReboot, WelcomeOnFirstBoot, WelcomeStays, Exists
<1> QED
  BY <1>2, <1>3, <1>4, <1>5, <1>6 DEF IInv

(* One file of nos_genconf: written, and DETECT goes on, or left, and it    *)
(* ends.                                                                    *)
LEMMA GeneratedFile ==
    ASSUME IInv, NEW now, NEW tpl, NEW f \in File, NEW then, Generated(now, tpl, f, then)
    PROVE  /\ UNCHANGED <<Rest, call, buffered, fresh, loops>> /\ mode = now
           /\ DOMAIN disk' = File
           /\ \A g \in File : g # f => disk'[g] = disk[g]
           /\ \/ mode' = then /\ disk'[f] \in {"gen", "torn"}
              \/ mode' = call.back /\ disk'[f] = disk[f]
<1>1. UNCHANGED <<Rest, call, buffered, fresh, loops>> /\ mode = now
  BY DEF Generated
<1>2. CASE mode' = call.back /\ UNCHANGED disk
  BY <1>1, <1>2 DEF IInv, Screen
<1>3. CASE mode' = then /\ Written(f, IF Intact(tpl) THEN "gen" ELSE "torn")
  BY <1>1, <1>3, WrittenChanges DEF IInv, Screen
<1> QED
  BY <1>1, <1>2, <1>3 DEF Generated, Unopened

LEMMA GenconfStep == IInv /\ nos_genconf /\ blocked' = blocked => IInv'
<1> SUFFICES ASSUME IInv, nos_genconf, blocked' = blocked PROVE IInv'
  OBVIOUS
<1> USE Names DEF Copying, Exists
<1>1. CASE Generated("config", "CONFIG.TPL", "CONFIG.SYS", "autoexec")
  <2>1. /\ UNCHANGED <<Rest, call, buffered, fresh, loops>> /\ mode = "config"
        /\ DOMAIN disk' = File
        /\ \A g \in File : g # "CONFIG.SYS" => disk'[g] = disk[g]
        /\ \/ mode' = "autoexec" /\ disk'["CONFIG.SYS"] \in {"gen", "torn"}
           \/ mode' = call.back /\ disk'["CONFIG.SYS"] = disk["CONFIG.SYS"]
    BY <1>1, GeneratedFile
  <2> QED
    BY <2>1 DEF Rest, IInv, Screen, Searches, Guarded, Unwelcomed, OneReboot,
       WelcomeOnFirstBoot, GuardMeansConfigured, WelcomeStays
<1>2. CASE Generated("autoexec", "AUTOEXEC.TPL", "AUTOEXEC.BAT", "hwcfg")
  <2>1. /\ UNCHANGED <<Rest, call, buffered, fresh, loops>> /\ mode = "autoexec"
        /\ DOMAIN disk' = File
        /\ \A g \in File : g # "AUTOEXEC.BAT" => disk'[g] = disk[g]
        /\ \/ mode' = "hwcfg" /\ disk'["AUTOEXEC.BAT"] \in {"gen", "torn"}
           \/ mode' = call.back /\ disk'["AUTOEXEC.BAT"] = disk["AUTOEXEC.BAT"]
    BY <1>2, GeneratedFile
  <2> QED
    BY <2>1 DEF Rest, IInv, Screen, Searches, Guarded, Unwelcomed, OneReboot,
       WelcomeOnFirstBoot, GuardMeansConfigured, WelcomeStays
<1>3. CASE write_hwcfg("mtcp")
  <2>1. /\ UNCHANGED <<Rest, call, buffered, fresh, loops>> /\ mode = "hwcfg"
        /\ \/ Written("NOS-HW.CFG", "gen") /\ mode' = "mtcp"
           \/ UNCHANGED disk /\ mode' = call.back
    BY <1>3 DEF write_hwcfg, Unopened
  <2>2. CASE Written("NOS-HW.CFG", "gen") /\ mode' = "mtcp"
    BY <2>1, <2>2, WrittenChanges DEF Rest, IInv, Screen, Searches, Guarded, Unwelcomed, OneReboot,
       WelcomeOnFirstBoot, GuardMeansConfigured, WelcomeStays
  <2>3. CASE UNCHANGED disk /\ mode' = call.back
    BY <2>1, <2>3 DEF Rest, IInv, Screen, Searches, Guarded, Unwelcomed, OneReboot,
       WelcomeOnFirstBoot, GuardMeansConfigured, WelcomeStays
  <2> QED
    BY <2>1, <2>2, <2>3
<1> QED
  BY <1>1, <1>2, <1>3 DEF nos_genconf

(* The last files of DETECT and those of NOSMEM.                            *)
LEMMA WriteStep ==
    ASSUME IInv, blocked' = blocked,
           write_mtcpcfg \/ RemoveWelcomed \/ write_config_sys \/ write_profile
    PROVE  IInv'
<1> USE Names DEF Copying, Exists
<1>1. ASSUME IInv, write_mtcpcfg PROVE IInv'
  <2>1. UNCHANGED <<Rest, call, buffered, fresh, loops>> /\ mode = "mtcp" /\ mode' \in {call.back, "flag"}
    BY <1>1 DEF write_mtcpcfg
  <2>2. DOMAIN disk' = File /\ \A g \in File : g # "MTCP.CFG" => disk'[g] = disk[g]
    BY <1>1, WrittenChanges DEF write_mtcpcfg, IInv, Screen
  <2> QED
    BY <1>1, <2>1, <2>2 DEF Rest, IInv, Screen, Searches, Guarded, Unwelcomed, OneReboot,
       WelcomeOnFirstBoot, GuardMeansConfigured, WelcomeStays
<1>2. ASSUME IInv, RemoveWelcomed PROVE IInv'
  BY <1>2 DEF RemoveWelcomed, Removed, Rest, IInv, Screen, Searches, Guarded, Unwelcomed, OneReboot,
     WelcomeOnFirstBoot, GuardMeansConfigured, WelcomeStays
<1>3. ASSUME IInv, write_config_sys PROVE IInv'
  <2>1. UNCHANGED <<Rest, call, buffered, fresh, loops>> /\ mode = "mem_config"
    BY <1>3 DEF write_config_sys
  <2>2. call.target \notin {"none", "boot"}
    BY <1>3, <2>1, StartupAssumption DEF StartupAssumption, IInv, Screen
  <2>3. CASE Written("CONFIG.SYS", call.target) /\ mode' = "mem_profile"
    BY <1>3, <2>1, <2>2, <2>3, WrittenChanges DEF Rest, IInv, Screen, Searches, Guarded, Unwelcomed,
       OneReboot, WelcomeOnFirstBoot, GuardMeansConfigured, WelcomeStays
  <2>4. CASE UNCHANGED disk /\ mode' = call.back
    BY <1>3, <2>1, <2>4 DEF Rest, IInv, Screen, Searches, Guarded, Unwelcomed,
       OneReboot, WelcomeOnFirstBoot, GuardMeansConfigured, WelcomeStays
  <2> QED
    BY <1>3, <2>3, <2>4 DEF write_config_sys, Unopened
<1>4. ASSUME IInv, write_profile PROVE IInv'
  <2>1. UNCHANGED <<Rest, call, buffered, fresh, loops>> /\ mode = "mem_profile" /\ mode' \in {call.back, "mem_key"}
    BY <1>4 DEF write_profile
  <2>2. DOMAIN disk' = File /\ \A g \in File : g # "PROFILE.DAT" => disk'[g] = disk[g]
    BY <1>4, WrittenChanges DEF write_profile, Unopened, IInv, Screen
  <2> QED
    BY <1>4, <2>1, <2>2 DEF Rest, IInv, Screen, Searches, Guarded, Unwelcomed, OneReboot,
       WelcomeOnFirstBoot, GuardMeansConfigured, WelcomeStays
<1> QED
  BY <1>1, <1>2, <1>3, <1>4

(* What runs changes; the files stay.                                       *)
LEMMA MachineStep ==
    ASSUME IInv, UNCHANGED <<disk, wiped, blocked>>,
           BootDisc \/ PowerCut \/ KeyTyped \/ BootDisk \/ BatchGoesOn \/ ShellLeft \/ Typed
             \/ hwcfg_exists \/ Reboot
    PROVE  IInv'
<1> USE DEF Copying, Exists
<1>0. \A s : Memory(s) => Searches'
  BY InstallAssumption DEF InstallAssumption, Memory, NoSearch, Searches, Dirs
<1>1. CASE BootDisc
  BY <1>0, <1>1 DEF BootDisc, Memory, IInv, Screen, Guarded, Unwelcomed, OneReboot,
     WelcomeOnFirstBoot, GuardMeansConfigured, WelcomeStays
<1>2. CASE PowerCut
  BY <1>0, <1>2 DEF PowerCut, Memory, NoCall, IInv, Screen, Guarded, Unwelcomed, OneReboot,
     WelcomeOnFirstBoot, GuardMeansConfigured, WelcomeStays
<1> USE DEF installVars
<1>3. CASE KeyTyped
  BY <1>3 DEF KeyTyped, IInv, Screen, Searches, Guarded, Unwelcomed, OneReboot,
     WelcomeOnFirstBoot, GuardMeansConfigured, WelcomeStays
<1>4. CASE BootDisk
  BY <1>4 DEF BootDisk, NoCall, IInv, Screen, Searches, Guarded, Unwelcomed, OneReboot,
     WelcomeOnFirstBoot, GuardMeansConfigured, WelcomeStays
<1>5. CASE BatchGoesOn
  BY <1>5 DEF BatchGoesOn, StartShell, NoCall, IInv, Screen, Searches, Guarded, Unwelcomed, OneReboot,
     WelcomeOnFirstBoot, GuardMeansConfigured, WelcomeStays
<1>6. CASE ShellLeft
  BY <1>6 DEF ShellLeft, IInv, Screen, Searches, Guarded, Unwelcomed, OneReboot,
     WelcomeOnFirstBoot, GuardMeansConfigured, WelcomeStays
<1>7. CASE Typed
  <2>1. UNCHANGED <<installVars, fresh>> /\ loops' = 0 /\ mode = "prompt"
    BY <1>7 DEF Typed
  <2>2. /\ call'.back = "prompt"
        /\ \/ mode' \in {"config", "detect"} /\ UNCHANGED buffered
           \/ mode' = "mem_config" /\ call'.target \in Profiles /\ UNCHANGED buffered
           \/ mode' = "welcome" /\ buffered' = FALSE
           \/ mode' = "shell" /\ disk["WELCOMED"] # "none" /\ UNCHANGED buffered
    <3>1. CASE StartShell
      BY <3>1 DEF StartShell, NoCall
    <3>2. CASE \E noreboot, force \in BOOLEAN :
                 /\ mode' = IF force THEN "config" ELSE "detect"
                 /\ call' = [NoCall EXCEPT !.noreboot = noreboot] /\ UNCHANGED buffered
      BY <3>2 DEF NoCall
    <3>3. CASE \E noreboot \in BOOLEAN, p \in Profiles :
                 /\ mode' = "mem_config"
                 /\ call' = [NoCall EXCEPT !.noreboot = noreboot, !.target = p] /\ UNCHANGED buffered
      BY <3>3 DEF NoCall
    <3> QED
      BY <1>7, <3>1, <3>2, <3>3 DEF Typed
  <2> QED
    BY <2>1, <2>2 DEF IInv, Screen, Searches, Guarded, Unwelcomed, OneReboot,
       WelcomeOnFirstBoot, GuardMeansConfigured, WelcomeStays
<1>8. CASE hwcfg_exists
  BY <1>8 DEF hwcfg_exists, IInv, Screen, Searches, Guarded, Unwelcomed, OneReboot,
     WelcomeOnFirstBoot, GuardMeansConfigured, WelcomeStays
<1>9. CASE Reboot
  BY <1>9 DEF Reboot, NoCall, IInv, Screen, Searches, Guarded, Unwelcomed, OneReboot,
     WelcomeOnFirstBoot, GuardMeansConfigured, WelcomeStays
<1> QED
  BY <1>1, <1>2, <1>3, <1>4, <1>5, <1>6, <1>7, <1>8, <1>9

LEMMA WelcomeLeftStep == IInv /\ WelcomeLeft /\ blocked' = blocked => IInv'
<1> SUFFICES ASSUME IInv, WelcomeLeft, blocked' = blocked PROVE IInv'
  OBVIOUS
<1>1. UNCHANGED <<Rest, call, buffered, loops>> /\ mode = "welcome" /\ mode' = "shell" /\ fresh' = FALSE
  BY DEF WelcomeLeft
<1>2. DOMAIN disk' = File /\ \A g \in File : g # "WELCOMED" => disk'[g] = disk[g]
  BY Names, WrittenChanges DEF WelcomeLeft, Unopened, IInv, Screen
<1> QED
  BY <1>1, <1>2, Names DEF Rest, IInv, Screen, Searches, Guarded, Unwelcomed, OneReboot, Copying, Exists,
     WelcomeOnFirstBoot, GuardMeansConfigured, WelcomeStays

LEMMA StartupStep == IInv /\ [Next]_vars => IInv'
<1> SUFFICES ASSUME IInv, [Next]_vars PROVE IInv'
  OBVIOUS
<1>1. CASE UNCHANGED vars
  BY <1>1 DEF vars, installVars, IInv, Screen, Searches, Guarded, Unwelcomed, OneReboot, Copying, Exists,
     WelcomeOnFirstBoot, GuardMeansConfigured, WelcomeStays
<1>2. CASE Moves /\ UNCHANGED blocked
  <2>1. BootDisc \/ PowerCut \/ KeyTyped \/ BootDisk \/ BatchGoesOn \/ ShellLeft \/ Typed
          \/ hwcfg_exists \/ Reboot => UNCHANGED <<disk, wiped>>
    BY DEF BootDisc, PowerCut, KeyTyped, BootDisk, BatchGoesOn, ShellLeft, Typed, hwcfg_exists,
       Reboot, installVars
  <2> QED
    BY <1>2, <2>1, InstallingStep, GenconfStep, WriteStep, MachineStep, WelcomeLeftStep DEF Moves
<1> QED
  BY <1>1, <1>2 DEF Next

LEMMA StartupInvariant == Spec => []IInv
  BY StartupInit, StartupStep, PTL DEF Spec

(* The guard of the first boot is honest: on a formatted drive NOS-HW.CFG   *)
(* is there only if DETECT, or NOSMEM after it, has replaced the start-up   *)
(* files of the disc, wherever the power went and whatever failed.          *)
THEOREM StartupGuard == Spec => []GuardMeansConfigured
<1>1. IInv => GuardMeansConfigured
  BY DEF IInv
<1> QED
  BY StartupInvariant, <1>1, PTL

(* Nobody gets into the shell of a new installation past the welcome, but   *)
(* by a read-only flag on a drive that was not formatted.                   *)
THEOREM StartupWelcomeOnFirstBoot == Spec => []WelcomeOnFirstBoot
<1>1. IInv => WelcomeOnFirstBoot
  BY DEF IInv
<1> QED
  BY StartupInvariant, <1>1, PTL

(* A key typed before the welcome does not leave it: the BIOS buffer is     *)
(* empty whenever the welcome waits.                                        *)
THEOREM StartupWelcomeStays == Spec => []WelcomeStays
<1>1. IInv => WelcomeStays
  BY DEF IInv
<1> QED
  BY StartupInvariant, <1>1, PTL

(* A machine whose AUTOEXEC.BAT starts DETECT reboots by itself once at the *)
(* most.                                                                    *)
THEOREM StartupNoRebootLoop == Spec => []NoRebootLoop
<1>1. IInv => NoRebootLoop
  BY DEF IInv, OneReboot, NoRebootLoop
<1> QED
  BY StartupInvariant, <1>1, PTL

------------------------------------------------------------------------------
(* copy_tree in the machine that runs it.                                   *)

copyVars == <<step, frames, dta, tried, visited, g_files_done>>

LEMMA CopyUnchanged == CopyInv /\ UNCHANGED copyVars => CopyInv'
  BY DEF copyVars, CopyInv, Searches, Stack, FrameOK, FindLoop, Finding, Before, Through, Tries,
     Passed, Unstarted, Top

(* Who touches the variables of the installer.                              *)
LEMMA CopyVarsChange ==
    ASSUME Next
    PROVE  \/ UNCHANGED copyVars
           \/ \E s \in {"WELCOME", "exit"} : Memory(s)
           \/ Installing
  BY DEF Next, Moves, copyVars, BootDisc, PowerCut, KeyTyped, BootDisk, BatchGoesOn, WelcomeLeft,
     ShellLeft, Typed, hwcfg_exists, nos_genconf, Generated, write_hwcfg, write_mtcpcfg,
     RemoveWelcomed, write_config_sys, write_profile, Reboot, installVars, Rest

LEMMA CopyInvariant == Spec => []CopyInv
<1>1. Init => CopyInv
  <2> SUFFICES ASSUME Init PROVE CopyInv
    OBVIOUS
  <2>1. /\ step = "exit" /\ frames = <<>> /\ dta = NoSearch /\ tried = <<>> /\ visited = {} /\ g_files_done = 0
    BY DEF Init, InstallInit
  <2>2. Searches
    BY <2>1, InstallAssumption DEF NoSearch, Searches, InstallAssumption
  <2>3. Stack /\ FindLoop /\ Through /\ Unstarted
    BY <2>1 DEF Stack, FindLoop, Finding, Through, Unstarted
  <2>4. Tries
    BY <2>1, NothingFound DEF Tries, Passed, ToSet
  <2> QED
    BY <2>2, <2>3, <2>4 DEF CopyInv
<1>2. CopyInv /\ [Next]_vars => CopyInv'
  <2>1. UNCHANGED vars => UNCHANGED copyVars
    BY DEF vars, installVars, copyVars
  <2>2. Installing => InstallNext
    BY DEF Installing
  <2> QED
    BY <2>1, <2>2, CopyUnchanged, CopyVarsChange, MemoryKeeps, CopyStep
<1> QED
  BY <1>1, <1>2, PTL DEF Spec

(* copy_tree comes once to every file of every directory that it has room   *)
(* to remember, whatever tree is on the disc.                               *)
THEOREM StartupEveryFileOnce == Spec => []EveryFileOnce
  BY CopyInvariant, CopyInvMeans, PTL

------------------------------------------------------------------------------
(* Types.                                                                   *)

Types ==
    /\ step \in Steps
    /\ dta.n <= Len(Entries[dta.dir]) + 1
    /\ disk \in [File -> Contents]
    /\ wiped \in BOOLEAN /\ troubles \in 0 .. MaxTroubles /\ blocked \subseteq File
    /\ mode \in Modes
    /\ call \in [noreboot : BOOLEAN, back : {"prompt", "batch"}, target : Profiles \cup {"none"}]
    /\ buffered \in BOOLEAN /\ fresh \in BOOLEAN /\ loops \in 0 .. 2

TInv == IInv /\ CopyInv /\ Types

LEMMA TypesMean == CopyInv /\ Types => TypeOK
<1> SUFFICES ASSUME CopyInv, Types PROVE InstallTypeOK
  BY DEF Types, TypeOK
<1>1. ASSUME NEW k \in DOMAIN frames
      PROVE  /\ frames[k].dir \in Dirs /\ frames[k].subdirs \in Seq(Dirs)
             /\ frames[k].i \in 0 .. Len(frames[k].subdirs) + 1
  <2>1. k \in 1 .. Len(frames) /\ frames[k] \in Frame
    BY LenProperties DEF CopyInv, Searches
  <2>2. frames[k].i <= Len(frames[k].subdirs) + 1
    BY <2>1 DEF CopyInv, Stack, FrameOK
  <2>3. frames[k].subdirs \in Seq(Dirs) /\ Len(frames[k].subdirs) \in Nat /\ frames[k].i \in Nat /\ frames[k].dir \in Dirs
    BY <2>1 DEF Frame
  <2> QED
    BY <2>2, <2>3
<1>2. dta.dir \in Dirs /\ dta.n \in 0 .. Len(Entries[dta.dir]) + 1
  <2>1. dta.dir \in Dirs /\ dta.n \in Nat /\ Len(Entries[dta.dir]) \in Nat
    BY ListedOnce DEF CopyInv, Searches
  <2> QED
    BY <2>1 DEF Types
<1>3. g_files_done \in 0 .. Cardinality(TreeFiles)
  <2>1. /\ tried \in Seq(TreeFiles) /\ Len(tried) \in Nat /\ g_files_done \in 0 .. Len(tried)
        /\ \A k, l \in 1 .. Len(tried) : tried[k] = tried[l] => k = l
    BY DEF CopyInv, Tries
  <2>2. tried \in Injection(1 .. Len(tried), TreeFiles)
    <3>1. tried \in [1 .. Len(tried) -> TreeFiles] /\ DOMAIN tried = 1 .. Len(tried)
      BY <2>1, LenProperties
    <3>2. IsInjective(tried)
      BY <2>1, <3>1 DEF IsInjective
    <3> QED
      BY <3>1, <3>2 DEF Injection
  <2>3. IsFiniteSet(TreeFiles)
    BY InstallAssumption DEF InstallAssumption
  <2>4. Cardinality(1 .. Len(tried)) <= Cardinality(TreeFiles) /\ Cardinality(TreeFiles) \in Nat
    BY <2>2, <2>3, FS_Injection, FS_CardinalityType
  <2>5. Cardinality(1 .. Len(tried)) = Len(tried)
    <3>1. Cardinality(1 .. Len(tried)) = IF 1 > Len(tried) THEN 0 ELSE Len(tried) - 1 + 1
      <4>1. 1 \in Int /\ Len(tried) \in Int
        BY <2>1
      <4> QED
        BY <4>1, FS_Interval
    <3> QED
      BY <2>1, <3>1
  <2> QED
    BY <2>1, <2>4, <2>5
<1>4. tried \in Seq(TreeFiles) /\ visited \subseteq Dirs
  BY DEF CopyInv, Tries, Through
<1>5. DOMAIN disk = File
  BY DEF Types
<1> QED
  BY <1>1, <1>2, <1>3, <1>4, <1>5 DEF InstallTypeOK, Types

(* A write leaves what was meant, or a torn file and one trouble more.      *)
LEMMA WriteTypes ==
    ASSUME Types, NEW f \in File, NEW content \in Contents, Written(f, content) \/ Unopened(f)
    PROVE  disk' \in [File -> Contents] /\ troubles' \in 0 .. MaxTroubles
<1>1. "torn" \in Contents
  BY DEF Contents
<1>2. [disk EXCEPT ![f] = content] \in [File -> Contents] /\ [disk EXCEPT ![f] = "torn"] \in [File -> Contents]
  BY <1>1 DEF Types
<1>3. disk' \in {disk, [disk EXCEPT ![f] = content], [disk EXCEPT ![f] = "torn"]}
  BY DEF Written, Unopened
<1>4. UNCHANGED troubles \/ Trouble
  BY DEF Written, Unopened
<1>5. troubles' \in 0 .. MaxTroubles
  BY <1>4, InstallAssumption DEF Trouble, Types, InstallAssumption
<1> QED
  BY <1>2, <1>3, <1>5 DEF Types

LEMMA TypesInit == Init => Types
<1> SUFFICES ASSUME Init PROVE Types
  OBVIOUS
<1>1. disk \in [File -> Contents]
  BY DEF Init, InstallInit, Blank, Installed, InUse, Contents
<1>2. dta.n <= Len(Entries[dta.dir]) + 1
  <2>1. Len(Entries[Root]) \in Nat
    BY ListedOnce, InstallAssumption DEF InstallAssumption
  <2> QED
    BY <2>1 DEF Init, InstallInit, NoSearch
<1>3. troubles \in 0 .. MaxTroubles /\ blocked \subseteq File
  BY StartupAssumption, InstallAssumption DEF Init, InstallInit, StartupAssumption, InstallAssumption
<1>4. call \in [noreboot : BOOLEAN, back : {"prompt", "batch"}, target : Profiles \cup {"none"}]
  BY DEF Init, NoCall
<1>5. step \in Steps /\ wiped \in BOOLEAN
  BY DEF Init, InstallInit, Steps
<1>6. mode \in Modes /\ buffered \in BOOLEAN /\ fresh \in BOOLEAN
  BY DEF Init, Modes
<1>7. loops \in 0 .. 2
  BY DEF Init
<1> QED
  BY <1>1, <1>2, <1>3, <1>4, <1>5, <1>6, <1>7 DEF Types

LEMMA MemoryTypes ==
    ASSUME NEW s, Memory(s)
    PROVE  (dta.n <= Len(Entries[dta.dir]) + 1)'
<1>1. Len(Entries[Root]) \in Nat
  BY ListedOnce, InstallAssumption DEF InstallAssumption
<1> QED
  BY <1>1 DEF Memory, NoSearch

(* The installer.                                                           *)
LEMMA InstallTypes ==
    ASSUME TInv, InstallNext
    PROVE  /\ step' \in Steps
           /\ (dta.n <= Len(Entries[dta.dir]) + 1)'
           /\ disk' \in [File -> Contents]
           /\ wiped' \in BOOLEAN /\ troubles' \in 0 .. MaxTroubles
<1> USE DEF TInv, Types, Steps
<1>1. ASSUME NEW key, NEW now, NEW then, Asked(now, then, key),
             <<now, then>> \in {<<"WELCOME", "PREFLIGHT">>, <<"PREFLIGHT", "CONFIRM">>, <<"CONFIRM", "FORMAT">>}
      PROVE  /\ step' \in Steps /\ (dta.n <= Len(Entries[dta.dir]) + 1)' /\ UNCHANGED <<disk, wiped, troubles>>
  <2>1. CASE Memory("exit")
    BY <1>1, <2>1, MemoryTypes DEF Memory, Asked
  <2>2. CASE step' = then /\ UNCHANGED dta
    BY <1>1, <2>2 DEF Asked
  <2> QED
    BY <1>1, <2>1, <2>2 DEF Asked
<1>2. ASSUME NEW key, Format(key)
      PROVE  /\ step' \in Steps /\ (dta.n <= Len(Entries[dta.dir]) + 1)'
             /\ disk' \in {disk, Blank} /\ wiped' \in BOOLEAN /\ troubles' \in {troubles, 0}
  <2>1. CASE Memory("exit") /\ UNCHANGED <<disk, wiped, troubles>>
    BY <1>2, <2>1, MemoryTypes DEF Memory
  <2>2. CASE step' = "COPY"
    BY <1>2, <2>2 DEF Format, Memory
  <2> QED
    BY <1>2, <2>1, <2>2 DEF Format
<1>3. Blank \in [File -> Contents] /\ 0 \in 0 .. MaxTroubles
  BY InstallAssumption DEF Blank, Contents, InstallAssumption
<1>4. CASE Screens
  <2>1. CASE \E key : Format(key)
    BY <1>2, <1>3, <2>1
  <2>2. CASE \E key, now, then : Asked(now, then, key) /\ <<now, then>> \in
                   {<<"WELCOME", "PREFLIGHT">>, <<"PREFLIGHT", "CONFIRM">>, <<"CONFIRM", "FORMAT">>}
    BY <1>1, <2>2
  <2> QED
    BY <1>4, <2>1, <2>2 DEF Screens, Preflight
<1>5. Len(Entries[dta.dir]) \in Nat /\ dta \in [dir : Dirs, n : Nat]
  BY ListedOnce DEF CopyInv, Searches
<1>6. CASE FoundFile
  <2>1. Found \in File /\ dta.n \in 1 .. Len(Entries[dta.dir])
    BY <1>6, FoundOnDisc DEF FoundFile, CopyInv, File
  <2>2. dta'.dir = dta.dir /\ dta'.n = dta.n + 1 /\ step' = step /\ wiped' = wiped
    BY <1>5, <1>6 DEF FoundFile
  <2>3. "boot" \in Contents /\ "torn" \in Contents
    BY DEF Contents
  <2>4. CASE Written(Found, "boot") \/ Unopened(Found)
    BY <1>5, <2>1, <2>2, <2>3, <2>4, WriteTypes
  <2>5. CASE Trouble /\ disk' \in {disk, [disk EXCEPT ![Found] = "torn"]}
    <3>1. disk' \in [File -> Contents]
      BY <2>1, <2>3, <2>5
    <3>2. troubles' \in 0 .. MaxTroubles
      BY <2>5, InstallAssumption DEF Trouble, InstallAssumption
    <3> QED
      BY <1>5, <2>1, <2>2, <3>1, <3>2
  <2> QED
    BY <1>6, <2>4, <2>5 DEF FoundFile, copy_file
<1>7. CASE FoundDir
  <2>1. dta.n \in 1 .. Len(Entries[dta.dir])
    BY <1>7, FoundOnDisc DEF FoundDir, CopyInv
  <2>2. dta'.dir = dta.dir /\ dta'.n = dta.n + 1
    BY <1>5, <1>7 DEF FoundDir
  <2> QED
    BY <1>5, <1>7, <2>1, <2>2 DEF FoundDir
<1>8. CASE LoopEnds \/ Return
  BY <1>8 DEF LoopEnds, Return
<1>9. CASE Descend
  <2>1. \A d \in Dirs : 1 <= Len(Entries[d]) + 1
    BY ListedOnce
  <2>2. CopyInv'
    BY <1>9, CopyStep DEF InstallNext
  <2>3. dta'.dir \in Dirs /\ dta'.n = 1
    BY <1>9, <2>2 DEF Descend, CopyInv, Searches
  <2>4. UNCHANGED <<step, disk, wiped, troubles>>
    BY <1>9 DEF Descend
  <2> QED
    BY <2>1, <2>3, <2>4
<1>10. CASE RemoveFlag
  <2>1. [disk EXCEPT !["WELCOMED"] = "none"] \in [File -> Contents]
    BY DEF Contents
  <2> QED
    BY <1>10, <2>1 DEF RemoveFlag, Removed
<1>11. CASE Bootstrap("CONFIG.SYS", "CONFIG", "AUTOEXEC") \/ Bootstrap("AUTOEXEC.BAT", "AUTOEXEC", "DONE")
  <2>1. disk' \in [File -> Contents] /\ troubles' \in 0 .. MaxTroubles
    BY <1>11, Names, WriteTypes DEF Bootstrap, Contents
  <2> QED
    BY <1>11, <2>1 DEF Bootstrap
<1>12. CASE Leave
  BY <1>12, MemoryTypes DEF Leave, Memory
<1> QED
  BY <1>4, <1>6, <1>7, <1>8, <1>9, <1>10, <1>11, <1>12 DEF InstallNext

(* The machine: only the call, the keys and the counters change.            *)
LEMMA TypesStep == TInv /\ [Next]_vars => Types'
<1> SUFFICES ASSUME TInv, [Next]_vars PROVE Types'
  OBVIOUS
<1> DEFINE Calls == [noreboot : BOOLEAN, back : {"prompt", "batch"}, target : Profiles \cup {"none"}]
           Same == UNCHANGED installVars
<1>1. /\ step \in Steps /\ dta.n <= Len(Entries[dta.dir]) + 1 /\ disk \in [File -> Contents]
      /\ wiped \in BOOLEAN /\ troubles \in 0 .. MaxTroubles /\ blocked \subseteq File
      /\ mode \in Modes /\ call \in Calls
      /\ buffered \in BOOLEAN /\ fresh \in BOOLEAN /\ loops \in 0 .. 2
  BY DEF TInv, Types
<1>2. CASE UNCHANGED vars
  BY <1>1, <1>2 DEF vars, installVars, Types
<1>3. CASE Next
  <2>1. blocked' = blocked /\ Moves
    BY <1>3 DEF Next
  <2>2. ASSUME Same PROVE /\ step' \in Steps /\ (dta.n <= Len(Entries[dta.dir]) + 1)'
                          /\ disk' \in [File -> Contents]
                          /\ wiped' \in BOOLEAN /\ troubles' \in 0 .. MaxTroubles
    BY <1>1, <2>2 DEF installVars
  <2>3. ASSUME NEW f \in File, NEW content \in Contents, Written(f, content) \/ Unopened(f), UNCHANGED Rest
        PROVE /\ step' \in Steps /\ (dta.n <= Len(Entries[dta.dir]) + 1)'
              /\ disk' \in [File -> Contents]
              /\ wiped' \in BOOLEAN /\ troubles' \in 0 .. MaxTroubles
    BY <1>1, <2>3, WriteTypes DEF Rest, TInv
  <2>4. ASSUME NEW s \in {"WELCOME", "exit"}, Memory(s), UNCHANGED <<disk, wiped>>, UNCHANGED troubles \/ Trouble
        PROVE /\ step' \in Steps /\ (dta.n <= Len(Entries[dta.dir]) + 1)'
              /\ disk' \in [File -> Contents]
              /\ wiped' \in BOOLEAN /\ troubles' \in 0 .. MaxTroubles
    <3>1. (dta.n <= Len(Entries[dta.dir]) + 1)'
      BY <2>4, MemoryTypes
    <3>2. step' \in Steps
      BY <2>4 DEF Memory, Steps
    <3>3. troubles' \in 0 .. MaxTroubles
      BY <1>1, <2>4, InstallAssumption DEF Trouble, InstallAssumption
    <3> QED
      BY <1>1, <2>4, <3>1, <3>2, <3>3
  <2>5. NoCall \in Calls
    BY DEF NoCall
  <2>6. 0 \in 0 .. 2 /\ (loops < 2 => loops + 1 \in 0 .. 2)
    BY <1>1
  <2>7. {"CONFIG.SYS", "AUTOEXEC.BAT", "NOS-HW.CFG", "MTCP.CFG", "PROFILE.DAT", "WELCOMED"} \subseteq File
    BY Names
  <2>8. {"none", "torn", "boot", "gen", "set"} \cup Profiles \subseteq Contents
    BY DEF Contents
  <2> HIDE DEF Calls
  <2>9. CASE BootDisc
    BY <1>1, <2>1, <2>4, <2>6, <2>9 DEF BootDisc, Types, Modes, Calls
  <2>10. CASE Installing
    <3>1. fresh' \in BOOLEAN
      BY <2>10 DEF Installing
    <3>2. mode' \in Modes
      BY <1>1, <2>10 DEF Installing, Modes
    <3> QED
      BY <1>1, <2>1, <2>10, <3>1, <3>2, InstallTypes DEF Installing, Types, Calls
  <2>11. CASE PowerCut
    <3>1. UNCHANGED troubles \/ Trouble
      BY <2>11 DEF PowerCut
    <3> QED
      BY <1>1, <2>1, <2>4, <2>5, <2>6, <2>11, <3>1 DEF PowerCut, Types, Modes, Calls
  <2>12. CASE KeyTyped
    BY <1>1, <2>1, <2>2, <2>12 DEF KeyTyped, Types, Calls
  <2>13. CASE BootDisk
    <3>1. [NoCall EXCEPT !.back = "batch"] \in Calls
      BY DEF NoCall, Calls
    <3>2. mode' \in Modes /\ call' \in Calls /\ buffered' \in BOOLEAN
      BY <1>1, <2>13, <3>1 DEF BootDisk, Modes
    <3> QED
      BY <1>1, <2>1, <2>2, <2>6, <2>13, <3>2 DEF BootDisk, Types, Calls
  <2>14. CASE BatchGoesOn
    <3>1. mode' \in Modes /\ call' \in Calls /\ buffered' \in BOOLEAN
      BY <1>1, <2>5, <2>14 DEF BatchGoesOn, StartShell, Modes
    <3> QED
      BY <1>1, <2>1, <2>2, <2>14, <3>1 DEF BatchGoesOn, Types, Calls
  <2>15. CASE WelcomeLeft
    BY <1>1, <2>1, <2>3, <2>7, <2>8, <2>15 DEF WelcomeLeft, Types, Modes, Calls
  <2>16. CASE ShellLeft
    BY <1>1, <2>1, <2>2, <2>16 DEF ShellLeft, Types, Modes, Calls
  <2>17. CASE Typed
    <3>1. \A noreboot \in BOOLEAN, p \in Profiles :
             /\ [NoCall EXCEPT !.noreboot = noreboot] \in Calls
             /\ [NoCall EXCEPT !.noreboot = noreboot, !.target = p] \in Calls
      BY DEF NoCall, Calls
    <3>2. mode' \in Modes /\ call' \in Calls /\ buffered' \in BOOLEAN
      <4>1. CASE StartShell
        BY <1>1, <2>5, <4>1 DEF StartShell, Modes
      <4>2. ASSUME NEW noreboot \in BOOLEAN, NEW force \in BOOLEAN,
                   mode' = IF force THEN "config" ELSE "detect",
                   call' = [NoCall EXCEPT !.noreboot = noreboot], UNCHANGED buffered
            PROVE  mode' \in Modes /\ call' \in Calls /\ buffered' \in BOOLEAN
        BY <1>1, <3>1, <4>2 DEF Modes, NoCall, Calls
      <4>3. ASSUME NEW noreboot \in BOOLEAN, NEW p \in Profiles, mode' = "mem_config",
                   call' = [NoCall EXCEPT !.noreboot = noreboot, !.target = p], UNCHANGED buffered
            PROVE  mode' \in Modes /\ call' \in Calls /\ buffered' \in BOOLEAN
        BY <1>1, <3>1, <4>3 DEF Modes
      <4> QED
        BY <2>17, <4>1, <4>2, <4>3 DEF Typed
    <3> QED
      BY <1>1, <2>1, <2>2, <2>6, <2>17, <3>2 DEF Typed, Types, Calls
  <2>18. call.back \in Modes
    BY <1>1 DEF Calls, Modes
  <2>19. CASE hwcfg_exists
    BY <1>1, <2>1, <2>2, <2>18, <2>19 DEF hwcfg_exists, Types, Modes, Calls
  <2>20. ASSUME NEW now, NEW tpl, NEW f \in File, NEW then \in Modes, Generated(now, tpl, f, then) PROVE Types'
    <3>1. CASE UNCHANGED <<disk, troubles>>
      BY <1>1, <2>1, <2>2, <2>18, <2>20, <3>1 DEF Generated, Rest, installVars, Types, Calls
    <3>2. CASE Written(f, IF Intact(tpl) THEN "gen" ELSE "torn")
      BY <1>1, <2>1, <2>3, <2>8, <2>18, <2>20, <3>2 DEF Generated, Types, Calls
    <3> QED
      BY <2>20, <3>1, <3>2 DEF Generated, Unopened
  <2>21. CASE nos_genconf
    <3>1. {"autoexec", "hwcfg", "mtcp"} \subseteq Modes
      BY DEF Modes
    <3>2. CASE write_hwcfg("mtcp")
      BY <1>1, <2>1, <2>3, <2>7, <2>8, <2>18, <3>1, <3>2 DEF write_hwcfg, Types, Calls
    <3> QED
      BY <2>7, <2>20, <2>21, <3>1, <3>2 DEF nos_genconf
  <2>22. CASE write_mtcpcfg
    <3>1. CASE UNCHANGED <<disk, troubles>>
      BY <1>1, <2>1, <2>2, <2>18, <2>22, <3>1 DEF write_mtcpcfg, Rest, installVars, Types, Calls, Modes
    <3>2. CASE Written("MTCP.CFG", "gen")
      BY <1>1, <2>1, <2>3, <2>7, <2>8, <2>18, <2>22, <3>2 DEF write_mtcpcfg, Types, Calls, Modes
    <3> QED
      BY <2>22, <3>1, <3>2 DEF write_mtcpcfg
  <2>23. CASE RemoveWelcomed
    <3>1. [disk EXCEPT !["WELCOMED"] = "none"] \in [File -> Contents]
      BY <1>1, <2>8
    <3> QED
      BY <1>1, <2>1, <2>23, <3>1 DEF RemoveWelcomed, Removed, Rest, Types, Calls, Modes
  <2>24. CASE write_config_sys
    <3>1. call.target \in Contents
      BY <1>1, <2>8 DEF Calls
    <3>2. Written("CONFIG.SYS", call.target) \/ Unopened("CONFIG.SYS")
      BY <2>24 DEF write_config_sys
    <3> QED
      BY <1>1, <2>1, <2>3, <2>7, <2>18, <2>24, <3>1, <3>2 DEF write_config_sys, Types, Calls, Modes
  <2>25. CASE write_profile
    <3>1. call.target \in Contents
      BY <1>1, <2>8 DEF Calls
    <3> QED
      BY <1>1, <2>1, <2>3, <2>7, <2>18, <2>25, <3>1 DEF write_profile, Types, Calls, Modes
  <2>26. CASE Reboot
    <3>1. loops' \in 0 .. 2
      BY <1>1, <2>6, <2>26 DEF Reboot
    <3>2. buffered' \in BOOLEAN
      BY <1>1, <2>26 DEF Reboot
    <3> QED
      BY <1>1, <2>1, <2>2, <2>5, <2>26, <3>1, <3>2 DEF Reboot, Types, Calls, Modes
  <2> QED
    BY <2>1, <2>9, <2>10, <2>11, <2>12, <2>13, <2>14, <2>15, <2>16, <2>17, <2>19, <2>21, <2>22,
       <2>23, <2>24, <2>25, <2>26 DEF Moves
<1> QED
  BY <1>2, <1>3

LEMMA TypesInvariant == Spec => []TInv
<1>1. Init => Types
  BY TypesInit
<1>2. IInv /\ CopyInv /\ Types /\ [Next]_vars => Types'
  BY TypesStep DEF TInv
<1>3. IInv /\ CopyInv /\ Types => TInv
  BY DEF TInv
<1> QED
  BY <1>1, <1>2, <1>3, StartupInvariant, CopyInvariant, PTL DEF Spec

(* Type correctness of the installer and of what it starts.                 *)
THEOREM StartupTypeOK == Spec => []TypeOK
<1>1. TInv => TypeOK
  BY TypesMean DEF TInv
<1> QED
  BY TypesInvariant, <1>1, PTL

------------------------------------------------------------------------------
(* When nothing goes wrong: every write is what was meant.                  *)

LEMMA WellWritten ==
    ASSUME Types, UNCHANGED blocked, AllWell', NEW f \in File, NEW content,
           Written(f, content) \/ Unopened(f)
    PROVE  AllWell /\ disk' = [disk EXCEPT ![f] = content]
<1>1. ~ Trouble
  BY DEF Trouble, AllWell, Types
<1> QED
  BY <1>1 DEF Written, Unopened, AllWell

(* PROFILE.DAT says what CONFIG.SYS is.                                     *)
Recorded ==
    AllWell =>
        /\ mode = "mem_profile" => disk["CONFIG.SYS"] = call.target
        /\ mode # "mem_profile" /\ {disk["PROFILE.DAT"], disk["CONFIG.SYS"]} \subseteq Profiles
             => disk["PROFILE.DAT"] = disk["CONFIG.SYS"]

LEMMA InstallWell ==
    ASSUME TInv, InstallNext, UNCHANGED blocked, AllWell'
    PROVE  \/ disk' = Blank
           \/ /\ AllWell
              /\ disk'["PROFILE.DAT"] = disk["PROFILE.DAT"]
              /\ disk'["CONFIG.SYS"] \in {disk["CONFIG.SYS"], "boot"}
<1>1. ~ Trouble
  BY DEF Trouble, AllWell, TInv, Types
<1>2. {"PROFILE.DAT", "CONFIG.SYS", "AUTOEXEC.BAT", "WELCOMED"} \subseteq File /\ "PROFILE.DAT" \notin TreeFiles
  BY Names, StartupAssumption, InstallAssumption DEF StartupAssumption, InstallAssumption
<1>3. DOMAIN disk = File
  BY DEF TInv, Types
<1>4. CASE Screens
  <2>1. UNCHANGED <<disk, troubles>> \/ disk' = Blank
    BY <1>4 DEF Screens, Preflight, Asked, Format
  <2> QED
    BY <2>1 DEF AllWell
<1>5. CASE FoundFile
  <2>1. Found \in TreeFiles /\ Found \in File
    BY <1>5, FoundOnDisc DEF FoundFile, TInv, CopyInv, File
  <2>2. Written(Found, "boot") \/ Unopened(Found)
    BY <1>1, <1>5 DEF FoundFile, copy_file
  <2>3. AllWell /\ disk' = [disk EXCEPT ![Found] = "boot"]
    BY <2>1, <2>2, WellWritten DEF TInv
  <2> QED
    BY <1>2, <1>3, <2>1, <2>3
<1>6. CASE FoundDir \/ LoopEnds \/ Descend \/ Return
  BY <1>6 DEF FoundDir, LoopEnds, Descend, Return, AllWell
<1>7. CASE RemoveFlag
  <2>1. disk' = disk \/ disk' = [disk EXCEPT !["WELCOMED"] = "none"]
    BY <1>7 DEF RemoveFlag, Removed
  <2> QED
    BY <1>2, <1>3, <1>7, <2>1 DEF RemoveFlag, AllWell
<1>8. ASSUME NEW f \in {"CONFIG.SYS", "AUTOEXEC.BAT"}, NEW now, NEW then, Bootstrap(f, now, then)
      PROVE  AllWell /\ disk'["PROFILE.DAT"] = disk["PROFILE.DAT"]
                     /\ disk'["CONFIG.SYS"] \in {disk["CONFIG.SYS"], "boot"}
  <2>1. f \in File
    BY <1>2
  <2>2. AllWell /\ disk' = [disk EXCEPT ![f] = "boot"]
    BY <1>8, <2>1, WellWritten DEF TInv, Bootstrap
  <2> QED
    BY <1>2, <1>3, <2>1, <2>2
<1>9. CASE Leave
  BY <1>9 DEF Leave, AllWell
<1> QED
  BY <1>4, <1>5, <1>6, <1>7, <1>8, <1>9 DEF InstallNext

LEMMA RecordedStep == TInv /\ Recorded /\ [Next]_vars => Recorded'
<1> SUFFICES ASSUME TInv, Recorded, [Next]_vars, AllWell' PROVE Recorded'
  BY DEF Recorded
<1>1. /\ {"CONFIG.SYS", "AUTOEXEC.BAT", "NOS-HW.CFG", "MTCP.CFG", "PROFILE.DAT", "WELCOMED"} \subseteq File
      /\ DOMAIN disk = File
  BY Names DEF TInv, Types
<1>2. Profiles \cap {"none", "torn", "boot", "gen", "set"} = {}
  BY StartupAssumption DEF StartupAssumption
<1>3. CASE UNCHANGED vars
  BY <1>3 DEF vars, installVars, Recorded, AllWell
<1>4. CASE Next
  <2>1. blocked' = blocked /\ Moves
    BY <1>4 DEF Next
  <2>2. ~ Trouble
    BY DEF Trouble, AllWell, TInv, Types
  <2>3. \A f \in File : \A content : Written(f, content) \/ Unopened(f) =>
           AllWell /\ disk' = [disk EXCEPT ![f] = content]
    BY <2>1, WellWritten DEF TInv
  <2>4. CASE BootDisc \/ PowerCut
    BY <2>1, <2>2, <2>4 DEF BootDisc, PowerCut, Copying, Writing, Recorded, AllWell
  <2>5. CASE Installing
    <3>1. mode # "mem_profile" /\ mode' # "mem_profile"
      BY <2>5 DEF Installing
    <3>2. CASE disk' = Blank
      BY <1>1, <1>2, <3>1, <3>2 DEF Blank, Recorded
    <3>3. CASE /\ AllWell
               /\ disk'["PROFILE.DAT"] = disk["PROFILE.DAT"]
               /\ disk'["CONFIG.SYS"] \in {disk["CONFIG.SYS"], "boot"}
      BY <1>2, <3>1, <3>3 DEF Recorded
    <3> QED
      BY <2>1, <2>5, <3>2, <3>3, InstallWell DEF Installing
  <2>6. CASE KeyTyped \/ BootDisk \/ BatchGoesOn \/ ShellLeft \/ Typed \/ hwcfg_exists \/ Reboot
    <3>1. UNCHANGED installVars
      BY <2>6 DEF KeyTyped, BootDisk, BatchGoesOn, ShellLeft, Typed, hwcfg_exists, Reboot
    <3>2. UNCHANGED disk /\ AllWell
      BY <2>1, <3>1 DEF installVars, AllWell
    <3>3. mode' = "mem_profile" => mode = "mem_profile" /\ call' = call
      BY <2>6 DEF KeyTyped, BootDisk, BatchGoesOn, StartShell, ShellLeft, Typed, hwcfg_exists, Reboot, TInv, Types
    <3>4. mode = "mem_profile" => mode' = "mem_profile"
      BY <2>6 DEF KeyTyped, BootDisk, BatchGoesOn, ShellLeft, Typed, hwcfg_exists, Reboot
    <3> QED
      BY <3>2, <3>3, <3>4 DEF Recorded
  <2>7. call.back \in {"prompt", "batch"}
    BY DEF TInv, Types
  <2>8. CASE WelcomeLeft \/ write_mtcpcfg \/ RemoveWelcomed
    <3>1. mode # "mem_profile" /\ mode' # "mem_profile"
      BY <2>7, <2>8 DEF WelcomeLeft, write_mtcpcfg, RemoveWelcomed
    <3>2. AllWell /\ disk'["PROFILE.DAT"] = disk["PROFILE.DAT"] /\ disk'["CONFIG.SYS"] = disk["CONFIG.SYS"]
      BY <1>1, <2>1, <2>3, <2>8 DEF WelcomeLeft, write_mtcpcfg, RemoveWelcomed, Removed, AllWell
    <3> QED
      BY <3>1, <3>2 DEF Recorded
  <2>9. CASE nos_genconf
    <3>1. mode # "mem_profile" /\ mode' # "mem_profile"
      BY <2>7, <2>9 DEF nos_genconf, Generated, write_hwcfg
    <3>2. AllWell /\ disk'["PROFILE.DAT"] = disk["PROFILE.DAT"]
                  /\ disk'["CONFIG.SYS"] \in {disk["CONFIG.SYS"], "gen", "torn"}
      BY <1>1, <2>1, <2>3, <2>9 DEF nos_genconf, Generated, write_hwcfg, AllWell
    <3> QED
      BY <1>2, <3>1, <3>2 DEF Recorded
  <2>10. CASE write_config_sys
    <3>1. AllWell /\ disk'["CONFIG.SYS"] = call.target /\ mode' = "mem_profile" /\ call' = call
      BY <1>1, <2>1, <2>3, <2>10 DEF write_config_sys, Unopened, AllWell
    <3> QED
      BY <3>1 DEF Recorded
  <2>11. CASE write_profile
    <3>1. AllWell /\ disk'["PROFILE.DAT"] = call.target /\ disk'["CONFIG.SYS"] = disk["CONFIG.SYS"]
          /\ mode = "mem_profile" /\ mode' # "mem_profile"
      BY <1>1, <2>1, <2>3, <2>7, <2>11 DEF write_profile
    <3> QED
      BY <3>1 DEF Recorded
  <2> QED
    BY <2>1, <2>4, <2>5, <2>6, <2>8, <2>9, <2>10, <2>11 DEF Moves
<1> QED
  BY <1>3, <1>4

(* PROFILE.DAT and CONFIG.SYS do not name two profiles, unless NOSMEM is    *)
(* between the two writes or one of them went wrong.                        *)
THEOREM StartupProfileMatches == Spec => []ProfileMatches
<1>1. Init => Recorded
  <2> SUFFICES ASSUME Init PROVE Recorded
    OBVIOUS
  <2>1. disk["PROFILE.DAT"] = "none" /\ mode = "off"
    BY Names, StartupAssumption, InstallAssumption
    DEF Init, InstallInit, Blank, Installed, InUse, StartupAssumption, InstallAssumption
  <2> QED
    BY <2>1, StartupAssumption DEF StartupAssumption, Recorded
<1>2. TInv /\ Recorded => ProfileMatches
  BY TypesMean DEF TInv, Recorded, ProfileMatches
<1> QED
  BY <1>1, <1>2, TypesInvariant, RecordedStep, PTL DEF Spec

------------------------------------------------------------------------------
(* The first boot of an installation in which nothing went wrong.           *)

Needed == {"DETECT.EXE", "CONFIG.TPL", "AUTOEXEC.TPL", "SHELL.EXE"}
StartUp == {"CONFIG.SYS", "AUTOEXEC.BAT", "NOS-HW.CFG"}

(* What copy_tree came to is on C:.                                         *)
CopyWell == wiped /\ AllWell /\ step \in Copying => \A f \in ToSet(tried) : disk[f] = "boot"

(* Nobody is called while the machine is off or the installer runs, and     *)
(* what the installer writes anew is not installed yet.                     *)
Uncalled == mode \in {"off", "install", "reset"} => call.back = "prompt"
NotFresh == step \in {"COPY", "FLAG", "CONFIG", "AUTOEXEC", "ERROR"} => ~ fresh

(* How far DETECT, called by AUTOEXEC.BAT, has come: not to that file, past *)
(* it, or through.                                                          *)
OnTheWay ==
    /\ \A f \in Needed : disk[f] = "boot"
    /\ \/ /\ mode \in {"off", "install", "reset", "detect", "config", "autoexec"}
          /\ disk["AUTOEXEC.BAT"] = "boot" /\ disk["NOS-HW.CFG"] = "none"
          /\ mode = "autoexec" => disk["CONFIG.SYS"] = "gen"
       \/ mode = "hwcfg" /\ disk["CONFIG.SYS"] = "gen" /\ disk["AUTOEXEC.BAT"] = "gen"
       \/ /\ mode \in {"off", "install", "reset", "mtcp", "flag", "key", "batch", "welcome"}
          /\ \A f \in StartUp : disk[f] = "gen"
    /\ mode \in {"detect", "config", "autoexec", "hwcfg", "mtcp", "flag", "key"}
          => call.back = "batch" /\ ~ call.noreboot
    /\ mode = "batch" => call.back = "prompt"

FirstBoot == fresh /\ wiped /\ AllWell => OnTheWay

BInv == TInv /\ CopyWell /\ Uncalled /\ NotFresh /\ FirstBoot

LEMMA NeededNames ==
    /\ Needed \subseteq TreeFiles /\ Needed \subseteq File
    /\ Needed \cap {"CONFIG.SYS", "AUTOEXEC.BAT", "NOS-HW.CFG", "MTCP.CFG", "PROFILE.DAT", "WELCOMED"} = {}
    /\ "WELCOMED" \notin TreeFiles
  BY StartupAssumption, InstallAssumption DEF StartupAssumption, InstallAssumption, Needed, File

(* When copy_tree is through, it came to what the first boot needs.         *)
LEMMA NeededTried ==
    ASSUME CopyInv, step \in {"FLAG", "CONFIG", "AUTOEXEC"}
    PROVE  Needed \subseteq ToSet(tried)
<1>1. frames = <<>> /\ Len(frames) = 0 /\ ~ Finding
  BY DEF CopyInv, Searches, Finding
<1>2. visited \in SUBSET Dirs /\ Root \in visited
  BY <1>1 DEF CopyInv, Through
<1>3. \A d \in visited : Remembered(d) \subseteq visited
  BY <1>1 DEF CopyInv, Through
<1>4. Needed \subseteq UNION {ToSet(Entries[d]) : d \in visited}
  BY <1>2, <1>3, StartupAssumption DEF StartupAssumption, Needed
<1> SUFFICES ASSUME NEW f \in Needed PROVE f \in ToSet(tried)
  OBVIOUS
<1>5. PICK d \in visited : f \in ToSet(Entries[d])
  BY <1>4
<1>6. d \in Dirs /\ f \notin Dirs
  BY <1>2, NeededNames DEF TreeFiles
<1>7. PICK j \in 1 .. Len(Entries[d]) : Entries[d][j] = f
  BY <1>5, <1>6, ListedOnce
<1>8. Passed(d, j)
  BY <1>1 DEF Passed
<1> QED
  BY <1>6, <1>7, <1>8 DEF CopyInv, Tries

LEMMA CopyWellInstall ==
    ASSUME TInv, CopyWell, InstallNext, UNCHANGED blocked
    PROVE  CopyWell'
<1> SUFFICES ASSUME wiped', AllWell', step' \in Copying, NEW f \in ToSet(tried')
             PROVE  disk'[f] = "boot"
  BY DEF CopyWell
<1>1. ~ Trouble
  BY DEF Trouble, AllWell, TInv, Types
<1>2. /\ {"CONFIG.SYS", "AUTOEXEC.BAT", "WELCOMED"} \subseteq File /\ "WELCOMED" \notin TreeFiles
      /\ TreeFiles \subseteq File /\ DOMAIN disk = File
  BY Names, NeededNames DEF TInv, Types, File
<1>3. step # "COPY" => frames = <<>>
  BY DEF TInv, CopyInv, Searches
<1>4. ToSet(tried) \subseteq TreeFiles
  BY DEF TInv, CopyInv, Tries, ToSet
<1>5. CASE Screens
  <2>1. step = "FORMAT" /\ tried' = tried
    BY <1>5 DEF Screens, Preflight, Asked, Format, Memory, Copying
  <2>2. tried = <<>>
    BY <1>3, <2>1 DEF TInv, CopyInv, Unstarted
  <2> QED
    BY <2>1, <2>2, NothingFound DEF ToSet
<1>6. CASE FoundFile
  <2>1. Found \in TreeFiles
    BY <1>6, FoundOnDisc DEF FoundFile, TInv, CopyInv
  <2>2. Written(Found, "boot") \/ Unopened(Found)
    BY <1>1, <1>6 DEF FoundFile, copy_file
  <2>3. AllWell /\ disk' = [disk EXCEPT ![Found] = "boot"]
    BY <1>2, <2>1, <2>2, WellWritten DEF TInv
  <2>4. f \in ToSet(tried) \/ f = Found
    <3>1. tried' = Append(tried, Found) /\ tried \in Seq(TreeFiles)
      BY <1>6 DEF FoundFile, TInv, CopyInv, Tries
    <3>2. PICK k \in 1 .. Len(tried) + 1 : Append(tried, Found)[k] = f
      BY <2>1, <3>1, LenProperties DEF ToSet
    <3> QED
      BY <2>1, <3>1, <3>2 DEF ToSet
  <2>5. wiped /\ step \in Copying
    BY <1>6 DEF FoundFile
  <2>6. f \in ToSet(tried) => disk[f] = "boot"
    BY <2>3, <2>5 DEF CopyWell
  <2> QED
    BY <1>2, <1>4, <2>1, <2>3, <2>4, <2>6
<1>7. CASE FoundDir \/ LoopEnds \/ Descend \/ Return
  <2>1. UNCHANGED <<disk, tried, wiped, troubles>> /\ step = "COPY"
    BY <1>3, <1>7 DEF FoundDir, LoopEnds, Descend, Return, Searching
  <2> QED
    BY <2>1 DEF CopyWell, AllWell, Copying
<1>8. CASE RemoveFlag
  <2>1. disk[f] = "boot" /\ f # "WELCOMED" /\ f \in File
    BY <1>2, <1>4, <1>8 DEF RemoveFlag, CopyWell, AllWell, Copying
  <2> QED
    BY <1>2, <1>8, <2>1 DEF RemoveFlag, Removed
<1>9. ASSUME NEW g \in {"CONFIG.SYS", "AUTOEXEC.BAT"}, NEW now \in Copying, NEW then, Bootstrap(g, now, then)
      PROVE  disk'[f] = "boot"
  <2>1. AllWell /\ disk' = [disk EXCEPT ![g] = "boot"]
    BY <1>2, <1>9, WellWritten DEF TInv, Bootstrap
  <2>2. disk[f] = "boot" /\ f \in File
    BY <1>2, <1>4, <1>9, <2>1 DEF Bootstrap, CopyWell
  <2> QED
    BY <1>2, <2>1, <2>2
<1>10. CASE Leave
  BY <1>10 DEF Leave, Memory, Copying
<1> QED
  BY <1>5, <1>6, <1>7, <1>8, <1>9, <1>10 DEF InstallNext, Copying

LEMMA CopyWellStep == TInv /\ CopyWell /\ [Next]_vars => CopyWell'
<1> SUFFICES ASSUME TInv, CopyWell, [Next]_vars PROVE CopyWell'
  OBVIOUS
<1>1. CASE UNCHANGED vars
  BY <1>1 DEF vars, installVars, CopyWell, AllWell
<1>2. CASE Installing /\ UNCHANGED blocked
  BY <1>2, CopyWellInstall DEF Installing
<1>3. CASE step \notin Copying /\ UNCHANGED step
  BY <1>3 DEF CopyWell
<1>4. CASE step' \in {"exit", "WELCOME"}
  BY <1>4 DEF CopyWell, Copying
<1>5. CASE Next /\ ~ Installing /\ step \in Copying
  <2>1. mode = "install"
    BY <1>5 DEF TInv, IInv, Screen, Copying
  <2>2. PowerCut
    BY <1>5, <2>1 DEF Next, Moves, BootDisc, KeyTyped, BootDisk, BatchGoesOn, WelcomeLeft, ShellLeft,
       Typed, hwcfg_exists, nos_genconf, Generated, write_hwcfg, write_mtcpcfg, RemoveWelcomed,
       write_config_sys, write_profile, Reboot
  <2> QED
    BY <1>4, <2>2 DEF PowerCut, Memory
<1> QED
  BY <1>1, <1>2, <1>3, <1>4, <1>5, CopyVarsChange DEF Next, copyVars, Memory

LEMMA FreshStep == TInv /\ Uncalled /\ NotFresh /\ [Next]_vars => Uncalled' /\ NotFresh'
<1> SUFFICES ASSUME TInv, Uncalled, NotFresh, [Next]_vars PROVE Uncalled' /\ NotFresh'
  OBVIOUS
<1>1. call.back \in {"prompt", "batch"}
  BY DEF TInv, Types
<1>2. CASE UNCHANGED vars
  BY <1>2 DEF vars, installVars, Uncalled, NotFresh
<1>3. CASE Installing
  <2>1. CASE step' \in {"FLAG", "CONFIG", "AUTOEXEC", "ERROR"}
    <3>1. step \in {"COPY", "FLAG", "CONFIG", "AUTOEXEC", "ERROR"}
      <4>1. frames # <<>> => step = "COPY"
        BY DEF TInv, IInv, Searches
      <4> QED
        BY <1>3, <2>1, <4>1 DEF Installing, InstallNext, Screens, Preflight, Asked, Format, Memory, FoundFile,
           FoundDir, LoopEnds, Searching, Descend, Return, RemoveFlag, Bootstrap, Leave
    <3> QED
      BY <1>3, <2>1, <3>1 DEF Installing, Uncalled, NotFresh
  <2>2. CASE step' \notin {"FLAG", "CONFIG", "AUTOEXEC", "ERROR"}
    BY <1>3, <2>2 DEF Installing, Uncalled, NotFresh
  <2> QED
    BY <2>1, <2>2
<1>4. CASE Next /\ ~ Installing
  <2>1. Uncalled'
    <3>1. CASE BootDisc
      BY <3>1 DEF BootDisc, Uncalled
    <3>2. CASE PowerCut \/ Reboot
      <4>1. call' = NoCall /\ NoCall.back = "prompt"
        BY <3>2 DEF PowerCut, Reboot, NoCall
      <4> QED
        BY <4>1 DEF Uncalled
    <3>3. CASE KeyTyped \/ BootDisk \/ BatchGoesOn \/ WelcomeLeft \/ ShellLeft \/ Typed
      <4>1. mode' \notin {"off", "install"} /\ (mode' = "reset" => mode = "reset" /\ call' = call)
        BY <3>3 DEF KeyTyped, BootDisk, BatchGoesOn, StartShell, WelcomeLeft, ShellLeft, Typed
      <4> QED
        BY <4>1 DEF Uncalled
    <3>4. CASE hwcfg_exists \/ nos_genconf \/ write_mtcpcfg \/ RemoveWelcomed \/ write_config_sys \/ write_profile
      <4>1. mode' \notin {"off", "install", "reset"}
        BY <1>1, <3>4 DEF hwcfg_exists, nos_genconf, Generated, write_hwcfg, write_mtcpcfg,
           RemoveWelcomed, write_config_sys, write_profile
      <4> QED
        BY <4>1 DEF Uncalled
    <3> QED
      BY <1>4, <3>1, <3>2, <3>3, <3>4 DEF Next, Moves
  <2>2. fresh' => fresh
    BY <1>4 DEF Next, Moves, BootDisc, PowerCut, KeyTyped, BootDisk, BatchGoesOn,
       WelcomeLeft, ShellLeft, Typed, hwcfg_exists, nos_genconf, Generated, write_hwcfg, write_mtcpcfg,
       RemoveWelcomed, write_config_sys, write_profile, Reboot
  <2>3. step' = step \/ step' \in {"exit", "WELCOME"}
    BY <1>4, CopyVarsChange DEF copyVars, Memory
  <2> QED
    BY <2>1, <2>2, <2>3 DEF NotFresh
<1> QED
  BY <1>2, <1>3, <1>4

(* The installation ends on the way.                                        *)
LEMMA InstalledWell ==
    ASSUME BInv, Installing, UNCHANGED blocked, fresh', wiped', AllWell'
    PROVE  OnTheWay'
<1> USE DEF BInv
<1>1. ~ Trouble
  BY DEF Trouble, AllWell, TInv, Types
<1>2. /\ {"CONFIG.SYS", "AUTOEXEC.BAT", "NOS-HW.CFG"} \subseteq File /\ DOMAIN disk = File
      /\ \A f \in Needed : f \in File /\ f \notin {"CONFIG.SYS", "AUTOEXEC.BAT", "NOS-HW.CFG", "WELCOMED"}
  BY Names, NeededNames DEF TInv, Types
<1>3. step # "COPY" => frames = <<>>
  BY DEF TInv, CopyInv, Searches
<1>4. mode = "install" /\ call.back = "prompt" /\ UNCHANGED call /\ mode' \in {"off", "install"} /\ InstallNext
  BY DEF Installing, Uncalled
<1>5. CASE fresh
  <2>1. step \notin {"COPY", "FLAG", "CONFIG", "AUTOEXEC", "ERROR"} /\ step' # "COPY"
    BY <1>5 DEF NotFresh, Installing
  <2>2. UNCHANGED <<disk, wiped, troubles>>
    BY <1>3, <1>4, <2>1 DEF InstallNext, Screens, Preflight, Asked, Format, FoundFile, FoundDir, LoopEnds,
       Searching, Descend, Return, RemoveFlag, Bootstrap, Leave
  <2>3. OnTheWay
    BY <1>5, <2>2 DEF FirstBoot, AllWell
  <2> QED
    BY <1>4, <2>2, <2>3 DEF OnTheWay
<1>6. CASE ~ fresh
  <2>1. step' = "DONE"
    BY <1>6 DEF Installing
  <2>2. Bootstrap("AUTOEXEC.BAT", "AUTOEXEC", "DONE") /\ step = "AUTOEXEC"
    <3>1. frames # <<>> => step = "COPY"
      BY <1>3
    <3>2. ~ Screens
      BY <2>1 DEF Screens, Preflight, Asked, Format, Memory
    <3>3. ~ FoundFile /\ ~ FoundDir /\ ~ LoopEnds /\ ~ Descend /\ ~ Return
      BY <2>1, <3>1 DEF FoundFile, FoundDir, LoopEnds, Searching, Descend, Return
    <3>4. ~ RemoveFlag /\ ~ Leave /\ ~ Bootstrap("CONFIG.SYS", "CONFIG", "AUTOEXEC")
      BY <2>1 DEF RemoveFlag, Bootstrap, Leave, Memory
    <3>5. Bootstrap("AUTOEXEC.BAT", "AUTOEXEC", "DONE")
      BY <1>4, <3>2, <3>3, <3>4 DEF InstallNext
    <3> QED
      BY <3>5 DEF Bootstrap
  <2>3. AllWell /\ disk' = [disk EXCEPT !["AUTOEXEC.BAT"] = "boot"]
    BY <1>2, <2>2, WellWritten DEF TInv, Bootstrap
  <2>4. wiped
    BY <2>2 DEF Bootstrap
  <2>5. \A f \in Needed : disk[f] = "boot"
    BY <2>2, <2>3, <2>4, NeededTried DEF TInv, CopyWell, Copying
  <2>6. disk["NOS-HW.CFG"] = "none"
    BY <2>2, <2>4 DEF TInv, IInv, Guarded, Copying
  <2>7. \A f \in Needed : disk'[f] = "boot"
    BY <1>2, <2>3, <2>5
  <2>8. disk'["AUTOEXEC.BAT"] = "boot" /\ disk'["NOS-HW.CFG"] = "none"
    BY <1>2, <2>3, <2>6
  <2> QED
    BY <1>4, <2>7, <2>8 DEF OnTheWay
<1> QED
  BY <1>5, <1>6

(* So do the machine and DETECT, as long as the welcome is not left.        *)
LEMMA FirstBootStep == BInv /\ [Next]_vars => FirstBoot'
<1> SUFFICES ASSUME BInv, [Next]_vars, fresh', wiped', AllWell' PROVE OnTheWay'
  BY DEF FirstBoot
<1>1. CASE UNCHANGED vars
  BY <1>1 DEF vars, installVars, BInv, FirstBoot, OnTheWay, AllWell
<1>2. CASE Next
  <2>1. blocked' = blocked /\ Moves
    BY <1>2 DEF Next
  <2>2. ~ Trouble
    BY DEF Trouble, AllWell, BInv, TInv, Types
  <2>3. CASE Installing
    BY <2>1, <2>3, InstalledWell
  <2>4. CASE ~ Installing
    <3>1. fresh /\ wiped
      BY <2>1, <2>4 DEF Moves, BootDisc, PowerCut, KeyTyped, BootDisk, BatchGoesOn,
         WelcomeLeft, ShellLeft, Typed, hwcfg_exists, nos_genconf, Generated, write_hwcfg, write_mtcpcfg,
         RemoveWelcomed, write_config_sys, write_profile, Reboot, installVars, Rest
    <3>2. troubles' = troubles
      BY <2>1, <2>2, <2>4 DEF Moves, BootDisc, PowerCut, KeyTyped, BootDisk, BatchGoesOn,
         WelcomeLeft, ShellLeft, Typed, hwcfg_exists, nos_genconf, Generated, write_hwcfg, write_mtcpcfg,
         RemoveWelcomed, write_config_sys, write_profile, Reboot, installVars, Rest, Written, Unopened
    <3>3. AllWell /\ OnTheWay
      BY <2>1, <3>1, <3>2 DEF AllWell, BInv, FirstBoot
    <3>4. \A f \in File : \A content : Written(f, content) \/ Unopened(f) => disk' = [disk EXCEPT ![f] = content]
      BY <2>1, WellWritten DEF BInv, TInv
    <3>5. \A f \in File : ~ Unopened(f)
      BY <3>3 DEF AllWell, Unopened
    <3>6. /\ {"CONFIG.SYS", "AUTOEXEC.BAT", "NOS-HW.CFG", "MTCP.CFG", "WELCOMED"} \subseteq File /\ DOMAIN disk = File
          /\ \A f \in Needed : f \in File /\ f \notin {"CONFIG.SYS", "AUTOEXEC.BAT", "NOS-HW.CFG", "MTCP.CFG", "WELCOMED"}
      BY Names, NeededNames DEF BInv, TInv, Types
    <3>7. disk["WELCOMED"] = "none"
      BY <3>1 DEF BInv, TInv, IInv, Unwelcomed
    <3>8. {"DETECT.EXE", "CONFIG.TPL", "AUTOEXEC.TPL", "SHELL.EXE"} \subseteq File
          /\ \A f \in {"DETECT.EXE", "CONFIG.TPL", "AUTOEXEC.TPL", "SHELL.EXE"} : Intact(f) /\ Exists(f)
      BY <3>3, <3>6 DEF OnTheWay, Needed, Intact, Exists
    <3>9. mode \in {"off", "install", "reset"} => call.back = "prompt"
      BY DEF BInv, Uncalled
    <3>10. CASE BootDisc
      BY <3>3, <3>10 DEF BootDisc, OnTheWay, StartUp
    <3>11. CASE PowerCut
      <4>1. mode \notin Writing /\ disk' = disk /\ mode' = "off" /\ call' = NoCall
        BY <2>2, <3>11 DEF PowerCut
      <4> QED
        BY <3>3, <4>1 DEF OnTheWay, StartUp, Writing, NoCall
    <3>12. CASE KeyTyped
      BY <3>3, <3>12 DEF KeyTyped, OnTheWay, StartUp, installVars
    <3>13. CASE BootDisk
      <4>1. UNCHANGED disk /\ disk["AUTOEXEC.BAT"] \in {"boot", "gen"} /\ mode \in {"off", "reset"}
        BY <3>3, <3>13 DEF BootDisk, OnTheWay, StartUp, installVars
      <4>2. CASE disk["AUTOEXEC.BAT"] = "boot"
        <5>1. mode' = "detect" /\ call' = [NoCall EXCEPT !.back = "batch"]
          BY <3>8, <3>13, <4>2 DEF BootDisk
        <5>2. call'.back = "batch" /\ call'.noreboot = FALSE
          BY <5>1 DEF NoCall
        <5> QED
          BY <3>3, <4>1, <4>2, <5>1, <5>2 DEF OnTheWay, StartUp
      <4>3. CASE disk["AUTOEXEC.BAT"] = "gen"
        <5>1. mode' = "batch" /\ call' = call
          BY <3>13, <4>3 DEF BootDisk
        <5> QED
          BY <3>3, <3>9, <4>1, <4>3, <5>1 DEF OnTheWay, StartUp
      <4> QED
        BY <4>1, <4>2, <4>3
    <3>14. CASE BatchGoesOn
      <4>1. mode = "batch" /\ call.back = "prompt" /\ UNCHANGED disk
        BY <3>3, <3>14 DEF BatchGoesOn, OnTheWay, installVars
      <4>2. mode' = "welcome"
        BY <3>7, <3>8, <3>14, <4>1 DEF BatchGoesOn, StartShell, Exists
      <4> QED
        BY <3>3, <4>1, <4>2 DEF OnTheWay, StartUp
    <3>15. CASE ShellLeft \/ Typed \/ write_config_sys \/ write_profile \/ WelcomeLeft
      BY <3>3, <3>15 DEF ShellLeft, Typed, write_config_sys, write_profile, WelcomeLeft, OnTheWay
    <3>16. CASE hwcfg_exists
      <4>1. mode = "detect" /\ mode' = "config" /\ UNCHANGED <<disk, call>>
        BY <3>3, <3>16 DEF hwcfg_exists, OnTheWay, Exists, installVars
      <4> QED
        BY <3>3, <4>1 DEF OnTheWay, StartUp
    <3>17. CASE nos_genconf
      <4>1. \A tpl, f \in File : \A now, then : Generated(now, tpl, f, then) /\ Intact(tpl) /\ Exists(tpl) =>
               mode = now /\ mode' = then /\ UNCHANGED call /\ disk' = [disk EXCEPT ![f] = "gen"]
        BY <3>4, <3>5 DEF Generated
      <4>2. CASE Generated("config", "CONFIG.TPL", "CONFIG.SYS", "autoexec")
        <5>1. mode = "config" /\ mode' = "autoexec" /\ UNCHANGED call /\ disk' = [disk EXCEPT !["CONFIG.SYS"] = "gen"]
          BY <3>6, <3>8, <4>1, <4>2
        <5> QED
          BY <3>3, <3>6, <5>1 DEF OnTheWay, StartUp
      <4>3. CASE Generated("autoexec", "AUTOEXEC.TPL", "AUTOEXEC.BAT", "hwcfg")
        <5>1. mode = "autoexec" /\ mode' = "hwcfg" /\ UNCHANGED call /\ disk' = [disk EXCEPT !["AUTOEXEC.BAT"] = "gen"]
          BY <3>6, <3>8, <4>1, <4>3
        <5> QED
          BY <3>3, <3>6, <5>1 DEF OnTheWay, StartUp
      <4>4. CASE write_hwcfg("mtcp")
        <5>1. mode = "hwcfg" /\ mode' = "mtcp" /\ UNCHANGED call /\ disk' = [disk EXCEPT !["NOS-HW.CFG"] = "gen"]
          BY <3>4, <3>5, <3>6, <4>4 DEF write_hwcfg
        <5> QED
          BY <3>3, <3>6, <5>1 DEF OnTheWay, StartUp
      <4> QED
        BY <3>17, <4>2, <4>3, <4>4 DEF nos_genconf
    <3>18. CASE write_mtcpcfg
      <4>1. mode = "mtcp" /\ mode' = "flag" /\ UNCHANGED call /\ disk' \in {disk, [disk EXCEPT !["MTCP.CFG"] = "gen"]}
        BY <3>3, <3>4, <3>6, <3>18 DEF write_mtcpcfg, OnTheWay
      <4> QED
        BY <3>3, <3>6, <4>1 DEF OnTheWay, StartUp
    <3>19. CASE RemoveWelcomed
      BY <3>3, <3>6, <3>19 DEF RemoveWelcomed, Removed, OnTheWay, StartUp
    <3>20. CASE Reboot
      <4>1. mode = "key" /\ mode' = "reset" /\ UNCHANGED disk /\ call' = NoCall
        BY <3>3, <3>20 DEF Reboot, OnTheWay, installVars
      <4> QED
        BY <3>3, <4>1 DEF OnTheWay, StartUp, NoCall
    <3> QED
      BY <2>1, <2>4, <3>10, <3>11, <3>12, <3>13, <3>14, <3>15, <3>16, <3>17, <3>18, <3>19, <3>20 DEF Moves
  <2> QED
    BY <2>3, <2>4
<1> QED
  BY <1>1, <1>2

(* After an installation on a formatted drive in which nothing went wrong,  *)
(* the first shell the user sees stands on what DETECT has generated.       *)
THEOREM StartupFirstBootConfigured == Spec => []FirstBootConfigured
<1>1. Init => CopyWell /\ Uncalled /\ NotFresh /\ FirstBoot
  BY DEF Init, InstallInit, NoCall, Copying, CopyWell, Uncalled, NotFresh, FirstBoot
<1>2. TInv /\ CopyWell /\ Uncalled /\ NotFresh /\ FirstBoot /\ [Next]_vars
        => CopyWell' /\ Uncalled' /\ NotFresh' /\ FirstBoot'
  BY CopyWellStep, FreshStep, FirstBootStep DEF BInv
<1>3. FirstBoot => FirstBootConfigured
  BY DEF FirstBoot, OnTheWay, FirstBootConfigured, StartUp
<1> QED
  BY <1>1, <1>2, <1>3, TypesInvariant, PTL DEF Spec
==============================================================================
