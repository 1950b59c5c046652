--------------------------- MODULE PreferencesProofs ---------------------------
(***************************************************************************)
(* Proofs about the preference files, for every set of segments, any       *)
(* number of values, crashes and faults: an inductive invariant, the       *)
(* safety properties it implies, and that the files implement              *)
(* PreferenceStore.                                                        *)
(***************************************************************************)
EXTENDS Preferences, SequenceTheorems, TLAPS

\* f is one of the files still to be saved.
In(f, files) == \E i \in 1..Len(files) : files[i] = f

\* A list is empty when it is of no length.
LEMMA EmptyLength ==
    ASSUME NEW S, NEW q \in Seq(S)
    PROVE  Len(q) \in Nat /\ (q = << >> <=> Len(q) = 0)
  BY EmptySeq

\* The lengths a list can have.
LEMMA Lengths ==
    ASSUME NEW n \in Nat
    PROVE  (n = 0 \/ n = 1 \/ n > 1) /\ (n > 1 => n - 1 # 0)
  OBVIOUS

\* A list of files behind another one.
LEMMA InConcat ==
    ASSUME NEW q \in Seq(Files), NEW r \in Seq(Files)
    PROVE  /\ q \o r \in Seq(Files)
           /\ Len(q \o r) = Len(q) + Len(r)
           /\ \A f : In(f, q \o r) <=> In(f, q) \/ In(f, r)
<1>1. /\ q \o r \in Seq(Files)
      /\ Len(q \o r) = Len(q) + Len(r) /\ Len(q) \in Nat /\ Len(r) \in Nat
      /\ \A i \in 1..(Len(q) + Len(r)) :
             (q \o r)[i] = IF i <= Len(q) THEN q[i] ELSE r[i - Len(q)]
  OBVIOUS
<1>2. ASSUME NEW f, In(f, q \o r) PROVE In(f, q) \/ In(f, r)
  <2>1. PICK i \in 1..(Len(q) + Len(r)) : (q \o r)[i] = f
    BY <1>1, <1>2 DEF In
  <2>2. CASE i <= Len(q)
    BY <1>1, <2>1, <2>2 DEF In
  <2>3. CASE ~(i <= Len(q))
    <3>1. i - Len(q) \in 1..Len(r)
      BY <1>1, <2>3
    <3> QED
      BY <1>1, <2>1, <2>3, <3>1 DEF In
  <2> QED
    BY <2>2, <2>3
<1>3. ASSUME NEW f, In(f, q) PROVE In(f, q \o r)
  <2>1. PICK i \in 1..Len(q) : q[i] = f
    BY <1>3 DEF In
  <2>2. i \in 1..(Len(q) + Len(r)) /\ (q \o r)[i] = f
    BY <1>1, <2>1
  <2> QED
    BY <1>1, <2>2 DEF In
<1>4. ASSUME NEW f, In(f, r) PROVE In(f, q \o r)
  <2>1. PICK i \in 1..Len(r) : r[i] = f
    BY <1>4 DEF In
  <2>2. i + Len(q) \in 1..(Len(q) + Len(r)) /\ (q \o r)[i + Len(q)] = f
    BY <1>1, <2>1
  <2> QED
    BY <1>1, <2>2 DEF In
<1> QED
  BY <1>1, <1>2, <1>3, <1>4

\* saveToDiskNoRetry() saves everything it is told to and nothing else.
LEMMA InOrderLists ==
    ASSUME NEW what \in SUBSET Files
    PROVE  /\ InOrder(what) \in Seq(Files)
           /\ \A f : In(f, InOrder(what)) <=> f \in what
           /\ what # {} => InOrder(what) # << >>
<1> DEFINE If(f) == IF f \in what THEN << f >> ELSE << >>
<1>1. ASSUME NEW f PROVE /\ If(f) \in Seq(Files)
                         /\ \A g : In(g, If(f)) <=> g = f /\ g \in what
  <2>1. CASE f \in what
    <3>1. If(f) = << f >> /\ f \in Files
      BY <2>1
    <3>2. << f >> \in Seq(Files) /\ Len(<< f >>) = 1 /\ << f >>[1] = f
      BY <3>1
    <3>3. \A g : In(g, << f >>) <=> g = f
      BY <3>2 DEF In
    <3> QED
      BY <2>1, <3>1, <3>2, <3>3
  <2>2. CASE f \notin what
    <3>1. If(f) = << >>
      BY <2>2
    <3> QED
      BY <2>2, <3>1 DEF In
  <2> QED
    BY <2>1, <2>2
<1> DEFINE q2 == If("config") \o If("moduleconfig")
           q3 == q2 \o If("channels")
           q4 == q3 \o If("devicestate")
           q5 == q4 \o If("nodedatabase")
           q6 == q5 \o If("backup")
<1> HIDE DEF If
<1>2. q2 \in Seq(Files) /\ \A f : In(f, q2) <=> f \in {"config", "moduleconfig"} \cap what
  BY <1>1, InConcat
<1>3. /\ q3 \in Seq(Files)
      /\ \A f : In(f, q3) <=> f \in {"config", "moduleconfig", "channels"} \cap what
  <2> HIDE DEF q2
  <2> QED BY <1>1, <1>2, InConcat
<1>4. /\ q4 \in Seq(Files)
      /\ \A f : In(f, q4) <=> f \in {"config", "moduleconfig", "channels", "devicestate"} \cap what
  <2> HIDE DEF q3
  <2> QED BY <1>1, <1>3, InConcat
<1>5. q5 \in Seq(Files) /\ \A f : In(f, q5) <=> f \in AllSegments \cap what
  <2> HIDE DEF q4
  <2> QED BY <1>1, <1>4, InConcat DEF AllSegments
<1>6. q6 \in Seq(Files) /\ \A f : In(f, q6) <=> f \in (AllSegments \cup {"backup"}) \cap what
  <2> HIDE DEF q5
  <2> QED BY <1>1, <1>5, InConcat
<1>7. InOrder(what) = q6
  BY DEF InOrder, If
<1>8. what \subseteq AllSegments \cup {"backup"}
  BY PreferenceAssumption DEF PreferenceAssumption, Files
<1> HIDE DEF q6
<1>9. \A f : In(f, InOrder(what)) <=> f \in what
  BY <1>6, <1>7, <1>8
<1>10. what # {} => InOrder(what) # << >>
  BY <1>9 DEF In
<1> QED
  BY <1>6, <1>7, <1>9, <1>10

(***************************************************************************)
(* Beginning a save and letting go of a file.                              *)
(***************************************************************************)

\* A save that is under way saves something.
SaveSane == job # NoJob => job.what # {}

\* saveToDisk() begins with the first of the files it is told to save, or does
\* nothing when there is none.
LEMMA BeginResult ==
    ASSUME NEW what \in SUBSET Files, NEW retry \in BOOLEAN, Begin(what, retry)
    PROVE  \/ what = {} /\ UNCHANGED << file, unsaved >>
           \/ /\ what # {} /\ step' = "open" /\ okay' = TRUE /\ match' = TRUE
              /\ unsaved' = unsaved \ what
              /\ job' \in Jobs /\ job' # NoJob /\ job'.left # << >> /\ job'.what # {}
              /\ job'.ok
              /\ \A f : In(f, job'.left) <=> f \in what
<1>1. CASE what = {}
  BY <1>1 DEF Begin
<1>2. CASE what # {}
  <2>1. job' = [what |-> what, left |-> InOrder(what), ok |-> TRUE, retry |-> retry]
    BY <1>2 DEF Begin
  <2>2. job' \in Jobs /\ job'.left = InOrder(what) /\ job'.what = what /\ job'.ok
    BY <2>1, InOrderLists DEF Jobs
  <2>3. job' # NoJob
    BY <1>2, <2>2 DEF NoJob
  <2> QED
    BY <1>2, <2>2, <2>3, InOrderLists DEF Begin
<1> QED
  BY <1>1, <1>2

\* A file is let go: the next one is opened, all are tried again, or the save ends;
\* as long as nothing has failed only the file in hand leaves the list.
LEMMA FinishResult ==
    ASSUME TypeOK, SaveSane, job # NoJob,
           NEW ok \in BOOLEAN,
           NEW m \in [Files -> Contents], NEW t \in [Files -> Contents],
           Finish(ok, m, t)
    PROVE  /\ job' \in Jobs /\ okay' = TRUE /\ match' = TRUE
           /\ \/ step' = "idle" /\ job' = NoJob
              \/ /\ step' = "open" /\ job' # NoJob /\ job'.left # << >> /\ job'.what # {}
           /\ main' \in [Files -> Contents] /\ tmp' \in [Files -> Contents]
           /\ \/ main' = m /\ tmp' = t
              \/ /\ InPlace /\ ~(job.ok /\ ok)
                 /\ main' = [f \in Files |-> Absent] /\ tmp' = [f \in Files |-> Absent]
           /\ (job.ok /\ ok) =>
                 /\ job'.ok /\ main' = m /\ tmp' = t
                 /\ \A f : In(f, job.left) => f = Hand \/ In(f, job'.left)
<1>0. /\ job \in Jobs /\ job.left \in Seq(Files) /\ job.left # << >> /\ job.ok \in BOOLEAN
      /\ job.what \in SUBSET Files /\ job.what # {} /\ job.retry \in BOOLEAN
      /\ Absent \in Contents
  BY DEF TypeOK, SaveSane, Jobs, Contents
<1>1. \A f : In(f, job.left) => f = Hand \/ In(f, Tail(job.left))
  <2>0. Hand = job.left[1] /\ Len(job.left) \in Nat /\ Len(Tail(job.left)) = Len(job.left) - 1
    BY <1>0 DEF Hand
  <2> SUFFICES ASSUME NEW i \in 1..Len(job.left), i # 1
               PROVE  In(job.left[i], Tail(job.left))
    BY <2>0 DEF In
  <2>1. i - 1 \in 1..Len(Tail(job.left)) /\ Tail(job.left)[i - 1] = job.left[i]
    BY <1>0, <2>0
  <2> QED
    BY <2>1 DEF In
<1>2. CASE Len(job.left) > 1
  <2>1. job' = [job EXCEPT !.left = Tail(@), !.ok = job.ok /\ ok]
    BY <1>2 DEF Finish
  <2>2. Tail(job.left) \in Seq(Files) /\ Tail(job.left) # << >>
    <3>1. Tail(job.left) \in Seq(Files) /\ Len(Tail(job.left)) = Len(job.left) - 1
      BY <1>0
    <3>0. Len(job.left) \in Nat
      BY <1>0
    <3>2. Len(job.left) - 1 # 0
      BY <1>2, <3>0, Lengths
    <3> QED
      BY <3>1, <3>2, EmptyLength, Zenon
  <2>3. /\ job' \in Jobs /\ job'.left = Tail(job.left) /\ job'.what = job.what
        /\ job'.ok = (job.ok /\ ok)
    BY <1>0, <2>1, <2>2 DEF Jobs
  <2>4. job' # NoJob
    BY <1>0, <2>3 DEF NoJob
  <2> QED
    BY <1>0, <1>1, <1>2, <2>2, <2>3, <2>4 DEF Finish
<1>3. CASE ~(Len(job.left) > 1) /\ ~(job.ok /\ ok) /\ job.retry
  <2>1. job' = [job EXCEPT !.left = InOrder(job.what), !.ok = TRUE, !.retry = FALSE]
    BY <1>3 DEF Finish
  <2>2. InOrder(job.what) \in Seq(Files) /\ InOrder(job.what) # << >>
    BY <1>0, InOrderLists
  <2>3. job' \in Jobs /\ job'.left = InOrder(job.what) /\ job'.what = job.what
    BY <1>0, <2>1, <2>2 DEF Jobs
  <2>4. job' # NoJob
    BY <1>0, <2>3 DEF NoJob
  <2>5. /\ main' = [f \in Files |-> IF InPlace THEN Absent ELSE m[f]]
        /\ tmp' = [f \in Files |-> IF InPlace THEN Absent ELSE t[f]]
        /\ step' = "open" /\ okay' = TRUE /\ match' = TRUE
    BY <1>3 DEF Finish
  <2>6. CASE InPlace
    <3>1. main' = [f \in Files |-> Absent] /\ tmp' = [f \in Files |-> Absent]
      BY <2>5, <2>6
    <3> QED
      BY <1>0, <1>3, <2>2, <2>3, <2>4, <2>5, <2>6, <3>1
  <2>7. CASE ~InPlace
    <3>1. main' = m /\ tmp' = t
      BY <2>5, <2>7
    <3> QED
      BY <1>0, <1>3, <2>2, <2>3, <2>4, <2>5, <2>7, <3>1
  <2> QED
    BY <2>6, <2>7
<1>4. CASE ~(Len(job.left) > 1) /\ ~(~(job.ok /\ ok) /\ job.retry)
  <2>1. /\ job' = NoJob /\ step' = "idle" /\ main' = m /\ tmp' = t
        /\ okay' = TRUE /\ match' = TRUE
    BY <1>4 DEF Finish
  <2>2. NoJob \in Jobs /\ NoJob.ok
    BY DEF NoJob, Jobs
  <2>3. Len(job.left) = 1 /\ job.left[1] = Hand
    <3>1. Len(job.left) \in Nat /\ Len(job.left) # 0
      BY <1>0, EmptyLength, Zenon
    <3>2. Len(job.left) = 1
      BY <1>4, <3>1, Lengths
    <3>3. Hand = job.left[1]
      BY <1>0 DEF Hand
    <3> QED
      BY <3>2, <3>3
  <2>4. \A f : In(f, job.left) => f = Hand
    BY <2>3 DEF In
  <2> QED
    BY <1>4, <2>1, <2>2, <2>4
<1> QED
  BY <1>2, <1>3, <1>4

--------------------------------------------------------------------------------
(***************************************************************************)
(* The inductive invariant.                                                *)
(***************************************************************************)

\* Every variable has its type, and a save that is under way saves something.
TypeCorrect == TypeOK /\ SaveSane

\* An ESP32 renames a file that has read back as written, and copies none.
RenamedWhole ==
    platform = "ESP32" =>
        /\ step \notin {"copy", "clean"}
        /\ \A f \in Files : main[f] \notin {Torn, Damaged}
        /\ \A s \in Segments : ram[s] # Damaged
        /\ (step = "close" /\ match) \/ step \in {"replace", "rename"} =>
               tmp[Hand] \in 0..MaxValue

\* An NRF52 writes the file in place.
WrittenInPlace == InPlace => step \notin {"replace", "rename", "copy", "clean"}

\* Without a fault of the flash nothing is reported and no file is let go of but
\* with what is in RAM.
HandWritten ==
    (faults = 0 /\ platform # "STM32") =>
        /\ job.ok /\ okay /\ match
        /\ step \in {"close", "replace", "rename", "copy"} =>
               Written = IF InPlace THEN main[Hand] ELSE tmp[Hand]
        /\ step = "clean" => main[Hand] = Written

\* Then every setting is in its file, or still to be saved.
SavedOrListed ==
    (faults = 0 /\ platform # "STM32" /\ step \notin {"off", "remove"}) =>
        \A s \in Segments :
            \/ s \in unsaved /\ (editing \/ s = "nodedatabase")
            \/ Load(main[s]) = ram[s]
            \/ In(s, job.left)

\* The inductive invariant.
FileInv == TypeCorrect /\ RenamedWhole /\ WrittenInPlace /\ HandWritten /\ SavedOrListed

\* What FileInv says of a state between saves, where no file is in hand.
LEMMA Between ==
    ASSUME TypeCorrect
    PROVE  /\ step \in {"idle", "remove", "off"} <=> job = NoJob
           /\ job # NoJob => /\ job \in Jobs /\ job.left \in Seq(Files) /\ job.left # << >>
                             /\ Hand \in Files /\ Written \in Values
           /\ \A f : ~ In(f, NoJob.left)
<1>1. \A f : ~ In(f, NoJob.left)
  BY DEF In, NoJob
<1>2. (step \in {"idle", "remove", "off"}) <=> job = NoJob
  BY DEF TypeCorrect, TypeOK
<1>3. ASSUME job # NoJob
      PROVE  /\ job \in Jobs /\ job.left \in Seq(Files) /\ job.left # << >>
             /\ Hand \in Files /\ Written \in Values
  <2>1. job \in Jobs /\ job.left \in Seq(Files) /\ job.left # << >>
    BY <1>3 DEF TypeCorrect, TypeOK, Jobs
  <2>2. Hand \in Files
    BY <2>1 DEF Hand
  <2>3. "devicestate" \in Segments
    BY PreferenceAssumption DEF PreferenceAssumption
  <2> QED
    BY <2>1, <2>2, <2>3 DEF TypeCorrect, TypeOK, Written, Files
<1> QED
  BY <1>1, <1>2, <1>3

\* A save begins, or there is nothing to save: what is not in its file is to be saved.
LEMMA BeginInv ==
    ASSUME FileInv, job = NoJob, platform' = platform, UNCHANGED disk,
           crashes' \in 0..MaxCrashes, faults' = faults,
           booting' \in BOOLEAN, editing' \in BOOLEAN,
           ram' \in [Segments -> Values],
           platform = "ESP32" => \A s \in Segments : ram'[s] # Damaged,
           NEW what \in SUBSET Files, NEW retry \in BOOLEAN, Begin(what, retry),
           step = "idle" \/ what # {}, unsaved' \subseteq Segments,
           (faults = 0 /\ platform # "STM32") =>
               \A s \in Segments :
                   \/ s \in unsaved' /\ (editing' \/ s = "nodedatabase")
                   \/ Load(main[s]) = ram'[s]
                   \/ s \in what
    PROVE  FileInv'
<1>1. \/ what = {} /\ UNCHANGED << file, unsaved >>
      \/ /\ what # {} /\ step' = "open" /\ okay' = TRUE /\ match' = TRUE
         /\ unsaved' = unsaved \ what
         /\ job' \in Jobs /\ job' # NoJob /\ job'.left # << >> /\ job'.what # {}
         /\ job'.ok
         /\ \A f : In(f, job'.left) <=> f \in what
  BY BeginResult
<1>2. TypeCorrect'
  <2>1. /\ job' \in Jobs /\ step' \in Steps /\ okay' \in BOOLEAN /\ match' \in BOOLEAN
        /\ (step' \in {"idle", "remove", "off"}) <=> (job' = NoJob)
        /\ job' # NoJob => job'.left # << >> /\ job'.what # {}
    <3>1. CASE what = {}
      BY <1>1, <3>1 DEF FileInv, TypeCorrect, TypeOK, SaveSane, file
    <3>2. CASE what # {}
      BY <1>1, <3>2 DEF Steps
    <3> QED
      BY <3>1, <3>2
  <2> QED
    BY <2>1 DEF FileInv, TypeCorrect, TypeOK, SaveSane, disk
<1>3. RenamedWhole'
  BY <1>1 DEF FileInv, RenamedWhole, file, disk
<1>4. WrittenInPlace'
  BY <1>1 DEF FileInv, WrittenInPlace, InPlace, file
<1>5. HandWritten'
  BY <1>1 DEF FileInv, HandWritten, file
<1>6. SavedOrListed'
  BY <1>1 DEF FileInv, SavedOrListed, Load, file, disk
<1> QED
  BY <1>2, <1>3, <1>4, <1>5, <1>6 DEF FileInv

\* A file is let go of: without a fault, because it holds what is in RAM.
LEMMA FinishInv ==
    ASSUME FileInv, job # NoJob, UNCHANGED << Rest, unsaved >>,
           faults' \in 0..MaxFaults, faults' = 0 => faults = 0,
           NEW ok \in BOOLEAN,
           NEW m \in [Files -> Contents], NEW t \in [Files -> Contents],
           Finish(ok, m, t),
           platform = "ESP32" => \A f \in Files : m[f] \notin {Torn, Damaged},
           \A f \in Files \ {Hand} : m[f] = main[f],
           (faults' = 0 /\ platform # "STM32") =>
               ok /\ (Hand \in Segments => Load(m[Hand]) = ram[Hand])
    PROVE  FileInv'
<1>1. /\ job' \in Jobs /\ okay' = TRUE /\ match' = TRUE
      /\ \/ step' = "idle" /\ job' = NoJob
         \/ /\ step' = "open" /\ job' # NoJob /\ job'.left # << >> /\ job'.what # {}
      /\ main' \in [Files -> Contents] /\ tmp' \in [Files -> Contents]
      /\ \/ main' = m /\ tmp' = t
         \/ /\ InPlace /\ ~(job.ok /\ ok)
            /\ main' = [f \in Files |-> Absent] /\ tmp' = [f \in Files |-> Absent]
      /\ (job.ok /\ ok) =>
            /\ job'.ok /\ main' = m /\ tmp' = t
            /\ \A f : In(f, job.left) => f = Hand \/ In(f, job'.left)
  BY FinishResult DEF FileInv, TypeCorrect
<1>2. TypeCorrect'
  BY <1>1 DEF FileInv, TypeCorrect, TypeOK, SaveSane, Rest, Steps
<1>3. RenamedWhole'
  BY <1>1 DEF FileInv, RenamedWhole, Rest, InPlace
<1>4. WrittenInPlace'
  BY <1>1 DEF WrittenInPlace
<1>5. HandWritten'
  BY <1>1 DEF FileInv, HandWritten, Rest
<1>6. SavedOrListed'
  <2> SUFFICES ASSUME faults' = 0, platform # "STM32", NEW s \in Segments
               PROVE  \/ s \in unsaved' /\ (editing' \/ s = "nodedatabase")
                      \/ Load(main'[s]) = ram'[s]
                      \/ In(s, job'.left)
    BY DEF SavedOrListed, Rest
  <2>1. \/ s \in unsaved /\ (editing \/ s = "nodedatabase")
        \/ Load(main[s]) = ram[s]
        \/ In(s, job.left)
    BY Between DEF FileInv, SavedOrListed
  <2>2. job.ok /\ ok
    BY DEF FileInv, HandWritten
  <2>3. main' = m /\ s \in Files /\ (In(s, job.left) => s = Hand \/ In(s, job'.left))
    BY <1>1, <2>2 DEF Files
  <2>4. s # Hand => main'[s] = main[s]
    BY <2>3
  <2>5. s = Hand => Load(main'[s]) = ram[s]
    BY <2>3
  <2> QED
    BY <2>1, <2>3, <2>4, <2>5 DEF Rest
<1> QED
  BY <1>2, <1>3, <1>4, <1>5, <1>6 DEF FileInv

\* The file in hand stays in hand: all but SavedOrListed and what is said of the file.
LEMMA HandStays ==
    ASSUME FileInv, job # NoJob, UNCHANGED << Rest, unsaved, job >>,
           faults' \in 0..MaxFaults, faults' = 0 => faults = 0,
           main' \in [Files -> Contents], tmp' \in [Files -> Contents],
           step' \in Steps \ {"idle", "remove", "off"},
           okay' \in BOOLEAN, match' \in BOOLEAN,
           RenamedWhole', WrittenInPlace', HandWritten',
           \A f \in Files \ {Hand} : main'[f] = main[f]
    PROVE  FileInv'
<1>1. TypeCorrect'
  BY DEF FileInv, TypeCorrect, TypeOK, SaveSane, Rest
<1>2. Hand \in Files /\ job.left \in Seq(Files) /\ job.left # << >>
  BY Between DEF FileInv
<1>3. In(Hand, job.left)
  <2>1. Hand = job.left[1] /\ 1 \in 1..Len(job.left)
    BY <1>2 DEF Hand
  <2> QED
    BY <2>1 DEF In
<1>4. SavedOrListed'
  <2> SUFFICES ASSUME faults' = 0, platform # "STM32", NEW s \in Segments
               PROVE  \/ s \in unsaved /\ (editing \/ s = "nodedatabase")
                      \/ Load(main'[s]) = ram[s]
                      \/ In(s, job.left)
    BY DEF SavedOrListed, Rest
  <2>1. CASE s = Hand
    BY <1>3, <2>1
  <2>2. CASE s # Hand
    <3>1. main'[s] = main[s]
      BY <2>2 DEF Files
    <3> QED
      BY <3>1, Between DEF FileInv, SavedOrListed
  <2> QED
    BY <2>1, <2>2
<1> QED
  BY <1>1, <1>4 DEF FileInv

\* Each of SafeFile's calls.
LEMMA SaveStepInv == FileInv /\ SaveStep => FileInv'
<1> SUFFICES ASSUME FileInv, SaveStep PROVE FileInv'
  OBVIOUS
<1>0. /\ job # NoJob /\ job \in Jobs /\ Hand \in Files /\ Written \in Values
      /\ main \in [Files -> Contents] /\ tmp \in [Files -> Contents]
      /\ faults \in 0..MaxFaults /\ okay \in BOOLEAN /\ match \in BOOLEAN
  <2>1. step \notin {"idle", "remove", "off"}
    BY DEF SaveStep, OpenFile, WriteFile, CloseFile, Replace, Rename, CopyFile, RemoveTmp
  <2> QED
    BY <2>1, Between DEF FileInv, TypeCorrect, TypeOK
<1>a. /\ Fault => faults' \in 0..MaxFaults /\ faults' # 0
      /\ NoFault => faults' = faults
      /\ MaxValue \in Nat
  BY <1>0, PreferenceAssumption DEF Fault, NoFault, PreferenceAssumption
<1>b. UNCHANGED << Rest, job >> => Hand' = Hand /\ Written' = Written
  BY DEF Hand, Written, Rest
<1>1. CASE OpenFile
  <2> DEFINE m == IF InPlace \/ ~FullAtomic THEN [main EXCEPT ![Hand] = Absent] ELSE main
  <2>0. m \in [Files -> Contents] /\ \A f \in Files \ {Hand} : m[f] = main[f]
    BY <1>0 DEF Contents
  <2>1. CASE NoFault /\ Advance("write") /\ main' = m /\ UNCHANGED tmp
    <3>1. RenamedWhole' /\ WrittenInPlace' /\ HandWritten'
      BY <1>1, <1>0, <1>a, <2>1
      DEF OpenFile, FileInv, RenamedWhole, WrittenInPlace, HandWritten, Advance, Rest,
          InPlace, Torn, Damaged, Absent
    <3> QED
      BY <1>1, <1>0, <1>a, <2>0, <2>1, <3>1, HandStays DEF OpenFile, Advance, Steps
  <2>2. CASE Fault /\ Finish(FALSE, m, tmp)
    <3>1. platform = "ESP32" => \A f \in Files : m[f] \notin {Torn, Damaged}
      BY <1>0 DEF FileInv, RenamedWhole, Torn, Damaged, Absent
    <3> HIDE DEF m
    <3> QED
      BY <1>1, <1>0, <1>a, <2>0, <2>2, <3>1, FinishInv DEF OpenFile
  <2> QED
    BY <1>1, <2>1, <2>2 DEF OpenFile
<1>2. CASE WriteFile
  <2> DEFINE Put(c) == IF InPlace THEN main' = [main EXCEPT ![Hand] = c] /\ UNCHANGED tmp
                       ELSE tmp' = [tmp EXCEPT ![Hand] = c] /\ UNCHANGED main
  <2>1. PICK c \in Contents :
            /\ Put(c)
            /\ \/ /\ NoFault /\ okay' = TRUE
                  /\ platform # "STM32" => match' = TRUE
                  /\ match' = TRUE => c = Written
               \/ Fault /\ match' = FALSE
    BY <1>0, <1>2 DEF WriteFile, Contents, Values
  <2>2. /\ step' = "close" /\ UNCHANGED << Rest, unsaved, job >>
        /\ okay' \in BOOLEAN /\ match' \in BOOLEAN
    BY <1>2 DEF WriteFile
  <2>3. /\ main' \in [Files -> Contents] /\ tmp' \in [Files -> Contents]
        /\ \A f \in Files \ {Hand} : main'[f] = main[f]
        /\ ~InPlace => main' = main /\ tmp'[Hand] = c
        /\ InPlace => main'[Hand] = c
    BY <1>0, <2>1
  <2>4. RenamedWhole'
    <3>1. ~(platform = "ESP32" /\ InPlace)
      BY DEF InPlace
    <3>2. platform = "ESP32" => Written \in 0..MaxValue
      BY <1>0, PreferenceAssumption
      DEF FileInv, RenamedWhole, TypeCorrect, TypeOK, Written, Values, Files,
          PreferenceAssumption
    <3> QED
      BY <1>0, <1>a, <1>b, <2>1, <2>2, <2>3, <3>1, <3>2 DEF FileInv, RenamedWhole, Rest
  <2>5. WrittenInPlace'
    BY <2>2 DEF WrittenInPlace
  <2>6. HandWritten'
    BY <1>0, <1>a, <1>b, <2>1, <2>2, <2>3 DEF FileInv, HandWritten, Rest, InPlace
  <2> QED
    BY <1>0, <1>a, <2>1, <2>2, <2>3, <2>4, <2>5, <2>6, HandStays DEF Steps
<1>3. CASE CloseFile
  <2>1. CASE NoFault /\ match /\ Advance("replace") /\ UNCHANGED disk /\ ~InPlace
    <3>1. RenamedWhole' /\ WrittenInPlace' /\ HandWritten'
      BY <1>0, <1>3, <1>a, <1>b, <2>1
      DEF CloseFile, FileInv, RenamedWhole, WrittenInPlace, HandWritten, Advance, Rest,
          InPlace, disk
    <3> QED
      BY <1>0, <1>3, <1>a, <2>1, <3>1, HandStays DEF CloseFile, Advance, Steps, disk
  <2>2. CASE ~InPlace /\ Finish(okay, main, tmp) /\ ((NoFault /\ ~match) \/ Fault)
    BY <1>0, <1>3, <1>a, <2>2, FinishInv DEF CloseFile, FileInv, RenamedWhole, HandWritten, Rest
  <2>3. CASE InPlace /\ NoFault /\ Finish(okay, main, tmp)
    <3>1. (faults = 0 /\ platform # "STM32") => okay /\ main[Hand] = Written
      BY <1>3, <2>3 DEF CloseFile, FileInv, HandWritten
    <3>2. Hand \in Segments => Written = ram[Hand] /\ Load(Written) = Written
      BY <1>0, PreferenceAssumption
      DEF Written, Load, Values, Absent, Torn, Damaged, PreferenceAssumption, AllSegments
    <3> QED
      BY <1>0, <1>3, <1>a, <2>3, <3>1, <3>2, FinishInv DEF CloseFile, FileInv, RenamedWhole
  <2> QED
    BY <1>3, <2>1, <2>2, <2>3 DEF CloseFile
<1>4. CASE Replace
  <2>1. CASE NoFault /\ Advance("rename") /\ UNCHANGED tmp
             /\ main' = IF FullAtomic THEN [main EXCEPT ![Hand] = Absent] ELSE main
    <3>1. RenamedWhole' /\ WrittenInPlace' /\ HandWritten'
      BY <1>0, <1>4, <1>a, <1>b, <2>1
      DEF Replace, FileInv, RenamedWhole, WrittenInPlace, HandWritten, Advance, Rest,
          InPlace, Absent, Torn, Damaged
    <3>2. main' \in [Files -> Contents] /\ \A f \in Files \ {Hand} : main'[f] = main[f]
      BY <1>0, <2>1 DEF Contents
    <3> QED
      BY <1>0, <1>4, <1>a, <2>1, <3>1, <3>2, HandStays DEF Replace, Advance, Steps
  <2>2. CASE Fault /\ Finish(okay, main, tmp)
    BY <1>0, <1>4, <1>a, <2>2, FinishInv DEF Replace, FileInv, RenamedWhole
  <2> QED
    BY <1>4, <2>1, <2>2 DEF Replace
<1>c. Hand \in Segments => Written = ram[Hand] /\ Load(Written) = Written
  BY <1>0, PreferenceAssumption
  DEF Written, Load, Values, Absent, Torn, Damaged, PreferenceAssumption, AllSegments
<1>5. CASE Rename
  <2>1. CASE NoFault /\ platform = "ESP32"
             /\ Finish(okay, [main EXCEPT ![Hand] = tmp[Hand]], [tmp EXCEPT ![Hand] = Absent])
    <3> DEFINE m == [main EXCEPT ![Hand] = tmp[Hand]]
               t == [tmp EXCEPT ![Hand] = Absent]
    <3>1. /\ m \in [Files -> Contents] /\ t \in [Files -> Contents]
          /\ m[Hand] = tmp[Hand] /\ \A f \in Files \ {Hand} : m[f] = main[f]
      BY <1>0 DEF Contents
    <3>2. tmp[Hand] \in 0..MaxValue
      BY <1>5, <2>1 DEF Rename, FileInv, RenamedWhole
    <3>3. \A f \in Files : m[f] \notin {Torn, Damaged}
      <4> SUFFICES ASSUME NEW f \in Files PROVE m[f] \notin {Torn, Damaged}
        OBVIOUS
      <4>1. CASE f = Hand
        BY <1>a, <3>1, <3>2, <4>1 DEF Torn, Damaged
      <4>2. CASE f # Hand
        BY <2>1, <3>1, <4>2 DEF FileInv, RenamedWhole
      <4> QED
        BY <4>1, <4>2
    <3>4. faults = 0 => okay /\ m[Hand] = Written
      BY <1>5, <2>1, <3>1 DEF Rename, FileInv, HandWritten, InPlace
    <3> HIDE DEF m, t
    <3>5. Finish(okay, m, t)
      BY <2>1 DEF m, t
    <3> QED
      BY <1>0, <1>5, <1>a, <1>c, <2>1, <3>1, <3>3, <3>4, <3>5, FinishInv DEF Rename
  <2>2. CASE NoFault /\ platform # "ESP32" /\ Advance("copy") /\ UNCHANGED disk
    <3>1. RenamedWhole' /\ WrittenInPlace' /\ HandWritten'
      BY <1>0, <1>5, <1>a, <1>b, <2>2
      DEF Rename, FileInv, RenamedWhole, WrittenInPlace, HandWritten, Advance, Rest,
          InPlace, disk
    <3> QED
      BY <1>0, <1>5, <1>a, <2>2, <3>1, HandStays DEF Rename, Advance, Steps, disk
  <2>3. CASE Fault /\ Finish(okay, main, tmp)
    BY <1>0, <1>5, <1>a, <2>3, FinishInv DEF Rename, FileInv, RenamedWhole
  <2> QED
    BY <1>5, <2>1, <2>2, <2>3 DEF Rename
<1>6. CASE CopyFile
  <2>1. PICK c \in Contents :
            /\ main' = [main EXCEPT ![Hand] = c]
            /\ (NoFault /\ c = tmp[Hand]) \/ Fault
    BY <1>0, <1>6 DEF CopyFile, Contents, Values
  <2>2. main' \in [Files -> Contents] /\ main'[Hand] = c
        /\ \A f \in Files \ {Hand} : main'[f] = main[f]
    BY <1>0, <2>1
  <2>3. RenamedWhole' /\ WrittenInPlace' /\ HandWritten'
    BY <1>0, <1>6, <1>a, <1>b, <2>1, <2>2
    DEF CopyFile, FileInv, RenamedWhole, WrittenInPlace, HandWritten, Advance, Rest, InPlace
  <2> QED
    BY <1>0, <1>6, <1>a, <2>1, <2>2, <2>3, HandStays DEF CopyFile, Advance, Steps
<1>7. CASE RemoveTmp
  <2>1. /\ platform # "ESP32"
        /\ (faults = 0 /\ platform # "STM32") => okay /\ main[Hand] = Written
    BY <1>7 DEF RemoveTmp, FileInv, RenamedWhole, HandWritten
  <2>2. PICK t \in [Files -> Contents] : Finish(okay, main, t) /\ (NoFault \/ Fault)
    BY <1>0, <1>7 DEF RemoveTmp, Contents
  <2> QED
    BY <1>0, <1>7, <1>a, <1>c, <2>1, <2>2, FinishInv DEF RemoveTmp
<1> QED
  BY <1>1, <1>2, <1>3, <1>4, <1>5, <1>6, <1>7 DEF SaveStep


\* Between saves: the owner's and the node database's ways to change and save settings.
LEMMA ChangeStepInv ==
    ASSUME FileInv,
           \/ \E s \in Segments, v \in 0..MaxValue : Edit(s, v)
           \/ \E v \in 0..MaxValue : UpdateUser(v) \/ RemoveNodeByNum(v)
           \/ ResetNodes \/ BeginEdit \/ CommitEdit \/ SaveAll
           \/ BackupPreferences \/ RestorePreferences
    PROVE  FileInv'
<1>0. /\ step = "idle" /\ job = NoJob /\ UNCHANGED << Still, booting >>
      /\ MaxValue \in Nat
      /\ Segments \subseteq Files /\ {"devicestate", "nodedatabase"} \subseteq Segments
  <2>1. step = "idle" /\ UNCHANGED << Still, booting >>
    BY DEF Edit, UpdateUser, RemoveNodeByNum, ResetNodes, SaveNodes, BeginEdit, CommitEdit,
           SaveAll, BackupPreferences, RestorePreferences, Idle
  <2> QED
    BY <2>1, Between, PreferenceAssumption DEF FileInv, PreferenceAssumption, Files
<1>a. /\ main \in [Files -> Contents] /\ ram \in [Segments -> Values]
      /\ booting \in BOOLEAN /\ editing \in BOOLEAN /\ unsaved \subseteq Segments
      /\ crashes \in 0..MaxCrashes /\ faults \in 0..MaxFaults
      /\ platform = "ESP32" =>
             /\ \A f \in Files : main[f] \notin {Torn, Damaged}
             /\ \A s \in Segments : ram[s] # Damaged
  BY DEF FileInv, TypeCorrect, TypeOK, RenamedWhole
<1>b. (faults = 0 /\ platform # "STM32") =>
          \A s \in Segments :
              (s \in unsaved /\ (editing \/ s = "nodedatabase")) \/ Load(main[s]) = ram[s]
  BY <1>0, Between DEF FileInv, SavedOrListed
<1>c. \A v \in 0..MaxValue : v \in Values /\ v # Damaged
  BY <1>0 DEF Values, Damaged
\* Only a variable that is not in "file" or "disk" changes.
<1>d. ASSUME UNCHANGED << Still, file, booting >>, editing' \in BOOLEAN,
             ram' \in [Segments -> Values], unsaved' \subseteq Segments,
             platform = "ESP32" => \A s \in Segments : ram'[s] # Damaged,
             (faults = 0 /\ platform # "STM32") =>
                 \A s \in Segments :
                     \/ s \in unsaved' /\ (editing' \/ s = "nodedatabase")
                     \/ Load(main[s]) = ram'[s]
      PROVE  FileInv'
  <2>1. TypeCorrect'
    BY <1>d DEF FileInv, TypeCorrect, TypeOK, SaveSane, Still, file, disk
  <2>2. RenamedWhole' /\ WrittenInPlace' /\ HandWritten' /\ SavedOrListed'
    BY <1>0, <1>d DEF FileInv, RenamedWhole, WrittenInPlace, HandWritten, SavedOrListed, Still,
       file, disk, InPlace, Load
  <2> QED
    BY <2>1, <2>2 DEF FileInv
<1>1. ASSUME NEW s \in Segments, NEW v \in 0..MaxValue, Edit(s, v) PROVE FileInv'
  <2>1. /\ ram' \in [Segments -> Values] /\ ram'[s] = v
        /\ \A t \in Segments \ {s} : ram'[t] = ram[t]
        /\ s # "nodedatabase"
    BY <1>1, <1>a, <1>c DEF Edit
  <2>2. platform = "ESP32" => \A t \in Segments : ram'[t] # Damaged
    BY <1>a, <1>c, <2>1
  <2>3. CASE editing
    BY <1>1, <1>0, <1>a, <1>b, <1>d, <2>1, <2>2, <2>3 DEF Edit
  <2>4. CASE ~editing
    <3>1. unsaved' \subseteq Segments /\ (unsaved' = unsaved \/ unsaved' = unsaved \ {s})
      BY <1>1, <1>a, <2>4 DEF Edit, Begin
    <3>2. (faults = 0 /\ platform # "STM32") =>
               \A t \in Segments :
                   \/ t \in unsaved' /\ (editing \/ t = "nodedatabase")
                   \/ Load(main[t]) = ram'[t]
                   \/ t \in {s}
      BY <1>b, <2>1, <3>1
    <3>3. {s} \in SUBSET Files /\ Begin({s}, TRUE) /\ editing' = editing
      BY <1>1, <1>0, <2>4 DEF Edit
    <3> QED
      BY <1>0, <1>a, <2>1, <2>2, <3>1, <3>2, <3>3, BeginInv DEF Still
  <2> QED
    BY <2>3, <2>4
<1>2. ASSUME NEW v \in 0..MaxValue, UpdateUser(v) PROVE FileInv'
  <2>1. /\ ram' \in [Segments -> Values] /\ ram'["nodedatabase"] = v
        /\ \A t \in Segments \ {"nodedatabase"} : ram'[t] = ram[t]
        /\ editing' = editing
    BY <1>2, <1>0, <1>a, <1>c DEF UpdateUser
  <2>2. platform = "ESP32" => \A t \in Segments : ram'[t] # Damaged
    BY <1>a, <1>c, <2>1
  <2>3. CASE Begin({"nodedatabase"}, TRUE)
    <3>1. unsaved' \subseteq Segments /\ unsaved' = unsaved \ {"nodedatabase"}
      BY <1>a, <2>3 DEF Begin
    <3>2. (faults = 0 /\ platform # "STM32") =>
               \A t \in Segments :
                   \/ t \in unsaved' /\ (editing \/ t = "nodedatabase")
                   \/ Load(main[t]) = ram'[t]
                   \/ t \in {"nodedatabase"}
      BY <1>b, <2>1, <3>1
    <3>3. {"nodedatabase"} \in SUBSET Files
      BY <1>0
    <3> QED
      BY <1>0, <1>a, <2>1, <2>2, <2>3, <3>1, <3>2, <3>3, BeginInv DEF Still
  <2>4. CASE unsaved' = unsaved \cup {"nodedatabase"} /\ UNCHANGED file
    <3>1. (faults = 0 /\ platform # "STM32") =>
               \A t \in Segments :
                   \/ t \in unsaved' /\ (editing' \/ t = "nodedatabase")
                   \/ Load(main[t]) = ram'[t]
      BY <1>b, <2>1, <2>4
    <3> QED
      BY <1>0, <1>a, <1>d, <2>1, <2>2, <2>4, <3>1
  <2> QED
    BY <1>2, <2>3, <2>4 DEF UpdateUser
<1>3. ASSUME NEW v \in 0..MaxValue, NEW left \in Seq(Files),
             Len(left) > 0, left[1] = "nodedatabase", SaveNodes(v, left)
      PROVE  FileInv'
  <2>1. /\ ram' \in [Segments -> Values] /\ ram'["nodedatabase"] = v
        /\ \A t \in Segments \ {"nodedatabase"} : ram'[t] = ram[t]
        /\ editing' = editing /\ okay' = okay /\ match' = match /\ step' = "open"
        /\ unsaved' = unsaved \ job'.what
    BY <1>3, <1>0, <1>a, <1>c DEF SaveNodes
  <2>2. platform = "ESP32" => \A t \in Segments : ram'[t] # Damaged
    BY <1>a, <1>c, <2>1
  <2>3. job' = [what |-> {left[i] : i \in DOMAIN left}, left |-> left,
                ok |-> TRUE, retry |-> FALSE]
    BY <1>3 DEF SaveNodes
  <2>4. /\ DOMAIN left = 1..Len(left) /\ 1 \in 1..Len(left)
        /\ \A i \in 1..Len(left) : left[i] \in Files
        /\ left # << >>
    BY <1>3
  <2>5. /\ job'.left = left /\ job'.ok /\ job'.what = {left[i] : i \in DOMAIN left}
        /\ \A f : f \in job'.what <=> In(f, left)
        /\ job'.what \in SUBSET Files /\ job'.what # {} /\ In("nodedatabase", left)
    BY <1>3, <2>3, <2>4 DEF In
  <2>6. job' \in Jobs /\ job' # NoJob
    BY <2>3, <2>5 DEF Jobs, NoJob
  <2>7. TypeCorrect'
    BY <1>0, <1>a, <2>1, <2>4, <2>5, <2>6
    DEF FileInv, TypeCorrect, TypeOK, SaveSane, Still, disk, Steps
  <2>8. RenamedWhole' /\ WrittenInPlace' /\ HandWritten'
    BY <1>0, <1>a, <2>1, <2>2, <2>5
    DEF FileInv, RenamedWhole, WrittenInPlace, HandWritten, Still, disk
  <2>9. SavedOrListed'
    BY <1>0, <1>b, <2>1, <2>5 DEF SavedOrListed, Still, disk, Load
  <2> QED
    BY <2>7, <2>8, <2>9 DEF FileInv
<1>4. CASE BeginEdit
  BY <1>4, <1>a, <1>b, <1>d DEF BeginEdit
<1>5. ASSUME editing' \in BOOLEAN, ram' = ram, Begin(Segments, TRUE) PROVE FileInv'
  <2>1. unsaved' \subseteq Segments
    BY <1>5, <1>a DEF Begin
  <2> QED
    BY <1>5, <1>0, <1>a, <2>1, BeginInv DEF Still
<1>6. CASE BackupPreferences
  <2>1. unsaved' = unsaved \ {"backup"} /\ {"backup"} \in SUBSET Files
    BY <1>6, <1>a DEF BackupPreferences, Begin, Files
  <2>2. (faults = 0 /\ platform # "STM32") =>
               \A t \in Segments :
                   \/ t \in unsaved' /\ (editing \/ t = "nodedatabase")
                   \/ Load(main[t]) = ram[t]
                   \/ t \in {"backup"}
    BY <1>b, <2>1
  <2> QED
    BY <1>6, <1>0, <1>a, <2>1, <2>2, BeginInv DEF Still, BackupPreferences
<1>7. CASE RestorePreferences
  <2> DEFINE v == IF main["backup"] = Torn THEN Damaged ELSE main["backup"]
  <2>1. v \in Values /\ (platform = "ESP32" => v # Damaged)
    BY <1>7, <1>a DEF RestorePreferences, Contents, Values, Files
  <2>2. /\ ram' \in [Segments -> Values] /\ ram'["devicestate"] = v
        /\ \A t \in Segments \ {"devicestate"} : ram'[t] = ram[t]
        /\ editing' = editing /\ Begin({"devicestate"}, TRUE)
    BY <1>7, <1>0, <1>a, <2>1 DEF RestorePreferences
  <2>3. platform = "ESP32" => \A t \in Segments : ram'[t] # Damaged
    BY <1>a, <2>1, <2>2
  <2>4. unsaved' = unsaved \ {"devicestate"}
    BY <2>2 DEF Begin
  <2>5. (faults = 0 /\ platform # "STM32") =>
               \A t \in Segments :
                   \/ t \in unsaved' /\ (editing \/ t = "nodedatabase")
                   \/ Load(main[t]) = ram'[t]
                   \/ t \in {"devicestate"}
    BY <1>b, <2>2, <2>4
  <2> QED
    BY <1>0, <1>a, <2>2, <2>3, <2>4, <2>5, BeginInv DEF Still
<1>8. ASSUME NEW v \in 0..MaxValue, RemoveNodeByNum(v) PROVE FileInv'
  <2> DEFINE left == << "nodedatabase" >>
  <2>1. left \in Seq(Files) /\ Len(left) > 0 /\ left[1] = "nodedatabase"
    BY <1>0
  <2>2. SaveNodes(v, left)
    BY <1>8 DEF RemoveNodeByNum
  <2> HIDE DEF left
  <2> QED
    BY <1>3, <2>1, <2>2
<1>9. CASE ResetNodes
  <2> DEFINE left == << "nodedatabase", "devicestate" >>
  <2>1. left \in Seq(Files) /\ Len(left) > 0 /\ left[1] = "nodedatabase"
    BY <1>0
  <2>2. SaveNodes(0, left) /\ 0 \in 0..MaxValue
    BY <1>0, <1>9 DEF ResetNodes
  <2> HIDE DEF left
  <2> QED
    BY <1>3, <2>1, <2>2
<1>10. CASE CommitEdit
  BY <1>10, <1>5 DEF CommitEdit
<1>11. CASE SaveAll
  BY <1>11, <1>a, <1>5 DEF SaveAll
<1> QED
  BY <1>1, <1>2, <1>4, <1>6, <1>7, <1>8, <1>9, <1>10, <1>11

\* A factory reset, a loss of power and a boot.
LEMMA ResetStepInv ==
    ASSUME FileInv,
           \/ FactoryReset \/ InstallDefaults \/ \E f \in Segments : RemoveFile(f)
           \/ PowerLoss \/ Boot
           \/ \E dirty \in SUBSET (Segments \ {"moduleconfig"}) : BootSave(dirty)
    PROVE  FileInv'
<1>0. /\ MaxValue \in Nat /\ MaxCrashes \in Nat /\ Segments \subseteq Files
      /\ {"devicestate", "nodedatabase"} \subseteq Segments
      /\ TypeCorrect
      /\ step \in {"idle", "remove", "off"} => job = NoJob
  BY Between, PreferenceAssumption DEF FileInv, PreferenceAssumption, Files
<1>a. /\ main \in [Files -> Contents] /\ tmp \in [Files -> Contents]
      /\ ram \in [Segments -> Values]
      /\ booting \in BOOLEAN /\ editing \in BOOLEAN /\ unsaved \subseteq Segments
      /\ crashes \in 0..MaxCrashes /\ faults \in 0..MaxFaults
      /\ platform = "ESP32" =>
             /\ \A f \in Files : main[f] \notin {Torn, Damaged}
             /\ \A s \in Segments : ram[s] # Damaged
  BY DEF FileInv, TypeCorrect, TypeOK, RenamedWhole
<1>b. 0 \in Values /\ 0 # Damaged
  BY <1>0 DEF Values, Damaged
<1>1. CASE FactoryReset
  <2>1. TypeCorrect'
    BY <1>0, <1>1 DEF FactoryReset, Idle, TypeCorrect, TypeOK, SaveSane, Still, disk, Steps
  <2>2. RenamedWhole' /\ WrittenInPlace' /\ HandWritten' /\ SavedOrListed'
    BY <1>1 DEF FileInv, FactoryReset, RenamedWhole, WrittenInPlace, HandWritten, SavedOrListed,
       Still, disk
  <2> QED
    BY <2>1, <2>2 DEF FileInv
<1>2. CASE InstallDefaults
  <2>1. ram' \in [Segments -> Values] /\ \A s \in Segments : ram'[s] = 0
    BY <1>2, <1>b DEF InstallDefaults
  <2>2. /\ Begin(Segments, TRUE) /\ job = NoJob /\ UNCHANGED << Still, booting, editing >>
        /\ Segments # {}
    BY <1>0, <1>2 DEF InstallDefaults
  <2>3. unsaved' \subseteq Segments
    BY <1>a, <2>2 DEF Begin
  <2> QED
    BY <1>0, <1>a, <1>b, <2>1, <2>2, <2>3, BeginInv DEF Still
<1>3. ASSUME NEW f \in Segments, RemoveFile(f) PROVE FileInv'
  <2>1. /\ main' \in [Files -> Contents] /\ tmp' \in [Files -> Contents]
        /\ \A g \in Files : main'[g] = main[g] \/ main'[g] = Absent
        /\ step = "remove"
        /\ UNCHANGED << platform, ram, file, booting, editing, unsaved, crashes, faults >>
    BY <1>0, <1>3, <1>a DEF RemoveFile, Contents
  <2>2. TypeCorrect'
    BY <1>0, <2>1 DEF TypeCorrect, TypeOK, SaveSane, file
  <2>3. RenamedWhole' /\ WrittenInPlace' /\ HandWritten' /\ SavedOrListed'
    BY <1>a, <2>1 DEF FileInv, RenamedWhole, WrittenInPlace, HandWritten, SavedOrListed, file,
       Absent, Torn, Damaged
  <2> QED
    BY <2>2, <2>3 DEF FileInv
<1>4. CASE PowerLoss
  <2>1. /\ job' = NoJob /\ step' = "off" /\ okay' = TRUE /\ match' = TRUE
        /\ booting' = FALSE /\ editing' = FALSE /\ unsaved' = {}
        /\ UNCHANGED << platform, faults >> /\ step # "off"
        /\ crashes' \in 0..MaxCrashes
        /\ ram' = [s \in Segments |-> 0]
    BY <1>0, <1>4, <1>a DEF PowerLoss
  <2>2. step \notin {"idle", "remove", "off"} =>
            Hand \in Files /\ Written \in Values
    BY <1>0, Between
  <2>3. /\ main' \in [Files -> Contents] /\ tmp' \in [Files -> Contents]
        /\ main' = main \/ step = "copy" \/ InPlace
    <3>1. CASE step = "copy" \/ (InPlace /\ step \in {"write", "close"})
      BY <1>4, <1>a, <2>2, <3>1 DEF PowerLoss, Contents, Values
    <3>2. CASE ~(step = "copy" \/ (InPlace /\ step \in {"write", "close"}))
                /\ step \in {"write", "close"}
      BY <1>4, <1>a, <2>2, <3>2 DEF PowerLoss, Contents, Values
    <3>3. CASE step \notin {"copy", "write", "close"}
      BY <1>4, <1>a, <3>3 DEF PowerLoss, disk
    <3> QED
      BY <3>1, <3>2, <3>3
  <2>4. ram' \in [Segments -> Values] /\ \A s \in Segments : ram'[s] # Damaged
    BY <1>b, <2>1
  <2>5. NoJob \in Jobs /\ NoJob.ok
    BY DEF NoJob, Jobs
  <2>6. TypeCorrect'
    BY <1>0, <2>1, <2>3, <2>4, <2>5 DEF TypeCorrect, TypeOK, SaveSane, Steps
  <2>7. RenamedWhole'
    <3>1. platform = "ESP32" => main' = main
      BY <2>3 DEF FileInv, RenamedWhole, InPlace
    <3> QED
      BY <1>a, <2>1, <2>4, <3>1 DEF RenamedWhole
  <2>8. WrittenInPlace' /\ HandWritten' /\ SavedOrListed'
    BY <2>1, <2>5 DEF WrittenInPlace, HandWritten, SavedOrListed
  <2> QED
    BY <2>6, <2>7, <2>8 DEF FileInv
<1>5. CASE Boot
  <2>1. /\ ram' = [s \in Segments |-> Load(main[s])] /\ job = NoJob /\ booting' = TRUE
        /\ UNCHANGED << Still, editing >>
    BY <1>0, <1>5 DEF Boot
  <2>2. \A s \in Segments : Load(main[s]) \in Values
    BY <1>0, <1>a, <1>b DEF Load, Contents, Values
  <2>3. /\ ram' \in [Segments -> Values] /\ \A s \in Segments : ram'[s] = Load(main[s])
    BY <2>1, <2>2
  <2>4. platform = "ESP32" => \A s \in Segments : ram'[s] # Damaged
    BY <1>0, <1>a, <1>b, <2>3 DEF Load
  <2>5. CASE main["nodedatabase"] = Absent
    <3>1. Begin({"nodedatabase"}, FALSE) /\ {"nodedatabase"} \in SUBSET Files
      BY <1>0, <1>5, <2>5 DEF Boot
    <3>2. unsaved' \subseteq Segments
      BY <1>a, <3>1 DEF Begin
    <3> QED
      BY <1>a, <2>1, <2>3, <2>4, <3>1, <3>2, BeginInv DEF Still
  <2>6. CASE main["nodedatabase"] # Absent
    <3>1. step' = "idle" /\ UNCHANGED << job, okay, match, unsaved >>
      BY <1>5, <2>6 DEF Boot
    <3>2. TypeCorrect'
      BY <1>0, <2>1, <2>3, <3>1 DEF TypeCorrect, TypeOK, SaveSane, Still, disk, Steps
    <3>3. RenamedWhole' /\ WrittenInPlace' /\ HandWritten' /\ SavedOrListed'
      BY <1>a, <2>1, <2>3, <2>4, <3>1
      DEF FileInv, RenamedWhole, WrittenInPlace, HandWritten, SavedOrListed, Still, disk, Load
    <3> QED
      BY <3>2, <3>3 DEF FileInv
  <2> QED
    BY <2>5, <2>6
<1>6. ASSUME NEW dirty \in SUBSET (Segments \ {"moduleconfig"}), BootSave(dirty) PROVE FileInv'
  <2>1. /\ step = "idle" /\ job = NoJob /\ Begin(dirty, TRUE) /\ dirty \in SUBSET Files
        /\ UNCHANGED << Still, ram, editing >> /\ booting' = FALSE
    BY <1>0, <1>6 DEF BootSave
  <2>2. unsaved' \subseteq Segments /\ (unsaved' = unsaved \/ unsaved' = unsaved \ dirty)
    BY <1>a, <2>1 DEF Begin
  <2>3. (faults = 0 /\ platform # "STM32") =>
               \A t \in Segments :
                   \/ t \in unsaved' /\ (editing \/ t = "nodedatabase")
                   \/ Load(main[t]) = ram[t]
                   \/ t \in dirty
    BY <2>1, <2>2, Between DEF FileInv, SavedOrListed
  <2> QED
    BY <1>a, <2>1, <2>2, <2>3, BeginInv DEF Still
<1> QED
  BY <1>1, <1>2, <1>3, <1>4, <1>5, <1>6

--------------------------------------------------------------------------------
(***************************************************************************)
(* The invariants.                                                         *)
(***************************************************************************)

\* FileInv holds of every reachable state, on every platform.
THEOREM FileInvariance == Spec => []FileInv
<1>1. Init => FileInv
  <2> SUFFICES ASSUME Init PROVE FileInv
    OBVIOUS
  <2>1. /\ 0 \in Values /\ 0 # Damaged /\ NoJob \in Jobs /\ NoJob.ok
        /\ MaxCrashes \in Nat /\ MaxFaults \in Nat /\ Segments \subseteq Files
    BY PreferenceAssumption DEF PreferenceAssumption, Values, Damaged, NoJob, Jobs, Files
  <2>2. TypeCorrect
    <3>1. /\ main \in [Files -> Contents] /\ tmp \in [Files -> Contents]
          /\ ram \in [Segments -> Values]
      BY <2>1 DEF Init, Contents
    <3>2. crashes \in 0..MaxCrashes /\ faults \in 0..MaxFaults
      BY <2>1 DEF Init
    <3>3. job = NoJob /\ step = "idle" /\ step \in Steps
      BY DEF Init, Steps
    <3> QED
      BY <2>1, <3>1, <3>2, <3>3 DEF Init, TypeCorrect, TypeOK, SaveSane
  <2>3. \A s \in Segments : main[s] = 0 /\ ram[s] = 0
    BY PreferenceAssumption
    DEF Init, Files, PreferenceAssumption, AllSegments
  <2>4. RenamedWhole /\ WrittenInPlace /\ HandWritten
    BY <2>1, <2>3 DEF Init, RenamedWhole, WrittenInPlace, HandWritten, Torn, Damaged, Absent, Files
  <2>5. SavedOrListed
    BY <2>3 DEF SavedOrListed, Load, Absent, Torn
  <2> QED
    BY <2>2, <2>4, <2>5 DEF FileInv
<1>2. FileInv /\ [Next]_vars => FileInv'
  <2> SUFFICES ASSUME FileInv, [Next]_vars PROVE FileInv'
    OBVIOUS
  <2>1. CASE UNCHANGED vars
    BY <2>1 DEF FileInv, TypeCorrect, TypeOK, SaveSane, RenamedWhole, WrittenInPlace, HandWritten,
       SavedOrListed, vars, file, disk, InPlace, Hand, Written
  <2> QED
    BY <2>1, SaveStepInv, ChangeStepInv, ResetStepInv DEF Next
<1> QED
  BY <1>1, <1>2, PTL DEF Spec

\* Every variable keeps its type, and a save has a file in hand.
THEOREM TypeCorrectness == Spec => []TypeOK
<1>1. FileInv => TypeOK
  BY DEF FileInv, TypeCorrect
<1> QED
  BY <1>1, FileInvariance, PTL

\* SafeFile on an ESP32: no file is torn or cut short under its own name, whatever the
\* flash does and whenever the power goes.
THEOREM NoFileTorn == Spec => []NeverTorn
<1>1. FileInv => NeverTorn
  BY DEF FileInv, RenamedWhole, NeverTorn
<1> QED
  BY <1>1, FileInvariance, PTL

\* But on an STM32, a reboot between two saves finds every setting as it is in RAM,
\* when the flash has not failed.
THEOREM SafeReboot ==
    ASSUME "STM32" \notin Platforms
    PROVE  Spec => []RebootSafe
<1>1. FileInv => RebootSafe
  <2> SUFFICES ASSUME FileInv, step = "idle", faults = 0, NEW s \in Segments
               PROVE  \/ s \in unsaved /\ (editing \/ s = "nodedatabase")
                      \/ Load(main[s]) = ram[s]
    BY DEF RebootSafe
  <2>1. platform # "STM32" /\ job = NoJob
    BY DEF FileInv, TypeCorrect, TypeOK
  <2> QED
    BY <2>1, Between DEF FileInv, SavedOrListed
<1> QED
  BY <1>1, FileInvariance, PTL
--------------------------------------------------------------------------------
(***************************************************************************)
(* The files implement PreferenceStore, but on an STM32.                   *)
(***************************************************************************)

\* What Promise makes of a state.
LEMMA PromiseState ==
    ASSUME FileInv
    PROVE  /\ [s \in Segments |-> Load(main[s])] \in [Segments -> Values]
           /\ ram \in [Segments -> Values]
           /\ "none" \notin Segments /\ "backup" \notin Segments /\ Segments \subseteq Files
           /\ step \in {"idle", "open", "remove", "off"} =>
                  ~(job # NoJob /\ step # "open")
<1>1. main \in [Files -> Contents] /\ ram \in [Segments -> Values] /\ 0 \in Values
  BY PreferenceAssumption DEF FileInv, TypeCorrect, TypeOK, PreferenceAssumption, Values
<1>2. \A c \in Contents : Load(c) \in Values
  BY <1>1 DEF Load, Contents
<1>3. "none" \notin Segments /\ "backup" \notin Segments /\ Segments \subseteq Files
  BY PreferenceAssumption DEF PreferenceAssumption, AllSegments, Files
<1>4. \A s \in Segments : Load(main[s]) \in Values
  BY <1>1, <1>2, <1>3
<1> QED
  BY <1>1, <1>3, <1>4, Between DEF FileInv

\* Settings change, or a save begins: no file is touched.
LEMMA ChangeKept ==
    ASSUME FileInv, FileInv', UNCHANGED << platform, disk, faults >>,
           step \in {"idle", "remove"}, step' \in {"idle", "open", "remove"}
    PROVE  Promise!Change
<1>1. /\ ~(job # NoJob /\ step # "open") /\ ~(job' # NoJob /\ step' # "open")
      /\ ram' \in [Segments -> Values]
  <2>1. step' \in {"idle", "open", "remove", "off"} => ~(job' # NoJob /\ step' # "open")
    BY Between DEF FileInv, TypeCorrect, TypeOK
  <2> QED
    BY <2>1, PromiseState DEF FileInv, TypeCorrect, TypeOK
<1> QED
  BY <1>1 DEF Promise!Change, disk

\* A file is worked on.
LEMMA WorkKept ==
    ASSUME FileInv, FileInv', job # NoJob, UNCHANGED << Rest, job >>,
           faults' = faults \/ faults' > 0, step' \notin {"idle", "open", "remove", "off"},
           \A f \in Files \ {Hand} : main'[f] = main[f]
    PROVE  Promise!Next \/ UNCHANGED Promise!store
<1>1. /\ step \notin {"remove", "off"} /\ Hand' = Hand /\ Hand \in Files
      /\ faults \in Nat /\ faults' \in Nat
  BY Between DEF FileInv, TypeCorrect, TypeOK, Hand
<1>2. /\ [s \in Segments |-> Load(main'[s])] \in [Segments -> Values]
      /\ ram' = ram /\ Segments \subseteq Files
  <2>1. \A s \in Segments : Load(main'[s]) \in Values
    BY PreferenceAssumption
    DEF FileInv, TypeCorrect, TypeOK, PreferenceAssumption, Load, Contents, Values, Files
  <2> QED
    BY <2>1 DEF Rest, Files
<1>3. CASE Hand \in Segments
  <2>1. Promise!Work(Hand)
    BY <1>1, <1>2, <1>3, PromiseState
    DEF Promise!Work, Promise!OnlyDiffersAt, Promise!MayFail
  <2> QED
    BY <1>3, <2>1 DEF Promise!Next
<1>4. CASE Hand \notin Segments
  <2>1. \A s \in Segments : main'[s] = main[s]
    BY <1>2, <1>4
  <2>2. CASE faults' = faults
    BY <1>1, <1>2, <1>4, <2>1, <2>2 DEF Promise!store
  <2>3. CASE faults' > 0
    <3>1. Promise!Fail
      BY <1>1, <1>2, <1>4, <2>1, <2>3 DEF Promise!Fail
    <3> QED
      BY <3>1 DEF Promise!Next
  <2> QED
    BY <2>2, <2>3
<1> QED
  BY <1>3, <1>4

\* A file is let go of, and the flash of an NRF52 may have been formatted.
LEMMA FinishKept ==
    ASSUME FileInv, FileInv', job # NoJob, UNCHANGED Rest, platform # "STM32",
           faults' = faults \/ faults' > 0,
           NEW ok \in BOOLEAN,
           NEW m \in [Files -> Contents], NEW t \in [Files -> Contents],
           Finish(ok, m, t),
           \A f \in Files \ {Hand} : m[f] = main[f],
           faults' = 0 => ok /\ (Hand \in Segments => Load(m[Hand]) = ram[Hand])
    PROVE  Promise!Next \/ UNCHANGED Promise!store
<1>1. /\ step' \in {"idle", "open"} /\ ~(job' # NoJob /\ step' # "open")
      /\ \/ main' = m
         \/ ~(job.ok /\ ok) /\ main' = [f \in Files |-> Absent]
  BY FinishResult DEF FileInv, TypeCorrect
<1>2. /\ step \notin {"remove", "off"} /\ Hand \in Files
      /\ faults \in Nat /\ faults' \in Nat /\ (faults' = 0 => faults = 0)
      /\ Segments \subseteq Files /\ ram' = ram
  BY Between, PromiseState DEF FileInv, TypeCorrect, TypeOK, Rest
<1>3. CASE main' = m /\ Hand \in Segments
  <2>1. [s \in Segments |-> Load(main'[s])] \in [Segments -> Values]
    <3>1. \A s \in Segments : Load(main'[s]) \in Values
      BY <1>2, PreferenceAssumption
      DEF FileInv, TypeCorrect, TypeOK, PreferenceAssumption, Load, Contents, Values
    <3> QED
      BY <3>1
  <2>2. Promise!Done(Hand)
    BY <1>1, <1>2, <1>3, <2>1 DEF Promise!Done, Promise!OnlyDiffersAt, Promise!MayFail
  <2> QED
    BY <1>3, <2>2 DEF Promise!Next
<1>4. CASE main' = m /\ Hand \notin Segments
  <2>1. \A s \in Segments : main'[s] = main[s]
    BY <1>2, <1>4
  <2>2. CASE faults' = faults
    BY <1>1, <1>2, <1>4, <2>1, <2>2 DEF Promise!store
  <2>3. CASE faults' > 0
    <3>1. Promise!Fail
      BY <1>1, <1>2, <1>4, <2>1, <2>3 DEF Promise!Fail
    <3> QED
      BY <3>1 DEF Promise!Next
  <2> QED
    BY <2>2, <2>3
<1>5. CASE ~(job.ok /\ ok) /\ main' = [f \in Files |-> Absent]
  <2>1. faults' > 0
    BY <1>2, <1>5 DEF FileInv, HandWritten
  <2>2. \A s \in Segments : Load(main'[s]) = 0
    BY <1>2, <1>5 DEF Load
  <2>3. Promise!Format
    BY <1>1, <1>2, <2>1, <2>2 DEF Promise!Format
  <2> QED
    BY <2>3 DEF Promise!Next
<1> QED
  BY <1>1, <1>3, <1>4, <1>5

\* Each of SafeFile's calls works on the file in hand or lets it go.
LEMMA SaveStepKept ==
    ASSUME FileInv, FileInv', platform # "STM32", SaveStep
    PROVE  Promise!Next \/ UNCHANGED Promise!store
<1>0. /\ job # NoJob /\ Hand \in Files /\ main \in [Files -> Contents]
      /\ tmp \in [Files -> Contents] /\ okay \in BOOLEAN /\ faults \in Nat
      /\ UNCHANGED Rest
  <2>1. step \notin {"idle", "remove", "off"} /\ UNCHANGED Rest
    BY DEF SaveStep, OpenFile, WriteFile, CloseFile, Replace, Rename, CopyFile, RemoveTmp
  <2> QED
    BY <2>1, Between DEF FileInv, TypeCorrect, TypeOK
<1>a. (Fault => faults' > 0) /\ (NoFault => faults' = faults)
  BY <1>0 DEF Fault, NoFault
<1>c. Hand \in Segments => Written = ram[Hand] /\ Load(Written) = Written
  BY <1>0, Between, PreferenceAssumption
  DEF FileInv, Written, Load, Values, Absent, Torn, Damaged, PreferenceAssumption, AllSegments
<1>d. faults = 0 => okay /\ match
  BY DEF FileInv, HandWritten
<1>1. CASE OpenFile
  <2> DEFINE m == IF InPlace \/ ~FullAtomic THEN [main EXCEPT ![Hand] = Absent] ELSE main
  <2>0. m \in [Files -> Contents] /\ \A f \in Files \ {Hand} : m[f] = main[f]
    BY <1>0 DEF Contents
  <2>1. CASE NoFault /\ Advance("write") /\ main' = m
    BY <1>0, <1>a, <2>0, <2>1, WorkKept DEF Advance
  <2>2. CASE Fault /\ Finish(FALSE, m, tmp)
    <3>1. PICK ok \in BOOLEAN : Finish(ok, m, tmp)
      BY <2>2
    <3>2. faults' > 0 /\ faults' # 0
      BY <1>a, <2>2
    <3> HIDE DEF m
    <3> QED
      BY <1>0, <2>0, <3>1, <3>2, FinishKept
  <2> QED
    BY <1>1, <2>1, <2>2 DEF OpenFile
<1>2. CASE WriteFile
  <2>1. \A f \in Files \ {Hand} : main'[f] = main[f]
    BY <1>0, <1>2 DEF WriteFile
  <2>2. (NoFault \/ Fault) /\ job' = job /\ step' = "close"
    BY <1>2 DEF WriteFile
  <2> QED
    BY <1>0, <1>a, <2>1, <2>2, WorkKept
<1>3. CASE CloseFile
  <2>1. CASE NoFault /\ Advance("replace") /\ UNCHANGED disk
    BY <1>0, <1>a, <2>1, WorkKept DEF Advance, disk
  <2>2. CASE ~InPlace /\ Finish(okay, main, tmp) /\ ((NoFault /\ ~match) \/ Fault)
    BY <1>0, <1>a, <1>d, <2>2, FinishKept
  <2>3. CASE InPlace /\ NoFault /\ Finish(okay, main, tmp)
    <3>1. faults = 0 => main[Hand] = Written
      BY <1>3, <2>3 DEF CloseFile, FileInv, HandWritten
    <3> QED
      BY <1>0, <1>a, <1>c, <1>d, <2>3, <3>1, FinishKept
  <2> QED
    BY <1>3, <2>1, <2>2, <2>3 DEF CloseFile
<1>4. CASE Replace
  <2>1. CASE NoFault /\ Advance("rename")
             /\ main' = IF FullAtomic THEN [main EXCEPT ![Hand] = Absent] ELSE main
    <3>1. \A f \in Files \ {Hand} : main'[f] = main[f]
      BY <1>0, <2>1
    <3> QED
      BY <1>0, <1>a, <2>1, <3>1, WorkKept DEF Advance
  <2>2. CASE Fault /\ Finish(okay, main, tmp)
    BY <1>0, <1>a, <2>2, FinishKept
  <2> QED
    BY <1>4, <2>1, <2>2 DEF Replace
<1>5. CASE Rename
  <2>1. CASE NoFault /\ platform = "ESP32"
             /\ Finish(okay, [main EXCEPT ![Hand] = tmp[Hand]], [tmp EXCEPT ![Hand] = Absent])
    <3> DEFINE m == [main EXCEPT ![Hand] = tmp[Hand]]
               t == [tmp EXCEPT ![Hand] = Absent]
    <3>1. /\ m \in [Files -> Contents] /\ t \in [Files -> Contents]
          /\ m[Hand] = tmp[Hand] /\ \A f \in Files \ {Hand} : m[f] = main[f]
      BY <1>0 DEF Contents
    <3>2. faults = 0 => m[Hand] = Written
      BY <1>5, <2>1, <3>1 DEF Rename, FileInv, HandWritten, InPlace
    <3> HIDE DEF m, t
    <3>3. Finish(okay, m, t)
      BY <2>1 DEF m, t
    <3> QED
      BY <1>0, <1>a, <1>c, <1>d, <2>1, <3>1, <3>2, <3>3, FinishKept
  <2>2. CASE NoFault /\ Advance("copy") /\ UNCHANGED disk
    BY <1>0, <1>a, <2>2, WorkKept DEF Advance, disk
  <2>3. CASE Fault /\ Finish(okay, main, tmp)
    BY <1>0, <1>a, <2>3, FinishKept
  <2> QED
    BY <1>5, <2>1, <2>2, <2>3 DEF Rename
<1>6. CASE CopyFile
  <2>1. \A f \in Files \ {Hand} : main'[f] = main[f]
    BY <1>0, <1>6 DEF CopyFile
  <2>2. (NoFault \/ Fault) /\ job' = job /\ step' = "clean"
    BY <1>6 DEF CopyFile, Advance
  <2> QED
    BY <1>0, <1>a, <2>1, <2>2, WorkKept
<1>7. CASE RemoveTmp
  <2>1. faults = 0 => main[Hand] = Written
    BY <1>7 DEF RemoveTmp, FileInv, HandWritten
  <2>2. PICK t \in [Files -> Contents] : Finish(okay, main, t) /\ (NoFault \/ Fault)
    BY <1>0, <1>7 DEF RemoveTmp, Contents
  <2> QED
    BY <1>0, <1>a, <1>c, <1>d, <2>1, <2>2, FinishKept
<1> QED
  BY <1>1, <1>2, <1>3, <1>4, <1>5, <1>6, <1>7 DEF SaveStep

\* Files are erased, the power goes, and a boot loads what there is.
LEMMA ResetStepKept ==
    ASSUME FileInv, FileInv',
           PowerLoss \/ Boot \/ \E f \in Segments : RemoveFile(f)
    PROVE  Promise!Next \/ UNCHANGED Promise!store
<1>0. main \in [Files -> Contents] /\ Segments \subseteq Files /\ "none" \notin Segments
  BY PromiseState DEF FileInv, TypeCorrect, TypeOK
<1>1. ASSUME NEW f \in Segments, RemoveFile(f) PROVE Promise!Next \/ UNCHANGED Promise!store
  <2>1. /\ step = "remove" /\ step' = "remove" /\ job' = job /\ job = NoJob
        /\ ram' = ram /\ faults' = faults
    BY <1>1, Between DEF RemoveFile, file, FileInv
  <2>2. CASE main' = main
    BY <2>1, <2>2 DEF Promise!store
  <2>3. CASE main' = [main EXCEPT ![f] = Absent]
    <3>1. \A s \in Segments : Load(main'[s]) = IF s = f THEN 0 ELSE Load(main[s])
      BY <1>0, <2>3 DEF Load
    <3>2. Promise!Erase
      BY <2>1, <3>1 DEF Promise!Erase
    <3> QED
      BY <3>2 DEF Promise!Next
  <2> QED
    BY <1>1, <2>2, <2>3 DEF RemoveFile
<1>2. CASE PowerLoss
  <2>1. /\ job' = NoJob /\ step' = "off" /\ step # "off" /\ faults' = faults
        /\ ram' = [s \in Segments |-> 0]
    BY <1>2 DEF PowerLoss
  <2>2. step \in {"write", "close", "copy"} =>
            job # NoJob /\ step # "open" /\ Hand \in Files
    BY Between DEF FileInv
  <2>3. \/ main' = main
        \/ step \in {"write", "close", "copy"} /\ \A f \in Files \ {Hand} : main'[f] = main[f]
    BY <1>0, <1>2, <2>2 DEF PowerLoss, disk
  <2>4. \A s \in Segments : Load(main'[s]) \in Values
    BY <1>0, PreferenceAssumption
    DEF FileInv, TypeCorrect, TypeOK, PreferenceAssumption, Load, Contents, Values
  <2>5. Promise!PowerLoss
    BY <1>0, <2>1, <2>2, <2>3, <2>4 DEF Promise!PowerLoss, Promise!OnlyDiffersAt
  <2> QED
    BY <2>5 DEF Promise!Next
<1>3. CASE Boot
  <2>1. /\ step = "off" /\ job = NoJob /\ main' = main /\ faults' = faults
        /\ ram' = [s \in Segments |-> Load(main[s])]
    BY <1>3, Between DEF Boot, Still, disk, FileInv
  <2>2. step' \in {"idle", "open"} /\ (step' = "idle" => job' = NoJob)
    BY <1>3, <2>1 DEF Boot, Begin
  <2>3. Promise!Boot
    BY <2>1, <2>2 DEF Promise!Boot
  <2> QED
    BY <2>3 DEF Promise!Next
<1> QED
  BY <1>1, <1>2, <1>3

\* The files keep the promise of PreferenceStore on every platform but the STM32: only
\* the file in hand can be lost, and a save goes on when it holds what is in RAM.
THEOREM StoreRefinement ==
    ASSUME "STM32" \notin Platforms
    PROVE  Spec => StoreKept
<1>1. Init => Promise!Init
  <2> SUFFICES ASSUME Init PROVE Promise!Init
    OBVIOUS
  <2>1. /\ \A s \in Segments : Load(main[s]) = 0 /\ ram[s] = 0
        /\ 0 \in Values
    BY PreferenceAssumption
    DEF Init, PreferenceAssumption, AllSegments, Files, Load, Absent, Torn, Values
  <2>2. [s \in Segments |-> Load(main[s])] \in [Segments -> Values]
    BY <2>1
  <2>3. ram = [s \in Segments |-> Load(main[s])]
    BY <2>1 DEF Init
  <2> QED
    BY <2>2, <2>3 DEF Init, Promise!Init
<1>2. FileInv /\ FileInv' /\ [Next]_vars => [Promise!Next]_(Promise!store)
  <2> SUFFICES ASSUME FileInv, FileInv', [Next]_vars
               PROVE  Promise!Next \/ UNCHANGED Promise!store
    OBVIOUS
  <2>1. platform # "STM32"
    BY DEF FileInv, TypeCorrect, TypeOK
  <2>2. CASE UNCHANGED vars
    BY <2>2 DEF vars, disk, file, Promise!store, Hand
  <2>3. ASSUME UNCHANGED Still, step \in {"idle", "remove"},
               step' \in {"idle", "open", "remove"}
        PROVE  Promise!Next
    BY <2>3, ChangeKept DEF Still, Promise!Next
  <2>4. ASSUME NEW s \in Segments, NEW v \in 0..MaxValue, Edit(s, v)
        PROVE  Promise!Next
    BY <2>3, <2>4 DEF Edit, Idle, Begin, file
  <2>5. ASSUME NEW v \in 0..MaxValue,
               UpdateUser(v) \/ RemoveNodeByNum(v) \/ ResetNodes
        PROVE  Promise!Next
    BY <2>3, <2>5 DEF UpdateUser, RemoveNodeByNum, ResetNodes, SaveNodes, Idle, Begin, file
  <2>6. CASE BeginEdit \/ CommitEdit \/ SaveAll \/ BackupPreferences \/ RestorePreferences
    BY <2>3, <2>6 DEF BeginEdit, CommitEdit, SaveAll, BackupPreferences, RestorePreferences,
       Idle, Begin, file
  <2>7. CASE FactoryReset \/ InstallDefaults
    BY <2>3, <2>7 DEF FactoryReset, InstallDefaults, Idle, Begin, file
  <2>8. ASSUME NEW dirty \in SUBSET (Segments \ {"moduleconfig"}), BootSave(dirty)
        PROVE  Promise!Next
    BY <2>3, <2>8 DEF BootSave, Begin, file
  <2> QED
    BY <2>1, <2>2, <2>4, <2>5, <2>6, <2>7, <2>8, SaveStepKept, ResetStepKept,
       PreferenceAssumption DEF Next, PreferenceAssumption
<1> QED
  BY <1>1, <1>2, FileInvariance, PTL DEF Spec, StoreKept, Promise!Spec
================================================================================
