--------------------------- MODULE SealRunProofs ---------------------------
(***************************************************************************)
(* The `seal` run of the end-to-end test and its replay, for any number of *)
(* runs in one directory, any bodies, any number of faults and any files   *)
(* that may be lost: what a run leaves on disk, what its verdict says, and *)
(* what a replay makes of it.                                              *)
(***************************************************************************)
EXTENDS SealRunInv, SequenceTheorems, TLAPS

(***************************************************************************)
(* Lists of writes.                                                        *)
(***************************************************************************)

\* Contents are texts.
LEMMA Texts ==
    /\ \A a \in Word : <<a>> \in Text
    /\ \A a, b \in Word : <<a, b>> \in Text
    /\ \A a, b, c \in Word : <<a, b, c>> \in Text
    /\ \A a, b, c, d, e, f \in Word : <<a, b, c, d, e, f>> \in Text
BY DEF Text

\* Most files may hold any text.
LEMMA WritableText ==
    ASSUME NEW f, f # "run", f # "container1", f \notin WitnessFile, NEW c \in Text PROVE Writable(f, c)
BY DEF Writable

\* Others may hold one word.
LEMMA WritableWord ==
    ASSUME NEW f, f # "run", f # "container1", NEW b \in Word PROVE Writable(f, <<b>>)
BY Texts DEF Writable

\* Nothing to write.
LEMMA PlanNone == ASSUME NEW F PROVE Plan(<<>>, F)
BY DEF Plan

\* One file.
LEMMA PlanOne ==
    ASSUME NEW F, NEW f \in F, NEW c, Writable(f, c) PROVE Plan(<<<<f, c>>>>, F)
BY DEF Plan, Writable

\* Two files.
LEMMA PlanTwo ==
    ASSUME NEW F, NEW f \in F, NEW g \in F, f # g, NEW c, NEW d, Writable(f, c), Writable(g, d)
    PROVE  Plan(<<<<f, c>>, <<g, d>>>>, F)
BY DEF Plan, Writable

\* Three files.
LEMMA PlanThree ==
    ASSUME NEW F, NEW f \in F, NEW g \in F, NEW h \in F, f # g, f # h, g # h,
           NEW c, NEW d, NEW e, Writable(f, c), Writable(g, d), Writable(h, e)
    PROVE  Plan(<<<<f, c>>, <<g, d>>, <<h, e>>>>, F)
BY DEF Plan, Writable

\* The four files of the local state.
LEMMA PlanLocal ==
    ASSUME NEW c \in Text
    PROVE  Plan(<<<<"folder", c>>, <<"members", c>>, <<"nonces", c>>, <<"prepared", c>>>>, LocalState)
BY DEF Plan, Writable, LocalState, WitnessFile

\* One list of writes after another, to other files.
LEMMA PlanJoin ==
    ASSUME NEW F, NEW G, F \cap G = {}, NEW v, NEW w, Plan(v, F), Plan(w, G)
    PROVE  Plan(v \o w, F \cup G)
<1> DEFINE u == v \o w
<1>1. /\ v \in Seq((F \cup G) \X Text) /\ w \in Seq((F \cup G) \X Text)
      /\ \A i \in DOMAIN v : v[i][1] \in F
      /\ \A i \in DOMAIN w : w[i][1] \in G
  BY DEF Plan
<1>2. u \in Seq((F \cup G) \X Text) /\ Len(u) = Len(v) + Len(w)
  BY <1>1
<1>3. \A i \in DOMAIN u : \/ i \in DOMAIN v /\ u[i] = v[i]
                          \/ i - Len(v) \in DOMAIN w /\ u[i] = w[i - Len(v)]
  BY <1>1, <1>2
<1> HIDE DEF u
<1>4. \A i \in DOMAIN u : Writable(u[i][1], u[i][2])
  BY <1>3 DEF Plan
<1>5. \A i, j \in DOMAIN u : u[i][1] = u[j][1] => i = j
  <2> SUFFICES ASSUME NEW i \in DOMAIN u, NEW j \in DOMAIN u, u[i][1] = u[j][1] PROVE i = j
    OBVIOUS
  <2>1. i \in Nat /\ j \in Nat /\ Len(v) \in Nat
    BY <1>1, <1>2
  <2>2. CASE i \in DOMAIN v /\ u[i] = v[i] /\ j \in DOMAIN v /\ u[j] = v[j]
    BY <2>2 DEF Plan
  <2>3. CASE /\ i - Len(v) \in DOMAIN w /\ u[i] = w[i - Len(v)]
             /\ j - Len(v) \in DOMAIN w /\ u[j] = w[j - Len(v)]
    <3>1. i - Len(v) = j - Len(v)
      BY <2>3 DEF Plan
    <3> QED
      BY <2>1, <3>1
  <2>4. u[i][1] \in F => ~(u[j][1] \in G)
    OBVIOUS
  <2> QED
    BY <1>1, <1>3, <2>2, <2>3, <2>4
<1> QED
  BY <1>2, <1>4, <1>5 DEF Plan, u

\* v still has every write of w but the first.
Rest(v, w) == \A i \in DOMAIN w \ {1} : \E j \in DOMAIN v : v[j] = w[i]

\* What is left after the first write is to other files than that one.
LEMMA PlanTail ==
    ASSUME NEW F, NEW w, Plan(w, F), w # <<>>
    PROVE  /\ Head(w) = w[1] /\ 1 \in DOMAIN w
           /\ w[1] = <<w[1][1], w[1][2]>> /\ w[1][1] \in F /\ w[1][2] \in Text
           /\ Writable(w[1][1], w[1][2])
           /\ Plan(Tail(w), F)
           /\ \A i \in DOMAIN Tail(w) :
                 i + 1 \in DOMAIN w /\ Tail(w)[i] = w[i + 1] /\ w[i + 1][1] # w[1][1]
           /\ Rest(Tail(w), w)
<1>1. w \in Seq(F \X Text) /\ Len(w) \in Nat /\ Len(w) # 0
  BY DEF Plan
<1>2. Head(w) = w[1] /\ 1 \in DOMAIN w /\ w[1] \in F \X Text
  BY <1>1
<1>3. Tail(w) \in Seq(F \X Text) /\ Len(Tail(w)) = Len(w) - 1
  BY <1>1
<1>4. \A i \in DOMAIN Tail(w) : i + 1 \in DOMAIN w /\ i + 1 # 1 /\ Tail(w)[i] = w[i + 1]
  BY <1>1, <1>3
<1>5. \A i \in DOMAIN w : i # 1 => i - 1 \in DOMAIN Tail(w) /\ Tail(w)[i - 1] = w[i]
  BY <1>1, <1>3
<1>6. \A i, j \in DOMAIN Tail(w) : Tail(w)[i][1] = Tail(w)[j][1] => i = j
  <2> SUFFICES ASSUME NEW i \in DOMAIN Tail(w), NEW j \in DOMAIN Tail(w),
                      Tail(w)[i][1] = Tail(w)[j][1]
               PROVE  i = j
    OBVIOUS
  <2>1. i + 1 = j + 1
    BY <1>4 DEF Plan
  <2>2. i \in Nat /\ j \in Nat
    BY <1>3
  <2> QED
    BY <2>1, <2>2
<1>7. Plan(Tail(w), F)
  BY <1>3, <1>4, <1>6 DEF Plan
<1>8. \A i \in DOMAIN Tail(w) : w[i + 1][1] # w[1][1]
  BY <1>2, <1>4 DEF Plan
<1>9. w[1] = <<w[1][1], w[1][2]>> /\ w[1][1] \in F /\ w[1][2] \in Text
  BY <1>2
<1> QED
  BY <1>2, <1>4, <1>5, <1>7, <1>8, <1>9 DEF Plan, Rest

----------------------------------------------------------------------------
(***************************************************************************)
(* What the steps read: nothing changes where the files read do not.       *)
(***************************************************************************)

\* The files are what they were.
Same(F) == \A f \in F : files'[f] = files[f]

\* The local state, and what is made from it.
LEMMA SameLocal ==
    ASSUME Same(LocalState)
    PROVE  /\ HeadsAgree' <=> HeadsAgree
           /\ \A b : Made(b)' = Made(b)
<1>1. \A f \in LocalState : files'[f] = files[f]
  BY DEF Same
<1>2. files'["prepared"] = files["prepared"]
  BY <1>1 DEF LocalState
<1>3. HeadsAgree' <=> HeadsAgree
  BY <1>1, <1>2 DEF HeadsAgree
<1>4. \A b : Made(b)' = Made(b)
  BY <1>2 DEF Made
<1> QED
  BY <1>3, <1>4

\* Seal 2 depends on the local state and its witness.
LEMMA SameSeal2 ==
    ASSUME Same(LocalState \cup {"s2_qtsa"})
    PROVE  (step4_builds' <=> step4_builds) /\ Seal2' = Seal2
<1>1. Same(LocalState) /\ files'["s2_qtsa"] = files["s2_qtsa"]
  BY DEF Same
<1>2. S2Bodies' = S2Bodies
  BY <1>1 DEF S2Bodies, BodyOf
<1>3. HeadsAgree' <=> HeadsAgree
  BY <1>1, SameLocal
<1>4. files'["prepared"] = files["prepared"]
  BY <1>1 DEF Same, LocalState
<1> QED
  BY <1>2, <1>3, <1>4 DEF step4_builds, Seal2, Made

\* So do the receipts of seal 1 on its container and witnesses.
LEMMA SameSeal1 ==
    ASSUME Same(LocalState \cup {"s1_evm", "s1_qtsa", "container1"})
    PROVE  /\ step2_reads' <=> step2_reads
           /\ Receipts1' = Receipts1 /\ (FullSet' <=> FullSet)
           /\ S1Bodies' = S1Bodies /\ InContainer' = InContainer
<1>1. Same(LocalState) /\ Same({"s1_evm", "s1_qtsa", "container1"})
  BY DEF Same
<1>2. S1Bodies' = S1Bodies
  BY <1>1 DEF Same, S1Bodies, BodyOf
<1>3. InContainer' = InContainer
  BY <1>1 DEF Same, InContainer, Inside
<1>4. HeadsAgree' <=> HeadsAgree
  BY <1>1, SameLocal
<1>5. Receipts1' = Receipts1
  BY <1>1, <1>3 DEF Same, LocalState, Receipts1, Made
<1>6. FullSet' <=> FullSet
  BY <1>1, <1>4 DEF Same, LocalState, FullSet
<1> QED
  BY <1>1, <1>2, <1>3, <1>4, <1>5, <1>6 DEF Same, step2_reads, Readable

\* What the steps make of files that are what they were.
LEMMA SameDerived ==
    ASSUME Same(LocalState \cup WitnessFile)
    PROVE  /\ \A f \in StepFile \ {"receipts1"} : Derived(f)' = Derived(f)
           /\ Same({"container1"}) => \A f \in StepFile : Derived(f)' = Derived(f)
<1>1. /\ Same(LocalState \cup {"s2_qtsa"}) /\ Same(LocalState) /\ Same({"s1_evm", "s1_qtsa"})
      /\ Same({"container1"}) => Same(LocalState \cup {"s1_evm", "s1_qtsa", "container1"})
  BY DEF Same, WitnessFile
<1>2. Seal2' = Seal2
  BY <1>1, SameSeal2
<1>3. Made(S1Bodies)' = Made(S1Bodies)
  <2>1. S1Bodies' = S1Bodies
    BY <1>1 DEF Same, S1Bodies, BodyOf
  <2>2. files'["prepared"] = files["prepared"]
    BY <1>1 DEF Same, LocalState
  <2> QED
    BY <2>1, <2>2 DEF Made
<1>4. Same({"container1"}) => Receipts1' = Receipts1
  BY <1>1, SameSeal1
<1> QED
  BY <1>2, <1>3, <1>4 DEF Derived, StepFile, Seal2File

\* Step 1 reads no file that a step writes.
LEMMA SameFound1 ==
    ASSUME Same(File \ StepFile)
    PROVE  Found(1)' <=> Found(1)
<1>1. Same(LocalState) /\ Same({"s1_evm", "s1_qtsa", "status", "run"})
  BY DEF Same, File, StepFile, LocalState, WitnessFile, EpochFile, Seal2File
<1>2. S1Bodies' = S1Bodies
  BY <1>1 DEF Same, S1Bodies, BodyOf
<1>3. HeadsAgree' <=> HeadsAgree
  BY <1>1, SameLocal
<1>4. Answer' = Answer /\ files'["status"] = files["status"]
  BY <1>1 DEF Same, Answer
<1> QED
  BY <1>2, <1>3, <1>4 DEF Found, step1_ok, step1_builds

\* No step reads the receipts or seal 2, other than to compare them.
Outputs == {"receipts1", "container2", "attest2", "receipts2"}

\* What a step found depends on nothing but the files it reads and the target.
LEMMA SameFound ==
    ASSUME Same(File \ Outputs), UNCHANGED <<target, damaged, harm>>, NEW n \in Step
    PROVE  Found(n)' <=> Found(n)
<1>1. /\ Same(LocalState \cup {"s1_evm", "s1_qtsa", "container1"})
      /\ Same(LocalState \cup {"s2_qtsa"}) /\ Same(File \ StepFile) /\ Same(LocalState)
      /\ Same({"attest1", "container1", "identity", "status", "run"}) /\ Same(EpochFile)
  BY DEF Same, Outputs, File, StepFile, Seal2File, LocalState, WitnessFile, EpochFile
<1>2. /\ HeadsAgree' <=> HeadsAgree
      /\ (step2_reads' <=> step2_reads) /\ S1Bodies' = S1Bodies /\ InContainer' = InContainer
      /\ FullSet' <=> FullSet
      /\ step4_builds' <=> step4_builds
  BY <1>1, SameLocal, SameSeal1, SameSeal2
<1>3. /\ files'["attest1"] = files["attest1"] /\ files'["container1"] = files["container1"]
      /\ files'["identity"] = files["identity"] /\ files'["status"] = files["status"]
      /\ files'["prepared"] = files["prepared"]
      /\ files'["run"] = files["run"]
  BY <1>1 DEF Same, LocalState
<1>4. Inside("attest1")' = Inside("attest1")
  BY <1>2, <1>3 DEF Inside
<1>5. n = 1 \/ n = 2 \/ n = 3 \/ n = 4 \/ n = 5 \/ n = 6 \/ n = 7
  BY DEF Step
<1>6. CASE n = 1
  BY <1>1, <1>6, SameFound1
<1>7. CASE n = 2
  BY <1>2, <1>3, <1>7 DEF Found, Reading2, Readable
<1>8. CASE n = 3
  BY <1>2, <1>3, <1>8 DEF Found, step3_ok, PairsMatch, Readable
<1>9. CASE n = 4
  BY <1>2, <1>9 DEF Found
<1>10. CASE n = 5
  BY <1>2, <1>3, <1>4, <1>10 DEF Found, Reading5, PairsMatch, Readable
<1>11. CASE n = 6
  <2>1. Made(S1Bodies)' = Made(S1Bodies)
    BY <1>2, <1>3 DEF Made
  <2>2. \A f \in {"container1", "attest1"} :
           /\ SameBytes(f, Made(S1Bodies))' <=> SameBytes(f, Made(S1Bodies))
           /\ Readable(f)' <=> Readable(f)
    BY <1>3, <2>1 DEF SameBytes, Readable
  <2> QED
    BY <1>2, <1>11, <2>2 DEF Found, step6_ok
<1>12. CASE n = 7
  <2>1. \A f \in EpochFile : BodyOf(f)' = BodyOf(f)
    BY <1>1 DEF Same, BodyOf
  <2> QED
    BY <1>3, <1>12, <2>1 DEF Found, step7_ok, Answer
<1> QED
  BY <1>5, <1>6, <1>7, <1>8, <1>9, <1>10, <1>11, <1>12

\* The whole directory is what it was.
LEMMA SameDir ==
    ASSUME UNCHANGED <<files, target, damaged, harm>>
    PROVE  /\ \A n \in Step : (Found(n)' <=> Found(n)) /\ (FoundAgain(n)' <=> FoundAgain(n))
           /\ step2_reads' <=> step2_reads
           /\ step4_builds' <=> step4_builds
           /\ \A f : Readable(f)' <=> Readable(f)
<1>1. \A F : Same(F)
  BY DEF Same
<1>2. /\ \A n \in Step : Found(n)' <=> Found(n)
      /\ (step2_reads' <=> step2_reads) /\ InContainer' = InContainer
      /\ FullSet' <=> FullSet
      /\ step4_builds' <=> step4_builds
      /\ Receipts1' = Receipts1 /\ Seal2' = Seal2
  BY <1>1, SameFound, SameSeal1, SameSeal2
<1>3. \A f : Readable(f)' <=> Readable(f)
  BY DEF Readable
<1>4. \A n \in Step : FoundAgain(n)' <=> FoundAgain(n)
  BY <1>2, <1>3 DEF FoundAgain, Reading2, SameBytes
<1> QED
  BY <1>2, <1>3, <1>4

\* What step 2 left is what it was.
LEMMA SameLeft ==
    ASSUME Step2Left, Same({"container1", "attest1"}), UNCHANGED reading, clean' => clean
    PROVE  Step2Left'
BY DEF Step2Left, Same, step2_reads, Readable

----------------------------------------------------------------------------
(***************************************************************************)
(* Writes under way.                                                       *)
(***************************************************************************)

\* With nothing under way a file holds what it holds.
LEMMA HoldsNow ==
    ASSUME todo = <<>>
    PROVE  /\ \A f, c : Holds(f, c) <=> files[f] = c
           /\ \A f : Whole(f) <=> Readable(f)
BY DEF Holds, Whole, Readable

\* What is written is a file, it was not there before (unless it is run.json),
\* and every other file, there or under way, is still there or under way.
LEMMA WriteStep ==
    ASSUME SealInv, write_file
    PROVE  \E f \in Writing(seal_pc) \cap File, c \in Text :
              /\ mode = "live" /\ 1 \in DOMAIN todo /\ todo[1] = <<f, c>> /\ Writable(f, c)
              /\ f # "run" => files[f] = None
              /\ files' = [files EXCEPT ![f] = c]
              /\ TodoInv' /\ (f = "run" => todo' = <<>>)
              /\ \A g \in File \ {"run"} : \A d : Holds(g, d) /\ d # None => Holds(g, d)'
              /\ \A g \in File \ {"run"} : Whole(g) => Whole(g)'
              /\ \A i \in DOMAIN todo' : i + 1 \in DOMAIN todo /\ todo'[i] = todo[i + 1]
<1> DEFINE f == todo[1][1]
           c == todo[1][2]
<1>1. mode = "live" /\ Plan(todo, Writing(seal_pc)) /\ todo # <<>>
  BY DEF SealInv, TodoInv, write_file
<1>2. /\ Head(todo) = todo[1] /\ 1 \in DOMAIN todo
      /\ todo[1] = <<f, c>> /\ f \in Writing(seal_pc) /\ c \in Text
      /\ Writable(f, c)
      /\ Plan(Tail(todo), Writing(seal_pc))
      /\ \A i \in DOMAIN Tail(todo) :
            i + 1 \in DOMAIN todo /\ Tail(todo)[i] = todo[i + 1] /\ todo[i + 1][1] # f
      /\ Rest(Tail(todo), todo)
  <2>1. /\ Head(todo) = todo[1] /\ 1 \in DOMAIN todo
        /\ todo[1] = <<f, c>> /\ f \in Writing(seal_pc) /\ c \in Text
        /\ Writable(f, c)
        /\ Plan(Tail(todo), Writing(seal_pc))
    BY <1>1, PlanTail
  <2>2. \A i \in DOMAIN Tail(todo) :
           i + 1 \in DOMAIN todo /\ Tail(todo)[i] = todo[i + 1] /\ todo[i + 1][1] # f
    BY <1>1, PlanTail
  <2>3. Rest(Tail(todo), todo)
    BY <1>1, PlanTail
  <2> QED
    BY <2>1, <2>2, <2>3
<1>3. f \in File
  BY <1>2 DEF Writing, File, LocalState, WitnessFile, EpochFile, StepFile, Seal2File
<1>4. f # "run" => files[f] = None
  BY <1>2 DEF SealInv, TodoInv
<1>5. /\ files' = [files EXCEPT ![f] = c] /\ todo' = Tail(todo)
      /\ mode' = mode /\ seal_pc' = seal_pc
  BY <1>2 DEF write_file
<1>6. files'[f] = c /\ \A g \in File \ {f} : files'[g] = files[g]
  BY <1>3, <1>5 DEF SealInv, FileInv
<1>7. TodoInv'
  <2>1. \A i \in DOMAIN todo' : todo'[i][1] # "run" => files'[todo'[i][1]] = None
    <3> SUFFICES ASSUME NEW i \in DOMAIN todo', todo'[i][1] # "run"
                 PROVE  files'[todo'[i][1]] = None
      OBVIOUS
    <3>1. i + 1 \in DOMAIN todo /\ todo'[i] = todo[i + 1] /\ todo'[i][1] # f
      BY <1>2, <1>5
    <3>2. todo[i + 1][1] \in Writing(seal_pc)
      BY <1>1, <3>1 DEF Plan
    <3>3. todo'[i][1] \in File
      BY <3>1, <3>2 DEF Writing, File, LocalState, WitnessFile, EpochFile, StepFile, Seal2File
    <3>4. files[todo[i + 1][1]] = None
      BY <3>1 DEF SealInv, TodoInv
    <3> QED
      BY <1>6, <3>1, <3>3, <3>4
  <2> QED
    BY <1>1, <1>2, <1>5, <2>1 DEF TodoInv
<1>10. f = "run" => todo' = <<>>
  <2> SUFFICES ASSUME f = "run", todo' # <<>> PROVE FALSE
    OBVIOUS
  <2>1. 1 \in DOMAIN Tail(todo) /\ Tail(todo)[1][1] \in Writing(seal_pc)
    BY <1>2, <1>5, PlanTail
  <2>2. "run" \in Writing(seal_pc) /\ Tail(todo)[1][1] # "run"
    BY <1>2, <2>1
  <2> QED
    BY <2>1, <2>2 DEF Writing, LocalState, WitnessFile, EpochFile, Seal2File
<1>8. ASSUME NEW g \in File \ {"run"}, NEW d, Holds(g, d), d # None
      PROVE  Holds(g, d)'
  <2>1. CASE files[g] = d
    BY <1>4, <1>6, <1>8, <2>1 DEF Holds
  <2>2. ASSUME NEW i \in DOMAIN todo, todo[i] = <<g, d>>, i # 1 PROVE Holds(g, d)'
    BY <1>2, <1>5, <2>2 DEF Holds, Rest
  <2>3. CASE todo[1] = <<g, d>>
    BY <1>6, <2>3 DEF Holds
  <2> QED
    BY <1>8, <2>1, <2>2, <2>3 DEF Holds
<1>9. ASSUME NEW g \in File \ {"run"}, Whole(g)
      PROVE  Whole(g)'
  <2>1. CASE files[g] \notin {None, Torn}
    BY <1>4, <1>6, <1>9, <2>1 DEF Whole
  <2>2. ASSUME NEW i \in DOMAIN todo, todo[i][1] = g, todo[i][2] \notin {None, Torn}, i # 1
        PROVE  Whole(g)'
    BY <1>2, <1>5, <2>2 DEF Whole, Rest
  <2>3. CASE todo[1][1] = g /\ todo[1][2] \notin {None, Torn}
    BY <1>6, <2>3 DEF Whole
  <2> QED
    BY <1>9, <2>1, <2>2, <2>3 DEF Whole
<1> QED
  BY <1>1, <1>2, <1>3, <1>4, <1>5, <1>7, <1>8, <1>9, <1>10

\* A directory left alone is as complete as before, and fits as before.
LEMMA SameFits ==
    ASSUME UNCHANGED files
    PROVE  /\ verify_complete' <=> verify_complete
           /\ RunStateLoads(TRUE)' <=> RunStateLoads(TRUE)
           /\ \A f \in StepFile : Derived(f)' = Derived(f)
           /\ Fits' <=> Fits
<1>1. \A F : Same(F)
  BY DEF Same
<1>2. \A f \in StepFile : Derived(f)' = Derived(f)
  BY <1>1, SameDerived
<1> QED
  BY <1>2 DEF verify_complete, RunStateLoads, Readable, BodyOf, Fits

\* The writes of run.json in w name this run.
Named(w) == \A i \in DOMAIN w : w[i][1] = "run" => w[i][2][1] = ThisRun

\* Writes to other files.
LEMMA NamedOther == ASSUME NEW w, NEW F, Plan(w, F), "run" \notin F PROVE Named(w)
BY DEF Plan, Named

\* The writes of w are made from the directory as it is.
Fitting(w) == \A i \in DOMAIN w : FitWrite(w[i])

\* Writes to no file that the steps make.
LEMMA FittingOther ==
    ASSUME NEW w, NEW F, Plan(w, F), F \cap StepFile = {}, Named(w) PROVE Fitting(w)
BY DEF Plan, Named, Fitting, FitWrite

\* A run goes on: the directory still fits.
LEMMA FitMove ==
    ASSUME FitInv, UNCHANGED <<files, run_no>>, damaged' = "none" => damaged = "none",
           damaged' = "none" => Fitting(todo')
    PROVE  FitInv'
<1>1. \A f \in StepFile : Derived(f)' = Derived(f)
  BY SameFits
<1>2. ThisRun' = ThisRun
  BY DEF ThisRun
<1> QED
  BY <1>1, <1>2 DEF FitInv, Fitting, FitWrite, Readable

\* With nothing under way it does not matter which run is next.
LEMMA FitStays ==
    ASSUME FitInv, UNCHANGED files, damaged' = "none" => damaged = "none", todo' = <<>>
    PROVE  FitInv'
<1>1. \A f \in StepFile : Derived(f)' = Derived(f)
  BY SameFits
<1> QED
  BY <1>1 DEF FitInv, Readable

\* A run goes on, with writes to files it has not touched.
LEMMA Advance ==
    ASSUME SealInv, NEW to \in LivePc, NEW w, Then(to, w),
           mode = "live", mode' = "live", UNCHANGED <<run_no, target, damaged, harm, out>>,
           Plan(w, Writing(to)), \A f \in Writing(to) \ {"run"} : files[f] = None
    PROVE  /\ FileInv' /\ TodoInv' /\ SpoiltInv' /\ ReplayInv'
           /\ \A f, c : Holds(f, c) => Holds(f, c)'
           /\ \A f : Whole(f) => Whole(f)'
<1>1. todo = <<>> /\ todo' = w /\ seal_pc' = to /\ files' = files
  BY DEF Then
<1>2. \A i \in DOMAIN w : w[i][1] \in Writing(to)
  BY DEF Plan
<1>3. FileInv' /\ SpoiltInv' /\ ReplayInv'
  BY <1>1, SameFits DEF SealInv, FileInv, SpoiltInv, ReplayInv
<1>4. TodoInv'
  BY <1>1, <1>2 DEF TodoInv
<1>5. \A f, c : Holds(f, c) => Holds(f, c)'
  BY <1>1 DEF Holds
<1>6. \A f : Whole(f) => Whole(f)'
  BY <1>1 DEF Whole
<1> QED
  BY <1>3, <1>4, <1>5, <1>6

\* What the verdicts of an earlier run say does not change with the directory
\* left alone.
LEMMA KeptStays ==
    ASSUME KeptInv, UNCHANGED <<files, target, live_logs, moved>>, clean' => clean,
           damaged' = "none" => UNCHANGED <<damaged, harm>>
    PROVE  KeptInv'
<1>1. live_logs # NoLogs <=> live_logs' # NoLogs'
  BY DEF NoLogs, Step
<1> QED
  BY <1>1, SameDir DEF KeptInv

----------------------------------------------------------------------------
(***************************************************************************)
(* A run up to its steps.                                                  *)
(***************************************************************************)

\* What is under way where.
LEMMA WritingAt ==
    /\ Writing("local") = {"identity"} /\ Writing("signin") = LocalState
    /\ Writing("post") = {"run"} /\ Writing("posted") = {"run"} /\ Writing("seal") = {"run"}
    /\ Writing("report") = {"run"}
    /\ Writing("epochs") = WitnessFile /\ Writing("status") = EpochFile
    /\ Writing("step 1") = {"status"} /\ Writing("step 2") = {"container1", "attest1"}
    /\ Writing("step 3") = {"receipts1"}
    /\ Writing("step 5") = Seal2File
    /\ Writing("fetch") = {} /\ Writing("error") = {} /\ Writing("step 4") = {}
    /\ Writing("step 6") = {} /\ Writing("step 7") = {} /\ Writing("closing") = {}
<1> USE DEF Writing, File, LocalState, WitnessFile, EpochFile, StepFile, Seal2File
<1>1. Writing("local") = {"identity"} /\ Writing("signin") = LocalState
  OBVIOUS
<1>2. /\ Writing("post") = {"run"} /\ Writing("posted") = {"run"} /\ Writing("seal") = {"run"}
      /\ Writing("report") = {"run"}
  OBVIOUS
<1>3. Writing("epochs") = WitnessFile /\ Writing("status") = EpochFile
  OBVIOUS
<1>4. /\ Writing("step 1") = {"status"} /\ Writing("step 2") = {"container1", "attest1"}
      /\ Writing("step 3") = {"receipts1"}
  OBVIOUS
<1>5. Writing("step 5") = Seal2File
  OBVIOUS
<1>6. /\ Writing("fetch") = {} /\ Writing("error") = {} /\ Writing("step 4") = {}
      /\ Writing("step 6") = {} /\ Writing("step 7") = {} /\ Writing("closing") = {}
  OBVIOUS
<1> QED
  BY <1>1, <1>2, <1>3, <1>4, <1>5, <1>6

\* The names of the steps' positions.
LEMMA StepPcs ==
    /\ StepPc[1] = "step 1" /\ StepPc[2] = "step 2" /\ StepPc[3] = "step 3" /\ StepPc[4] = "step 4"
    /\ StepPc[5] = "step 5" /\ StepPc[6] = "step 6" /\ StepPc[7] = "step 7" /\ StepPc[8] = "closing"
    /\ \A k \in 1..8 : /\ StepPc[k] \in {"step 1", "step 2", "step 3", "step 4", "step 5", "step 6",
                                         "step 7", "closing"}
                       /\ \A j \in 1..8 : StepPc[j] = StepPc[k] => j = k
<1>1. \A k \in 1..8 : k = 1 \/ k = 2 \/ k = 3 \/ k = 4 \/ k = 5 \/ k = 6 \/ k = 7 \/ k = 8
  OBVIOUS
<1> QED
  BY <1>1 DEF StepPc

\* No verdict yet.
LEMMA NoLogsType ==
    /\ NoLogs \in [Step -> Verdict] /\ \A n \in Step : NoLogs[n] = "none"
    /\ NoStatus \in Statuses
BY DEF NoLogs, Verdict, NoStatus, Statuses

\* An empty directory, and nobody has run.
LEMMA SealInitInv == SealInit => SealInv
<1> SUFFICES ASSUME SealInit PROVE SealInv
  OBVIOUS
<1>1. ModeInv
  <2>1. 0 <= Len(Runs)
    BY SealRunAssumption
  <2> QED
    BY <2>1, NoLogsType DEF SealInit, ModeInv, IdlePc
<1>2. FileInv /\ TodoInv /\ SpoiltInv /\ FitInv
  BY DEF SealInit, FileInv, TodoInv, SpoiltInv, FitInv, Readable, StepFile, Seal2File, File, Text, None
<1>3. DirInv /\ RunJsonInv /\ LogInv
  BY StepPcs DEF SealInit, DirInv, RunJsonInv, LogInv, FromReport, FromStep5, FromStep3, FromStep1,
     FromFetch, FromSignin, FromLocal, BeforeSteps, BeforePost
<1>4. SubmittedStaysOnDisk /\ StartInv /\ KeptInv /\ ReplayInv
  BY DEF SealInit, SubmittedStaysOnDisk, StartInv, KeptInv, ReplayInv
<1> QED
  BY <1>1, <1>2, <1>3, <1>4 DEF SealInv

\* A run begins: it goes on only in an empty directory, so nobody holds leaves
\* whose seals it could overwrite.
LEMMA BeginInv == ASSUME SealInv, Begin PROVE SealInv'
<1>1. /\ mode = "idle" /\ mode' = "live" /\ todo = <<>> /\ damaged = "none"
      /\ run_no < Len(Runs) /\ run_no' = run_no + 1
      /\ seal_pc' \in {"preflight", "error"} /\ (seal_pc' = "preflight" => check_run_dir)
      /\ logs' = NoLogs /\ reading' = "none" /\ got' = NoStatus
      /\ UNCHANGED <<files, todo, target, damaged, harm, out, held, live_logs, moved, clean, faults>>
  BY DEF Begin, ReplayVars, History
<1>2. ModeInv'
  <2>1. run_no' \in Nat /\ run_no' <= Len(Runs) /\ run_no' > 0
    BY <1>1, SealRunAssumption DEF SealInv, ModeInv
  <2> QED
    BY <1>1, <2>1, NoLogsType DEF SealInv, ModeInv, LivePc, FromLocal
<1>3. FileInv' /\ SpoiltInv' /\ ReplayInv' /\ SubmittedStaysOnDisk'
  BY <1>1, SameFits DEF SealInv, FileInv, SpoiltInv, ReplayInv, SubmittedStaysOnDisk
<1>4. TodoInv'
  BY <1>1, PlanNone DEF TodoInv
<1>5. DirInv' /\ RunJsonInv' /\ LogInv'
  <2>1. \A f \in File : seal_pc' = "preflight" => files'[f] = None
    BY <1>1 DEF check_run_dir
  <2>2. \A f \in File : seal_pc' \in NotYet(f) => seal_pc' = "preflight"
    BY <1>1 DEF NotYet, BeforeSteps, BeforePost
  <2> QED
    BY <1>1, <2>1, <2>2, StepPcs DEF DirInv, RunJsonInv, LogInv, FromReport, FromStep5, FromStep3,
       FromStep1, FromFetch, FromSignin, FromLocal
<1>6. StartInv'
  <2>1. check_run_dir => held = {}
    BY <1>1 DEF SealInv, SubmittedStaysOnDisk, check_run_dir, File, LocalState, None
  <2>2. check_run_dir => live_logs = NoLogs /\ ~moved
    BY <1>1 DEF SealInv, KeptInv, check_run_dir, File
  <2> QED
    BY <1>1, <2>1, <2>2 DEF StartInv, BeforePost
<1>7. KeptInv' /\ FitInv'
  BY <1>1, KeptStays, FitStays DEF SealInv
<1> QED
  BY <1>2, <1>3, <1>4, <1>5, <1>6, <1>7 DEF SealInv

\* Where such a move leads.
ToSteps == BeforeSteps \cup {"step 1", "error"}

\* What is common to the moves of a run before its steps.
LEMMA LiveMove ==
    ASSUME SealInv, NEW from \in BeforeSteps, NEW to \in ToSteps, NEW w,
           Live(from, to, w), UNCHANGED <<live_logs, moved, clean>>, got' \in Statuses,
           Plan(w, Writing(to)), Named(w), \A f \in Writing(to) \ {"run"} : files[f] = None,
           SubmittedStaysOnDisk', to \in BeforePost => held' = {},
           DirInv' /\ RunJsonInv'
    PROVE  SealInv'
<1>1. /\ mode = "live" /\ mode' = "live" /\ seal_pc = from /\ seal_pc' = to /\ Then(to, w)
      /\ todo' = w
      /\ UNCHANGED <<files, run_no, target, logs, reading, damaged, harm, out>>
  BY DEF Live, Then, ReplayVars
<1>2. to \in LivePc
  BY DEF ToSteps, LivePc, BeforeSteps, BeforePost, FromLocal, FromSignin, FromFetch, FromStep1
<1>3. FileInv' /\ TodoInv' /\ SpoiltInv' /\ ReplayInv'
  BY <1>1, <1>2, Advance
<1>4. ModeInv'
  BY <1>1, <1>2 DEF SealInv, ModeInv
<1>5. LogInv'
  <2>1. logs' = NoLogs
    BY <1>1 DEF SealInv, Own, ModeInv, LogInv
  <2>2. \A k \in 1..8 : to = StepPc[k] => k = 1
    <3>1. \A k \in 1..8 : to = StepPc[k] => to = "step 1"
      BY StepPcs DEF ToSteps, BeforeSteps, BeforePost
    <3>2. 1 \in 1..8
      OBVIOUS
    <3> QED
      BY <3>1, <3>2, StepPcs
  <2>3. to \notin FromReport /\ to \notin FromStep3 /\ to # "passed"
    BY DEF ToSteps, FromReport, FromStep3, FromStep5, BeforeSteps, BeforePost
  <2>4. \A k \in 1..8 : to = StepPc[k] => \A n \in Step : logs'[n] = "none" <=> n >= k
    BY <2>1, <2>2, NoLogsType DEF Step
  <2>5. \A n \in Step : logs'[n] = "none"
    BY <2>1, NoLogsType
  <2> QED
    BY <1>1, <2>1, <2>3, <2>4, <2>5 DEF LogInv
<1>6. StartInv'
  BY <1>1 DEF SealInv, StartInv, ToSteps, BeforeSteps, BeforePost
<1>7. KeptInv'
  BY <1>1, KeptStays DEF SealInv
<1>8. FitInv'
  <2>1. Writing(to) \cap StepFile = {}
    BY DEF Writing, ToSteps, BeforeSteps, BeforePost, StepFile, Seal2File, LocalState, WitnessFile, EpochFile
  <2>2. Fitting(todo')
    BY <1>1, <2>1, FittingOther
  <2> QED
    BY <1>1, <2>2, FitMove DEF SealInv
<1> QED
  BY <1>3, <1>4, <1>5, <1>6, <1>7, <1>8 DEF SealInv

\* An error return leaves the directory as it is.
LEMMA FailsInv == ASSUME SealInv, NEW pc \in {"preflight", "signin", "seal"}, Fails(pc) PROVE SealInv'
<1>0. got' \in Statuses
  BY DEF SealInv, ModeInv, Fails
<1>1. Live(pc, "error", <<>>) /\ UNCHANGED <<held, live_logs, moved, damaged, harm, out, clean, files>> /\ seal_pc' = "error"
  BY DEF Fails, ReplayVars, History, Live, Then
<1>2. Plan(<<>>, Writing("error")) /\ Writing("error") = {} /\ Named(<<>>)
  <2>1. Named(<<>>)
    BY DEF Named
  <2> QED
    BY <2>1, PlanNone, WritingAt
<1>3. SubmittedStaysOnDisk'
  BY <1>1 DEF SealInv, SubmittedStaysOnDisk
<1>4. DirInv' /\ RunJsonInv'
  BY <1>1 DEF DirInv, RunJsonInv, NotYet, BeforeSteps, BeforePost, FromReport, FromStep5, FromStep3,
     FromStep1, FromFetch, FromSignin, FromLocal
<1>5. pc \in BeforeSteps /\ "error" \notin BeforePost /\ "error" \in ToSteps
  BY DEF ToSteps, BeforeSteps, BeforePost
<1> QED
  BY <1>0, <1>1, <1>2, <1>3, <1>4, <1>5, LiveMove

\* Positions in order: what is untouched here was untouched before, and what
\* is under way here was untouched before.
Successor(from, to) ==
    /\ \A f \in File : to \in NotYet(f) => from \in NotYet(f)
    /\ \A f \in Writing(to) \ {"run"} : f \in File /\ from \in NotYet(f)

\* The positions of a live run follow each other in the order of the files.
LEMMA Successors ==
    /\ Successor("preflight", "local") /\ Successor("local", "signin")
    /\ Successor("signin", "post") /\ Successor("post", "posted") /\ Successor("posted", "seal")
    /\ Successor("seal", "fetch") /\ Successor("fetch", "epochs") /\ Successor("epochs", "status")
    /\ Successor("status", "step 1") /\ Successor("step 1", "step 2")
    /\ Successor("step 2", "step 3") /\ Successor("step 3", "step 4")
    /\ Successor("step 4", "step 5") /\ Successor("step 5", "step 6")
    /\ Successor("step 6", "step 7") /\ Successor("step 7", "closing")
    /\ Successor("closing", "report")
<1> USE DEF Successor, NotYet, Writing, BeforeSteps, BeforePost, File, LocalState, WitnessFile,
        EpochFile, StepFile, Seal2File
<1>1. Successor("preflight", "local") /\ Successor("local", "signin")
  OBVIOUS
<1>2. Successor("signin", "post") /\ Successor("post", "posted") /\ Successor("posted", "seal")
  OBVIOUS
<1>3. Successor("seal", "fetch") /\ Successor("fetch", "epochs") /\ Successor("epochs", "status")
  OBVIOUS
<1>4. Successor("status", "step 1") /\ Successor("step 1", "step 2")
  OBVIOUS
<1>5. Successor("step 2", "step 3") /\ Successor("step 3", "step 4")
  OBVIOUS
<1>6. Successor("step 4", "step 5") /\ Successor("step 5", "step 6")
  OBVIOUS
<1>7. /\ Successor("step 6", "step 7") /\ Successor("step 7", "closing")
      /\ Successor("closing", "report")
  OBVIOUS
<1> QED
  BY <1>1, <1>2, <1>3, <1>4, <1>5, <1>6, <1>7

\* The untouched files of a run at its next position.
LEMMA MoveUntouched ==
    ASSUME SealInv, NEW from, NEW to, NEW w, Successor(from, to), mode = "live", seal_pc = from,
           Then(to, w)
    PROVE  /\ \A f \in Writing(to) \ {"run"} : files[f] = None
           /\ \A f \in File : seal_pc' \in NotYet(f) => files'[f] = None
<1>1. DirInv
  BY DEF SealInv, Own, ModeInv
<1>2. seal_pc' = to /\ files' = files
  BY DEF Then
<1> QED
  BY <1>1, <1>2 DEF DirInv, Successor

\* The server's identity is written.
LEMMA PreflightInv == ASSUME SealInv, NEW did \in {"did", "other"}, preflight(did) PROVE SealInv'
<1>0. got' \in Statuses
  BY DEF SealInv, ModeInv, preflight
<1> DEFINE w == <<<<"identity", <<did>>>>>>
<1>1. /\ Live("preflight", "local", w) /\ UNCHANGED <<held, live_logs, moved, damaged, harm, out, clean>>
      /\ mode = "live" /\ mode' = "live" /\ Then("local", w) /\ seal_pc = "preflight" /\ seal_pc' = "local"
      /\ todo' = w /\ UNCHANGED <<files, run_no, target>>
  BY DEF preflight, Live, Then, ReplayVars
<1>2. Plan(w, Writing("local"))
  <2>1. Writable("identity", <<did>>)
    <3>1. did \in Word
      BY DEF Word
    <3> QED
      BY <3>1, WritableWord
  <2>2. "identity" \in Writing("local")
    BY WritingAt
  <2> QED
    BY <2>1, <2>2, PlanOne
<1>3. /\ \A f \in Writing("local") \ {"run"} : files[f] = None
      /\ \A f \in File : seal_pc' \in NotYet(f) => files'[f] = None
  BY <1>1, MoveUntouched, Successors
<1>4. Whole("identity")'
  BY <1>1 DEF Whole, None, Torn
<1>5. DirInv' /\ RunJsonInv'
  BY <1>1, <1>3, <1>4 DEF DirInv, RunJsonInv, FromReport, FromStep5, FromStep3, FromStep1, FromFetch,
     FromSignin
<1>6. SubmittedStaysOnDisk' /\ held' = {}
  BY <1>1 DEF SealInv, SubmittedStaysOnDisk, StartInv, BeforePost
<1>7. "preflight" \in BeforeSteps /\ "local" \in ToSteps
  BY DEF BeforeSteps, BeforePost, ToSteps
<1> HIDE DEF w
<1>8. Named(w)
  BY <1>2, WritingAt, NamedOther
<1> QED
  BY <1>0, <1>1, <1>2, <1>3, <1>5, <1>6, <1>7, <1>8, LiveMove

\* A run has a name.
LEMMA RunName == ASSUME SealInv, mode = "live" PROVE ThisRun \in Name /\ ThisRun \in Word
<1>1. run_no \in DOMAIN Runs
  BY SealRunAssumption DEF SealInv, ModeInv
<1> QED
  BY <1>1 DEF ThisRun, Name, Word

\* The local state of this run is written.
LEMMA BuildInv == ASSUME SealInv, build_local_state PROVE SealInv'
<1>0. got' \in Statuses
  BY DEF SealInv, ModeInv, build_local_state
<1> DEFINE c == <<ThisRun>>
           w == <<<<"folder", c>>, <<"members", c>>, <<"nonces", c>>, <<"prepared", c>>>>
<1>1. /\ Live("local", "signin", w) /\ UNCHANGED <<held, live_logs, moved, damaged, harm, out, clean>>
      /\ mode = "live" /\ mode' = "live" /\ Then("signin", w) /\ seal_pc = "local" /\ seal_pc' = "signin"
      /\ todo' = w /\ UNCHANGED <<files, run_no, target>>
  BY DEF build_local_state, Live, Then, ReplayVars, History
<1>2. Plan(w, Writing("signin"))
  <2>1. c \in Text /\ Writing("signin") = LocalState
    BY <1>1, RunName, Texts, WritingAt
  <2> QED
    BY <2>1, PlanLocal
<1>3. /\ \A f \in Writing("signin") \ {"run"} : files[f] = None
      /\ \A f \in File : seal_pc' \in NotYet(f) => files'[f] = None
  BY <1>1, MoveUntouched, Successors
<1>4. Whole("identity")'
  <2>1. Whole("identity")
    BY <1>1 DEF SealInv, Own, ModeInv, DirInv, FromLocal
  <2>2. "signin" \in LivePc
    BY DEF LivePc, FromLocal, FromSignin
  <2> HIDE DEF w
  <2> QED
    BY <1>1, <1>2, <1>3, <2>1, <2>2, Advance
<1>5. \A f \in LocalState : Holds(f, <<ThisRun>>)'
  <2>1. ThisRun' = ThisRun
    BY <1>1 DEF ThisRun
  <2>2. 1 \in DOMAIN w /\ 2 \in DOMAIN w /\ 3 \in DOMAIN w /\ 4 \in DOMAIN w
    OBVIOUS
  <2>3. w[1] = <<"folder", c>> /\ w[2] = <<"members", c>> /\ w[3] = <<"nonces", c>> /\ w[4] = <<"prepared", c>>
    OBVIOUS
  <2> HIDE DEF w
  <2> QED
    BY <1>1, <2>1, <2>2, <2>3 DEF Holds, LocalState
<1>6. DirInv' /\ RunJsonInv'
  BY <1>1, <1>3, <1>4, <1>5 DEF DirInv, RunJsonInv, FromReport, FromStep5, FromStep3, FromStep1, FromFetch
<1>7. SubmittedStaysOnDisk' /\ held' = {}
  BY <1>1 DEF SealInv, SubmittedStaysOnDisk, StartInv, BeforePost
<1>8. "local" \in BeforeSteps /\ "signin" \in ToSteps
  BY DEF BeforeSteps, BeforePost, ToSteps
<1> HIDE DEF w
<1>9. Named(w)
  BY <1>2, WritingAt, NamedOther DEF LocalState
<1> QED
  BY <1>0, <1>1, <1>2, <1>3, <1>6, <1>7, <1>8, <1>9, LiveMove

\* What a run that has built its local state takes along to its next position.
LEMMA MoveOn ==
    ASSUME SealInv, NEW from \in FromSignin, NEW to \in LivePc, NEW w, Successor(from, to),
           mode = "live", mode' = "live", seal_pc = from, Then(to, w),
           UNCHANGED <<run_no, target, damaged, harm, out>>, Plan(w, Writing(to))
    PROVE  /\ FileInv' /\ TodoInv' /\ SpoiltInv' /\ ReplayInv'
           /\ \A f \in Writing(to) \ {"run"} : files[f] = None
           /\ \A f \in File : seal_pc' \in NotYet(f) => files'[f] = None
           /\ Whole("identity")'
           /\ \A f \in LocalState : files[f] = <<ThisRun>> /\ Holds(f, <<ThisRun>>)'
           /\ from \in FromFetch => Taken(files["run"])'
           /\ from \in FromStep1 => Whole("status")'
           /\ from \in FromStep3 /\ step2_reads' => Whole("receipts1")'
           /\ from \in FromStep5 /\ step4_builds' => \A f \in Seal2File : Whole(f)'
<1>1. DirInv
  BY DEF SealInv, Own, ModeInv
<1>2. /\ \A f \in Writing(to) \ {"run"} : files[f] = None
      /\ \A f \in File : seal_pc' \in NotYet(f) => files'[f] = None
  BY MoveUntouched
<1>3. /\ FileInv' /\ TodoInv' /\ SpoiltInv' /\ ReplayInv'
      /\ \A f, c : Holds(f, c) => Holds(f, c)'
      /\ \A f : Whole(f) => Whole(f)'
  BY <1>2, Advance
<1>4. todo = <<>> /\ UNCHANGED <<files, target>> /\ ThisRun' = ThisRun
  BY DEF Then, ThisRun
<1>5. Whole("identity")'
  BY <1>1, <1>3 DEF DirInv, FromLocal
<1>6. \A f \in LocalState : files[f] = <<ThisRun>> /\ Holds(f, <<ThisRun>>)'
  <2>1. \A f \in LocalState : files[f] = <<ThisRun>>
    BY <1>1, <1>4, HoldsNow DEF DirInv
  <2> QED
    BY <1>4, <2>1 DEF Holds
<1>7. from \in FromFetch => Taken(files["run"])'
  BY <1>1, <1>4 DEF DirInv, Taken
<1>8. from \in FromStep1 => Whole("status")'
  BY <1>1, <1>3 DEF DirInv
<1>9. from \in FromStep3 /\ step2_reads' => Whole("receipts1")'
  BY <1>1, <1>3, <1>4, SameDir DEF DirInv
<1>10. from \in FromStep5 /\ step4_builds' => \A f \in Seal2File : Whole(f)'
  BY <1>1, <1>3, <1>4, SameDir DEF DirInv
<1> QED
  BY <1>2, <1>3, <1>5, <1>6, <1>7, <1>8, <1>9, <1>10

\* The writes of run.json.
LEMMA RunJsonPlan ==
    ASSUME SealInv, mode = "live", NEW stage \in Word, NEW answer \in Word
    PROVE  /\ Plan(RunJson(stage, answer), {"run"})
           /\ RunJson(stage, answer) = <<<<"run", <<ThisRun, stage, answer>>>>>>
           /\ Named(RunJson(stage, answer))
<1> DEFINE c == <<ThisRun, stage, answer>>
<1>1. c \in Text
  BY RunName, Texts
<1>2. Len(c) = 3 /\ c[1] = ThisRun
  OBVIOUS
<1> HIDE DEF c
<1>3. Writable("run", c)
  BY <1>1, <1>2 DEF Writable, WitnessFile
<1>4. Plan(<<<<"run", c>>>>, {"run"})
  BY <1>3, PlanOne
<1>5. Named(<<<<"run", c>>>>)
  BY <1>2 DEF Named
<1> QED
  BY <1>4, <1>5 DEF RunJson, c

\* run.json is written before anything is posted.
LEMMA MintInv == ASSUME SealInv, mint_bearer PROVE SealInv'
<1>0. got' \in Statuses
  BY DEF SealInv, ModeInv, mint_bearer
<1> DEFINE w == RunJson("submitted", "none")
<1>1. /\ Live("signin", "post", w) /\ UNCHANGED <<held, live_logs, moved, damaged, harm, out, clean>>
      /\ mode = "live" /\ mode' = "live" /\ Then("post", w) /\ seal_pc = "signin" /\ seal_pc' = "post"
      /\ UNCHANGED <<files, run_no, target>>
  BY DEF mint_bearer, Live, Then, ReplayVars, History
<1>2. /\ "signin" \in FromSignin /\ "post" \in LivePc /\ Writing("post") = {"run"}
      /\ "signin" \in BeforeSteps /\ "post" \in ToSteps
  BY WritingAt DEF FromSignin, LivePc, FromLocal, BeforeSteps, BeforePost, ToSteps
<1>3. Plan(w, Writing("post")) /\ Named(w)
  <2>1. "submitted" \in Word /\ "none" \in Word
    BY DEF Word
  <2> QED
    BY <1>1, <1>2, <2>1, RunJsonPlan
<1> HIDE DEF w
<1>4. /\ \A f \in File : seal_pc' \in NotYet(f) => files'[f] = None
      /\ Whole("identity")'
      /\ \A f \in LocalState : Holds(f, <<ThisRun>>)'
      /\ \A f \in Writing("post") \ {"run"} : files[f] = None
  BY <1>1, <1>2, <1>3, MoveOn, Successors
<1>5. DirInv' /\ RunJsonInv'
  BY <1>1, <1>4 DEF DirInv, RunJsonInv, FromReport, FromStep5, FromStep3, FromStep1, FromFetch
<1>6. SubmittedStaysOnDisk'
  BY <1>1 DEF SealInv, SubmittedStaysOnDisk
<1>7. "post" \notin BeforePost
  BY DEF BeforePost
<1> QED
  BY <1>0, <1>1, <1>2, <1>3, <1>4, <1>5, <1>6, <1>7, LiveMove

\* The leaves are posted: the seals they belong to are on disk already.
LEMMA PostInv ==
    ASSUME SealInv, NEW answer \in {"full", "short", "stranger", "unread", "lost", "refused"}, Post(answer)
    PROVE  SealInv'
<1>0. got' \in Statuses
  BY DEF SealInv, ModeInv, Post
<1> DEFINE to == IF answer = "lost" THEN "error" ELSE "posted"
           w == IF answer = "lost" THEN <<>> ELSE RunJson("posted", answer)
<1>1. /\ Live("post", to, w) /\ UNCHANGED <<live_logs, moved, damaged, harm, out, clean>>
      /\ mode = "live" /\ mode' = "live" /\ Then(to, w) /\ seal_pc = "post" /\ seal_pc' = to
      /\ UNCHANGED <<files, run_no, target>>
      /\ held' \subseteq held \cup {ThisRun}
  BY DEF Post, Live, Then, ReplayVars
<1>2. /\ "post" \in FromSignin /\ to \in LivePc
      /\ "post" \in BeforeSteps /\ to \in ToSteps /\ to \notin BeforePost
      /\ Writing("posted") = {"run"} /\ Writing("error") = {}
      /\ \A f \in File : "error" \notin NotYet(f)
  BY WritingAt DEF FromSignin, LivePc, FromLocal, BeforeSteps, BeforePost, ToSteps, NotYet
<1>3. Plan(w, Writing(to)) /\ Named(w)
  <2>1. "posted" \in Word /\ answer \in Word
    BY DEF Word
  <2>2. Plan(RunJson("posted", answer), {"run"}) /\ Named(RunJson("posted", answer))
    BY <1>1, <2>1, RunJsonPlan
  <2>3. Plan(<<>>, {}) /\ Named(<<>>)
    BY PlanNone DEF Named
  <2> QED
    BY <1>2, <2>2, <2>3
<1>4. Successor("post", to)
  BY <1>2, Successors DEF Successor
<1> HIDE DEF w
<1>5. /\ \A f \in File : seal_pc' \in NotYet(f) => files'[f] = None
      /\ Whole("identity")'
      /\ \A f \in LocalState : files[f] = <<ThisRun>> /\ Holds(f, <<ThisRun>>)'
      /\ \A f \in Writing(to) \ {"run"} : files[f] = None
  BY <1>1, <1>2, <1>3, <1>4, MoveOn
<1>6. DirInv' /\ RunJsonInv'
  BY <1>1, <1>5 DEF DirInv, RunJsonInv, FromReport, FromStep5, FromStep3, FromStep1, FromFetch
<1>7. SubmittedStaysOnDisk'
  BY <1>1, <1>5 DEF SealInv, SubmittedStaysOnDisk
<1> HIDE DEF to
<1> QED
  BY <1>0, <1>1, <1>2, <1>3, <1>5, <1>6, <1>7, LiveMove

\* The run goes on with leaves that were taken, or stops.
LEMMA PostedInv == ASSUME SealInv, Posted PROVE SealInv'
<1>0. got' \in Statuses
  BY DEF SealInv, ModeInv, Posted
<1>1. /\ seal_pc = "posted" /\ mode = "live" /\ mode' = "live"
      /\ UNCHANGED <<held, live_logs, moved, damaged, harm, out, clean, files, run_no, target>>
  BY DEF Posted, Live, Then, ReplayVars, History
<1>2. /\ "posted" \in FromSignin /\ "seal" \in LivePc
      /\ "posted" \in BeforeSteps /\ "seal" \in ToSteps /\ "error" \in ToSteps
      /\ "seal" \notin BeforePost /\ "error" \notin BeforePost
      /\ Writing("seal") = {"run"} /\ Writing("error") = {}
      /\ \A f \in File : "error" \notin NotYet(f)
  BY WritingAt DEF FromSignin, LivePc, FromLocal, BeforeSteps, BeforePost, ToSteps, NotYet
<1>3. SubmittedStaysOnDisk'
  BY <1>1 DEF SealInv, SubmittedStaysOnDisk
<1>4. CASE Answer \in {"full", "short", "stranger"}
  <2> DEFINE w == RunJson("epoch", Answer)
  <2>1. Live("posted", "seal", w) /\ Then("seal", w) /\ seal_pc' = "seal" /\ todo' = w
    BY <1>4 DEF Posted, Live, Then
  <2>2. Plan(w, Writing("seal")) /\ w[1][2] = <<ThisRun, "epoch", Answer>> /\ w # <<>> /\ Named(w)
    <3>1. \A a \in {"full", "short", "stranger"} : a \in Word
      BY DEF Word
    <3>2. "epoch" \in Word
      BY DEF Word
    <3>3. Plan(w, {"run"}) /\ w = <<<<"run", <<ThisRun, "epoch", Answer>>>>>> /\ Named(w)
      BY <1>1, <1>4, <3>1, <3>2, RunJsonPlan
    <3> HIDE DEF w
    <3> QED
      BY <1>2, <3>3
  <2> HIDE DEF w
  <2>3. /\ \A f \in File : seal_pc' \in NotYet(f) => files'[f] = None
        /\ Whole("identity")'
        /\ \A f \in LocalState : Holds(f, <<ThisRun>>)'
        /\ \A f \in Writing("seal") \ {"run"} : files[f] = None
    BY <1>1, <1>2, <2>1, <2>2, MoveOn, Successors
  <2>4. RunJsonInv'
    <3>1. ThisRun' = ThisRun
      BY <1>1 DEF ThisRun
    <3> QED
      BY <1>4, <2>1, <2>2, <3>1 DEF RunJsonInv, Taken
  <2>5. DirInv'
    BY <2>1, <2>3 DEF DirInv, FromReport, FromStep5, FromStep3, FromStep1, FromFetch
  <2> QED
    BY <1>0, <1>1, <1>2, <1>3, <2>1, <2>2, <2>3, <2>4, <2>5, LiveMove
<1>5. CASE Answer \notin {"full", "short", "stranger"}
  <2>1. Live("posted", "error", <<>>) /\ seal_pc' = "error"
    BY <1>5 DEF Posted, Live, Then
  <2>2. DirInv' /\ RunJsonInv'
    BY <1>2, <2>1 DEF DirInv, RunJsonInv, FromReport, FromStep5, FromStep3,
       FromStep1, FromFetch, FromSignin, FromLocal
  <2>3. Named(<<>>)
    BY DEF Named
  <2> QED
    BY <1>0, <1>1, <1>2, <1>3, <2>1, <2>2, <2>3, PlanNone, LiveMove
<1> QED
  BY <1>4, <1>5

\* The epoch is sealed.
LEMMA SealedInv == ASSUME SealInv, Sealed PROVE SealInv'
<1>0. got' \in Statuses
  BY DEF SealInv, ModeInv, Sealed
<1>1. /\ Live("seal", "fetch", <<>>) /\ UNCHANGED <<held, live_logs, moved, damaged, harm, out, clean>>
      /\ mode = "live" /\ mode' = "live" /\ Then("fetch", <<>>) /\ seal_pc = "seal" /\ seal_pc' = "fetch"
      /\ todo = <<>> /\ UNCHANGED <<files, run_no, target>>
  BY DEF Sealed, Live, Then, ReplayVars, History
<1>2. /\ "seal" \in FromSignin /\ "fetch" \in LivePc /\ Writing("fetch") = {}
      /\ "seal" \in BeforeSteps /\ "fetch" \in ToSteps /\ "fetch" \notin BeforePost
  BY WritingAt DEF FromSignin, LivePc, FromLocal, FromFetch, BeforeSteps, BeforePost, ToSteps
<1>3. Plan(<<>>, Writing("fetch")) /\ Named(<<>>)
  BY PlanNone DEF Named
<1>4. /\ \A f \in File : seal_pc' \in NotYet(f) => files'[f] = None
      /\ Whole("identity")'
      /\ \A f \in LocalState : Holds(f, <<ThisRun>>)'
      /\ \A f \in Writing("fetch") \ {"run"} : files[f] = None
  BY <1>1, <1>2, <1>3, MoveOn, Successors
<1>5. Taken(files["run"])'
  <2>1. Taken(files["run"])
    BY <1>1 DEF SealInv, Own, ModeInv, RunJsonInv
  <2> QED
    BY <1>1, <2>1 DEF Taken, ThisRun
<1>6. DirInv' /\ RunJsonInv'
  BY <1>1, <1>4, <1>5 DEF DirInv, RunJsonInv, FromReport, FromStep5, FromStep3, FromStep1
<1>7. SubmittedStaysOnDisk'
  BY <1>1 DEF SealInv, SubmittedStaysOnDisk
<1> QED
  BY <1>0, <1>1, <1>2, <1>3, <1>4, <1>6, <1>7, LiveMove

\* A run before its steps that fetches goes on with any plan of writes.
LEMMA FetchMove ==
    ASSUME SealInv, NEW from, NEW to, NEW w, <<from, to>> \in {<<"fetch", "epochs">>, <<"epochs", "status">>},
           Live(from, to, w), UNCHANGED <<held, live_logs, moved, damaged, harm, out, clean>>, got' \in Statuses,
           Plan(w, Writing(to))
    PROVE  SealInv'
<1>1. /\ mode = "live" /\ mode' = "live" /\ Then(to, w) /\ seal_pc = from /\ seal_pc' = to
      /\ UNCHANGED <<files, run_no, target>>
      /\ Successor(from, to)
  BY Successors DEF Live, Then
<1>2. /\ from \in FromSignin /\ from \in FromFetch /\ to \in LivePc
      /\ from \in BeforeSteps /\ to \in ToSteps /\ to \notin BeforePost
  BY DEF FromSignin, LivePc, FromLocal, FromFetch, BeforeSteps, BeforePost, ToSteps
<1>3. /\ \A f \in File : seal_pc' \in NotYet(f) => files'[f] = None
      /\ Whole("identity")'
      /\ \A f \in LocalState : Holds(f, <<ThisRun>>)'
      /\ Taken(files["run"])'
      /\ \A f \in Writing(to) \ {"run"} : files[f] = None
  BY <1>1, <1>2, MoveOn
<1>4. DirInv' /\ RunJsonInv'
  BY <1>1, <1>3 DEF DirInv, RunJsonInv, FromReport, FromStep5, FromStep3, FromStep1
<1>5. SubmittedStaysOnDisk'
  BY <1>1 DEF SealInv, SubmittedStaysOnDisk
<1>6. Named(w)
  BY WritingAt, NamedOther DEF WitnessFile, EpochFile
<1> QED
  BY <1>1, <1>2, <1>3, <1>4, <1>5, <1>6, LiveMove

\* A body that came is written, one that did not is not.
LEMMA BodyPlan ==
    ASSUME NEW f, f # "run", f # "container1", NEW b \in Word, NEW there \in BOOLEAN
    PROVE  Plan(IF there THEN <<<<f, <<b>>>>>> ELSE <<>>, {f})
<1>1. Plan(<<<<f, <<b>>>>>>, {f})
  BY WritableWord, PlanOne
<1>2. Plan(<<>>, {f})
  BY PlanNone
<1> QED
  BY <1>1, <1>2

\* The witnesses are fetched, with any bodies.
LEMMA PullInv ==
    ASSUME SealInv, NEW body \in [WitnessFile -> Body \cup {"none"}], submit_and_pull(body)
    PROVE  SealInv'
<1> DEFINE served == {f \in WitnessFile : body[f] # "none"}
           write(f) == IF f \in served THEN <<<<f, <<body[f]>>>>>> ELSE <<>>
           w == write("s1_evm") \o write("s1_qtsa") \o write("s2_qtsa")
<1>0. got' \in Statuses
  BY DEF SealInv, ModeInv, Statuses, submit_and_pull
<1>1. Live("fetch", "epochs", w) /\ UNCHANGED <<held, live_logs, moved, damaged, harm, out, clean>>
  BY DEF submit_and_pull, Live, ReplayVars
<1>2. \A f \in WitnessFile : body[f] \in Word
  BY DEF Word
<1>3. Plan(write("s1_evm"), {"s1_evm"}) /\ Plan(write("s1_qtsa"), {"s1_qtsa"}) /\ Plan(write("s2_qtsa"), {"s2_qtsa"})
  BY <1>2, BodyPlan DEF WitnessFile
<1> HIDE DEF write
<1>4. Plan(write("s1_evm") \o write("s1_qtsa"), {"s1_evm"} \cup {"s1_qtsa"})
  BY <1>3, PlanJoin
<1>5. Plan(w, ({"s1_evm"} \cup {"s1_qtsa"}) \cup {"s2_qtsa"})
  BY <1>3, <1>4, PlanJoin
<1>6. ({"s1_evm"} \cup {"s1_qtsa"}) \cup {"s2_qtsa"} = Writing("epochs")
  BY WritingAt DEF WitnessFile
<1> HIDE DEF w
<1> QED
  BY <1>0, <1>1, <1>5, <1>6, FetchMove

\* So are the epoch's listings and row.
LEMMA ReadInv ==
    ASSUME SealInv, NEW body \in [EpochFile -> {"good", "bad", "error", "none"}], read_epoch_bodies(body)
    PROVE  SealInv'
<1> DEFINE answered == {f \in EpochFile : body[f] # "none"}
           write(f) == IF f \in answered THEN <<<<f, <<body[f]>>>>>> ELSE <<>>
           w == write("epoch_evm") \o write("epoch_qtsa") \o write("epochs")
<1>0. got' \in Statuses
  BY DEF SealInv, ModeInv, Statuses, read_epoch_bodies
<1>1. Live("epochs", "status", w) /\ UNCHANGED <<held, live_logs, moved, damaged, harm, out, clean>>
  BY DEF read_epoch_bodies, Live, ReplayVars
<1>2. \A f \in EpochFile : body[f] \in Word
  BY DEF Word
<1>3. Plan(write("epoch_evm"), {"epoch_evm"}) /\ Plan(write("epoch_qtsa"), {"epoch_qtsa"}) /\ Plan(write("epochs"), {"epochs"})
  BY <1>2, BodyPlan DEF EpochFile
<1> HIDE DEF write
<1>4. Plan(write("epoch_evm") \o write("epoch_qtsa"), {"epoch_evm"} \cup {"epoch_qtsa"})
  BY <1>3, PlanJoin
<1>5. Plan(w, ({"epoch_evm"} \cup {"epoch_qtsa"}) \cup {"epochs"})
  BY <1>3, <1>4, PlanJoin
<1>6. ({"epoch_evm"} \cup {"epoch_qtsa"}) \cup {"epochs"} = Writing("status")
  BY WritingAt DEF EpochFile
<1> HIDE DEF w
<1> QED
  BY <1>0, <1>1, <1>5, <1>6, FetchMove

\* fetch-status.json is written.
LEMMA StatusInv == ASSUME SealInv, Status PROVE SealInv'
<1> DEFINE c == <<got["s1_evm"], got["s1_qtsa"], got["s2_qtsa"],
                  got["epoch_evm"], got["epoch_qtsa"], got["epochs"]>>
           w == <<<<"status", c>>>>
<1>0. got' \in Statuses
  BY NoLogsType DEF Status
<1>1. /\ Live("status", "step 1", w) /\ UNCHANGED <<held, live_logs, moved, damaged, harm, out, clean>>
      /\ mode = "live" /\ mode' = "live" /\ Then("step 1", w) /\ seal_pc = "status" /\ seal_pc' = "step 1"
      /\ todo' = w /\ UNCHANGED <<files, run_no, target>>
  BY DEF Status, Live, Then, ReplayVars, History
<1>2. /\ "status" \in FromSignin /\ "status" \in FromFetch /\ "step 1" \in LivePc
      /\ Writing("step 1") = {"status"}
      /\ "status" \in BeforeSteps /\ "step 1" \in ToSteps /\ "step 1" \notin BeforePost
  BY WritingAt DEF FromSignin, LivePc, FromLocal, FromFetch, FromStep1, BeforeSteps, BeforePost, ToSteps
<1>3. c \in Text /\ c # None /\ c # Torn
  <2>1. \A f \in WitnessFile \cup EpochFile : got[f] \in Word
    BY DEF SealInv, ModeInv, Statuses, Word
  <2>2. /\ got["s1_evm"] \in Word /\ got["s1_qtsa"] \in Word /\ got["s2_qtsa"] \in Word
        /\ got["epoch_evm"] \in Word /\ got["epoch_qtsa"] \in Word /\ got["epochs"] \in Word
    BY <2>1 DEF WitnessFile, EpochFile
  <2>3. c \in Text
    BY <2>2, Texts
  <2> QED
    BY <2>3 DEF None, Torn
<1> HIDE DEF c
<1>4. Plan(w, Writing("step 1")) /\ Named(w)
  <2>1. Writable("status", c)
    BY <1>3, WritableText DEF WitnessFile
  <2>2. Plan(w, {"status"})
    BY <2>1, PlanOne
  <2> HIDE DEF w
  <2> QED
    BY <1>2, <2>2, NamedOther
<1>5. Whole("status")'
  <2>1. 1 \in DOMAIN w /\ w[1][1] = "status" /\ w[1][2] = c
    OBVIOUS
  <2> HIDE DEF w
  <2> QED
    BY <1>1, <1>3, <2>1 DEF Whole
<1> HIDE DEF w
<1>6. /\ \A f \in File : seal_pc' \in NotYet(f) => files'[f] = None
      /\ Whole("identity")'
      /\ \A f \in LocalState : Holds(f, <<ThisRun>>)'
      /\ Taken(files["run"])'
      /\ \A f \in Writing("step 1") \ {"run"} : files[f] = None
  BY <1>1, <1>2, <1>4, MoveOn, Successors
<1>7. DirInv' /\ RunJsonInv'
  BY <1>1, <1>5, <1>6 DEF DirInv, RunJsonInv, FromReport, FromStep5, FromStep3
<1>8. SubmittedStaysOnDisk'
  BY <1>1 DEF SealInv, SubmittedStaysOnDisk
<1> QED
  BY <1>0, <1>1, <1>2, <1>4, <1>6, <1>7, <1>8, LiveMove

----------------------------------------------------------------------------
(***************************************************************************)
(* A write.                                                                *)
(***************************************************************************)

\* Two lists as one.
LEMMA MadeSome ==
    /\ \A p, a : <<p>> \o <<a>> = <<p, a>>
    /\ \A p, a, b : <<p>> \o <<a, b>> = <<p, a, b>>
<1>1. ASSUME NEW p, NEW a PROVE <<p>> \o <<a>> = <<p, a>>
  <2> DEFINE S == {p, a}
             s == <<p>> \o <<a>>
             t == <<p, a>>
  <2>1. <<p>> \in Seq(S) /\ <<a>> \in Seq(S) /\ t \in Seq(S)
    OBVIOUS
  <2>2. s \in Seq(S) /\ Len(s) = 2 /\ Len(t) = 2
    BY <2>1
  <2>3. s[1] = p /\ s[2] = a
    BY <2>1
  <2>4. \A i \in 1..2 : s[i] = t[i]
    BY <2>3
  <2> HIDE DEF s, t, S
  <2>5. t \in Seq(S) /\ Len(s) = Len(t) /\ \A i \in 1..Len(s) : s[i] = t[i]
    BY <2>1, <2>2, <2>4
  <2>6. s = t
    BY <2>2, <2>5, SeqEqual
  <2> QED
    BY <2>6 DEF s, t
<1>2. ASSUME NEW p, NEW a, NEW b PROVE <<p>> \o <<a, b>> = <<p, a, b>>
  <2> DEFINE S == {p, a, b}
             s == <<p>> \o <<a, b>>
             t == <<p, a, b>>
  <2>1. <<p>> \in Seq(S) /\ <<a, b>> \in Seq(S) /\ t \in Seq(S)
    OBVIOUS
  <2>2. s \in Seq(S) /\ Len(s) = 3 /\ Len(t) = 3
    BY <2>1
  <2>3. s[1] = p /\ s[2] = a /\ s[3] = b
    BY <2>1
  <2>4. \A i \in 1..3 : s[i] = t[i]
    BY <2>3
  <2> HIDE DEF s, t, S
  <2>5. t \in Seq(S) /\ Len(s) = Len(t) /\ \A i \in 1..Len(s) : s[i] = t[i]
    BY <2>1, <2>2, <2>4
  <2>6. s = t
    BY <2>2, <2>5, SeqEqual
  <2> QED
    BY <2>6 DEF s, t
<1> QED
  BY <1>1, <1>2

\* What is made of the seal prepared by a run.
LEMMA MadeAre ==
    ASSUME NEW r, files["prepared"] = <<r>>
    PROVE  /\ Made(S1Bodies) = <<r, BodyOf("s1_evm"), BodyOf("s1_qtsa")>>
           /\ Receipts1 = <<r, files["container1"][2], files["container1"][3]>>
           /\ Seal2 = <<r, BodyOf("s2_qtsa")>>
BY MadeSome DEF Made, S1Bodies, S2Bodies, Receipts1, InContainer, Inside, Seal2

\* What is under way has been touched.
LEMMA WritingTouched == \A pc : \A f \in Writing(pc) : pc \notin NotYet(f)
<1> TAKE pc
<1> TAKE f \in Writing(pc)
<1>1. \/ pc = "local" /\ f = "identity"
      \/ pc = "signin" /\ f \in LocalState
      \/ pc \in {"post", "posted", "seal", "report"} /\ f = "run"
      \/ pc = "epochs" /\ f \in WitnessFile
      \/ pc = "status" /\ f \in EpochFile
      \/ pc = "step 1" /\ f = "status"
      \/ pc = "step 2" /\ f \in {"container1", "attest1"}
      \/ pc = "step 3" /\ f = "receipts1"
      \/ pc = "step 5" /\ f \in Seal2File
  BY DEF Writing
<1> QED
  BY <1>1 DEF NotYet, BeforeSteps, BeforePost, LocalState, WitnessFile, EpochFile

\* Which verdicts there are at a step's position.
LEMMA LogsAt ==
    ASSUME LogInv
    PROVE  /\ seal_pc = "step 1" => \A n \in Step : logs[n] = "none"
           /\ seal_pc = "step 2" => \A n \in Step : n # 1 => logs[n] = "none"
<1>1. 1 \in 1..8 /\ 2 \in 1..8
  OBVIOUS
<1>2. /\ seal_pc = StepPc[1] => \A n \in Step : logs[n] = "none" <=> n >= 1
      /\ seal_pc = StepPc[2] => \A n \in Step : logs[n] = "none" <=> n >= 2
  BY <1>1 DEF LogInv
<1>3. \A n \in Step : n >= 1 /\ (n # 1 => n >= 2)
  BY DEF Step
<1> QED
  BY <1>2, <1>3, StepPcs

\* A file under way changes: what the steps make of the others stays, and fits.
LEMMA FitChange ==
    ASSUME SealInv, mode = "live", NEW f \in Writing(seal_pc), UNCHANGED run_no, damaged' = "none",
           \A g \in File \ {f} : files'[g] = files[g],
           f \in StepFile => files'[f] \in {None, Torn} \/ files'[f] = Derived(f),
           f = "run" => files'[f] \in {None, Torn} \/ files'[f][1] = ThisRun
    PROVE  /\ Readable("run")' => \A g \in LocalState : files'[g] = <<files'["run"][1]>>
           /\ \A g \in StepFile : files'[g] \in {None, Torn} \/ files'[g] = Derived(g)'
           /\ \A g \in StepFile \cap Writing(seal_pc) : Derived(g)' = Derived(g)
<1>1. DirInv /\ FitInv /\ damaged = "none" /\ Plan(todo, Writing(seal_pc))
  BY DEF SealInv, Own, ModeInv, TodoInv
<1>2. f \in File
  BY DEF Writing
<1>3. /\ LocalState \subseteq File /\ StepFile \subseteq File /\ WitnessFile \subseteq File
      /\ "run" \in File /\ "container1" \in StepFile /\ "receipts1" \in StepFile
      /\ LocalState \cap StepFile = {} /\ "run" \notin LocalState /\ "run" \notin StepFile
      /\ WitnessFile \cap StepFile = {} /\ "run" \notin WitnessFile /\ WitnessFile \cap LocalState = {}
  BY DEF File, LocalState, WitnessFile, EpochFile, StepFile, Seal2File
<1>4. CASE f = "run"
  <2>1. seal_pc \in {"post", "posted", "seal", "report"} /\ Writing(seal_pc) = {"run"}
    <3>1. seal_pc \in {"post", "posted", "seal", "report"}
      BY <1>4 DEF Writing, LocalState, WitnessFile, EpochFile, Seal2File
    <3> QED
      BY <3>1, WritingAt
  <2>2. \A g \in LocalState : files'[g] = <<ThisRun>>
    <3>1. seal_pc \in FromSignin
      BY <2>1 DEF FromSignin, FromFetch, FromStep1, FromStep3, FromStep5, FromReport
    <3>2. \A g \in LocalState : Holds(g, <<ThisRun>>)
      BY <1>1, <3>1 DEF DirInv
    <3>3. \A i \in DOMAIN todo : todo[i][1] = "run"
      BY <1>1, <2>1 DEF Plan
    <3>4. \A g \in LocalState : files[g] = <<ThisRun>>
      BY <1>3, <3>2, <3>3 DEF Holds
    <3> QED
      BY <1>3, <1>4, <3>4
  <2>3. Same(LocalState \cup WitnessFile) /\ Same({"container1"})
    BY <1>3, <1>4 DEF Same
  <2>4. \A g \in StepFile : Derived(g)' = Derived(g)
    BY <2>3, SameDerived
  <2> QED
    BY <1>1, <1>3, <1>4, <2>2, <2>4 DEF FitInv, Readable
<1>5. CASE f \in StepFile
  <2>1. Same(LocalState \cup WitnessFile) /\ files'["run"] = files["run"] /\ Same(LocalState)
    BY <1>3, <1>5 DEF Same
  <2>2. Readable("run")' => \A g \in LocalState : files'[g] = <<files'["run"][1]>>
    BY <1>1, <2>1 DEF FitInv, Readable, Same
  <2>3. \A g \in StepFile \ {"receipts1"} : Derived(g)' = Derived(g)
    BY <2>1, SameDerived
  <2>4. CASE f = "container1"
    <3>1. seal_pc = "step 2" /\ Writing(seal_pc) = {"container1", "attest1"}
      <4>1. seal_pc = "step 2"
        BY <2>4 DEF Writing, LocalState, WitnessFile, EpochFile, Seal2File
      <4> QED
        BY <4>1, WritingAt
    <3>2. files'["receipts1"] = None
      <4>1. seal_pc \in NotYet("receipts1")
        BY <3>1 DEF NotYet, LocalState, WitnessFile, EpochFile
      <4> QED
        BY <1>1, <1>3, <2>4, <4>1 DEF DirInv
    <3> QED
      BY <1>1, <1>3, <2>2, <2>3, <2>4, <3>1, <3>2 DEF FitInv
  <2>5. CASE f # "container1"
    <3>1. Same({"container1"})
      BY <1>3, <2>5 DEF Same
    <3>2. \A g \in StepFile : Derived(g)' = Derived(g)
      BY <2>1, <3>1, SameDerived
    <3> QED
      BY <1>1, <1>3, <2>2, <3>2 DEF FitInv
  <2> QED
    BY <2>4, <2>5
<1>6. CASE f # "run" /\ f \notin StepFile
  <2>1. seal_pc \in {"local", "signin", "epochs", "status", "step 1"}
    BY <1>6 DEF Writing, StepFile, Seal2File
  <2>2. \A g \in StepFile : files'[g] = None
    <3>1. \A g \in StepFile : seal_pc \in NotYet(g)
      BY <2>1 DEF NotYet, StepFile, Seal2File, LocalState, WitnessFile, EpochFile, BeforeSteps, BeforePost
    <3> QED
      BY <1>1, <1>3, <1>6, <3>1 DEF DirInv
  <2>3. StepFile \cap Writing(seal_pc) = {}
    BY <2>1, WritingAt DEF StepFile, Seal2File, LocalState, WitnessFile, EpochFile
  <2>4. CASE f \in LocalState
    <3>1. seal_pc \in NotYet("run")
      BY <1>6, <2>4 DEF Writing, NotYet, LocalState, WitnessFile, EpochFile, BeforePost, StepFile, Seal2File
    <3>2. files'["run"] = None
      BY <1>1, <1>3, <1>6, <3>1 DEF DirInv
    <3> QED
      BY <2>2, <2>3, <3>2 DEF Readable
  <2>5. CASE f \notin LocalState
    BY <1>1, <1>3, <1>6, <2>2, <2>3, <2>5 DEF FitInv, Readable
  <2> QED
    BY <2>4, <2>5
<1> QED
  BY <1>4, <1>5, <1>6

\* Every write keeps the invariant: it completes what was under way, and no
\* verdict given so far read the file.
LEMMA WriteInv == ASSUME SealInv, write_file PROVE SealInv'
<1>1. PICK f \in Writing(seal_pc) \cap File, c \in Text :
              /\ mode = "live" /\ 1 \in DOMAIN todo /\ todo[1] = <<f, c>> /\ Writable(f, c)
              /\ f # "run" => files[f] = None
              /\ files' = [files EXCEPT ![f] = c]
              /\ TodoInv' /\ (f = "run" => todo' = <<>>)
              /\ \A g \in File \ {"run"} : \A d : Holds(g, d) /\ d # None => Holds(g, d)'
              /\ \A g \in File \ {"run"} : Whole(g) => Whole(g)'
              /\ \A i \in DOMAIN todo' : i + 1 \in DOMAIN todo /\ todo'[i] = todo[i + 1]
  BY WriteStep
<1>2. /\ UNCHANGED <<mode, seal_pc, run_no, target, got, logs, reading,
                     damaged, harm, out, held, live_logs, moved, clean, faults>>
      /\ todo # <<>>
  BY DEF write_file, ReplayVars, History
<1>3. /\ damaged = "none" /\ DirInv /\ RunJsonInv /\ LogInv /\ mode = "live"
  BY <1>1 DEF SealInv, Own, ModeInv
<1>4. files'[f] = c /\ \A g \in File \ {f} : files'[g] = files[g]
  BY <1>1 DEF SealInv, FileInv
<1>5. ModeInv' /\ SpoiltInv' /\ ReplayInv' /\ StartInv'
  BY <1>2, <1>3 DEF SealInv, ModeInv, SpoiltInv, ReplayInv, StartInv
<1>6. FileInv'
  <2>1. files' \in [File -> Text]
    BY <1>1 DEF SealInv, FileInv
  <2> QED
    BY <1>1, <1>2, <1>4, <2>1 DEF SealInv, FileInv
<1>7. seal_pc = "report" => files' = files
  <2>1. seal_pc = "report" => c = files[f]
    <3>1. seal_pc = "report" => f = "run"
      BY <1>1, WritingAt
    <3>2. todo[1][2] = c
      BY <1>1
    <3> QED
      BY <1>2, <1>3, <3>1, <3>2 DEF RunJsonInv
  <2>2. files \in [File -> Text]
    BY DEF SealInv, FileInv
  <2> QED
    BY <1>1, <2>1, <2>2
<1>8. seal_pc \in FromStep3 => Same(File \ Outputs)
  <2>1. CASE f = "run"
    <3>1. seal_pc \in FromStep3 => seal_pc = "report"
      BY <1>1, <2>1 DEF Writing, FromStep3, FromStep5, FromReport, LocalState, WitnessFile, EpochFile, Seal2File
    <3> QED
      BY <1>7, <3>1 DEF Same
  <2>2. CASE f # "run"
    <3>1. seal_pc \in FromStep3 => f \in Outputs
      BY <1>1, <2>2 DEF Writing, FromStep3, FromStep5, FromReport, Outputs, Seal2File
    <3> QED
      BY <1>4, <3>1 DEF Same
  <2> QED
    BY <2>1, <2>2
<1>9. DirInv'
  <2>1. \A g \in File : seal_pc' \in NotYet(g) => files'[g] = None
    BY <1>1, <1>2, <1>3, <1>4, WritingTouched DEF DirInv
  <2>2. seal_pc' \in FromLocal => Whole("identity")'
    <3>1. "identity" \in File \ {"run"}
      BY DEF File
    <3> QED
      BY <1>1, <1>2, <1>3, <3>1 DEF DirInv
  <2>3. seal_pc' \in FromSignin => \A g \in LocalState : Holds(g, <<ThisRun>>)'
    <3>1. ThisRun' = ThisRun /\ <<ThisRun>> # None
      BY <1>2 DEF ThisRun, None
    <3>2. \A g \in LocalState : g \in File \ {"run"}
      BY DEF File, LocalState
    <3>3. seal_pc \in FromSignin => \A g \in LocalState : Holds(g, <<ThisRun>>)
      BY <1>3 DEF DirInv
    <3>5. \A g \in LocalState : Holds(g, <<ThisRun>>)' <=> (files'[g] = <<ThisRun>> \/ \E i \in DOMAIN todo' : todo'[i] = <<g, <<ThisRun>>>>)
      BY <3>1 DEF Holds
    <3>6. \A g \in LocalState : Holds(g, <<ThisRun>>) =>
              (files'[g] = <<ThisRun>> \/ \E i \in DOMAIN todo' : todo'[i] = <<g, <<ThisRun>>>>)
      <4> DEFINE d == <<ThisRun>>
      <4>1. d # None
        BY <3>1
      <4> HIDE DEF d
      <4>2. \A g \in LocalState : Holds(g, d) =>
               (files'[g] = d \/ \E i \in DOMAIN todo' : todo'[i] = <<g, d>>)
        BY <1>1, <3>2, <4>1 DEF Holds
      <4> QED
        BY <4>2 DEF d
    <3> QED
      BY <1>2, <3>3, <3>5, <3>6
  <2>4. seal_pc' \in FromFetch => Taken(files["run"])'
    <3>1. seal_pc \in FromFetch /\ f = "run" => seal_pc = "report"
      BY <1>1 DEF Writing, FromFetch, FromStep1, FromStep3, FromStep5, FromReport, LocalState,
         WitnessFile, EpochFile, Seal2File
    <3>2. "run" \in File
      BY DEF File
    <3>3. seal_pc \in FromFetch => files'["run"] = files["run"]
      BY <1>4, <1>7, <3>1, <3>2
    <3> QED
      BY <1>2, <1>3, <3>3 DEF DirInv, Taken, ThisRun
  <2>5. seal_pc' \in FromStep1 => Whole("status")'
    <3>1. "status" \in File \ {"run"}
      BY DEF File
    <3> QED
      BY <1>1, <1>2, <1>3, <3>1 DEF DirInv
  <2>6. seal_pc' \in FromStep3 /\ step2_reads' => Whole("receipts1")'
    <3> SUFFICES ASSUME seal_pc \in FromStep3, step2_reads' PROVE Whole("receipts1")'
      BY <1>2
    <3>1. Same(LocalState \cup {"s1_evm", "s1_qtsa", "container1"})
      BY <1>8 DEF Same, File, Outputs, LocalState, WitnessFile, StepFile
    <3>2. step2_reads /\ "receipts1" \in File \ {"run"}
      BY <3>1, SameSeal1 DEF File, StepFile
    <3> QED
      BY <1>1, <1>3, <3>2 DEF DirInv
  <2>7. seal_pc' \in FromStep5 /\ step4_builds' => \A g \in Seal2File : Whole(g)'
    <3> SUFFICES ASSUME seal_pc \in FromStep5, step4_builds' PROVE \A g \in Seal2File : Whole(g)'
      BY <1>2
    <3>1. Same(LocalState \cup {"s2_qtsa"})
      BY <1>8 DEF Same, File, Outputs, LocalState, WitnessFile, FromStep3
    <3>2. step4_builds /\ \A g \in Seal2File : g \in File \ {"run"}
      BY <3>1, SameSeal2 DEF File, StepFile, Seal2File
    <3> QED
      BY <1>1, <1>3, <3>2 DEF DirInv
  <2> QED
    BY <2>1, <2>2, <2>3, <2>4, <2>5, <2>6, <2>7 DEF DirInv
<1>10. RunJsonInv'
  <2>1. seal_pc = "seal" \/ seal_pc = "report" => f = "run"
    BY <1>1, WritingAt
  <2>2. seal_pc = "seal" => Taken(c)
    BY <1>1, <1>2, <1>3 DEF RunJsonInv
  <2> QED
    BY <1>1, <1>2, <1>4, <2>1, <2>2 DEF RunJsonInv, Taken, ThisRun
<1>11. LogInv'
  <2>1. ASSUME seal_pc \in FromStep1, NEW n \in Step
        PROVE  /\ logs'[n] = "pass" => Found(n)'
               /\ clean' /\ ~moved' /\ logs'[n] = "fail" => ~Found(n)'
    <3>1. CASE seal_pc = "step 1"
      <4>1. logs[n] = "none"
        BY <1>3, <3>1, LogsAt DEF LogInv
      <4> QED
        BY <1>2, <4>1
    <3>2. CASE seal_pc = "step 2"
      <4>1. n # 1 => logs[n] = "none"
        BY <1>3, <3>2, LogsAt DEF LogInv
      <4>2. Same(File \ StepFile)
        BY <1>1, <1>4, <3>2, WritingAt DEF Same, StepFile
      <4>3. Found(1)' <=> Found(1)
        BY <4>2, SameFound1
      <4> QED
        BY <1>2, <1>3, <2>1, <4>1, <4>3 DEF LogInv
    <3>3. CASE seal_pc \in FromStep3
      <4>1. Found(n)' <=> Found(n)
        BY <1>2, <1>8, <3>3, SameFound
      <4> QED
        BY <1>2, <1>3, <2>1, <4>1 DEF LogInv
    <3> QED
      BY <2>1, <3>1, <3>2, <3>3 DEF FromStep1
  <2>2. seal_pc \in FromStep3 => Step2Left'
    <3>1. seal_pc \in FromStep3 => Same({"container1", "attest1"})
      BY <1>8 DEF Same, File, Outputs, StepFile
    <3> QED
      BY <1>2, <1>3, <3>1, SameLeft DEF LogInv
  <2> QED
    BY <1>2, <1>3, <2>1, <2>2 DEF LogInv, all_passed
<1>12. SubmittedStaysOnDisk'
  <2>1. CASE seal_pc = "signin"
    BY <1>2, <1>3, <2>1 DEF SealInv, StartInv, BeforePost, SubmittedStaysOnDisk
  <2>2. CASE seal_pc # "signin"
    <3>1. f \notin LocalState
      BY <1>1, <2>2 DEF Writing, LocalState, WitnessFile, EpochFile, Seal2File
    <3>2. \A g \in LocalState : files'[g] = files[g]
      BY <1>4, <3>1 DEF File
    <3> QED
      BY <1>2, <1>3, <3>2 DEF SealInv, SubmittedStaysOnDisk
  <2> QED
    BY <2>1, <2>2
<1>13. KeptInv'
  <2>0. NoLogs' = NoLogs
    BY DEF NoLogs, Step
  <2>1. CASE live_logs = NoLogs /\ ~moved
    BY <1>2, <2>0, <2>1 DEF KeptInv
  <2>2. CASE live_logs # NoLogs \/ moved
    <3>1. seal_pc = "report"
      BY <1>1, <1>3, <2>2, WritingAt DEF SealInv, StartInv
    <3> QED
      BY <1>2, <1>7, <3>1, KeptStays DEF SealInv
  <2> QED
    BY <2>1, <2>2
<1>14. FitInv'
  <2>1. \A i \in DOMAIN todo : FitWrite(todo[i])
    BY <1>3 DEF SealInv, FitInv
  <2>2. /\ f \in StepFile => c = Derived(f)
        /\ f = "run" => c[1] = ThisRun
    BY <1>1, <2>1 DEF FitWrite
  <2>3. /\ Readable("run")' => \A g \in LocalState : files'[g] = <<files'["run"][1]>>
        /\ \A g \in StepFile : files'[g] \in {None, Torn} \/ files'[g] = Derived(g)'
        /\ \A g \in StepFile \cap Writing(seal_pc) : Derived(g)' = Derived(g)
    BY <1>1, <1>2, <1>3, <1>4, <2>2, FitChange
  <2>4. \A i \in DOMAIN todo' : FitWrite(todo[i])'
    <3> SUFFICES ASSUME NEW i \in DOMAIN todo' PROVE FitWrite(todo[i])'
      OBVIOUS
    <3>1. todo'[i] = todo[i + 1] /\ FitWrite(todo'[i])
      BY <1>1, <2>1
    <3>2. todo'[i][1] \in Writing(seal_pc)
      BY <1>1, <1>2 DEF TodoInv, Plan
    <3>3. ThisRun' = ThisRun
      BY <1>2 DEF ThisRun
    <3> QED
      BY <2>3, <3>1, <3>2, <3>3 DEF FitWrite
  <2> QED
    BY <2>3, <2>4 DEF FitInv
<1> QED
  BY <1>1, <1>5, <1>6, <1>9, <1>10, <1>11, <1>12, <1>13, <1>14 DEF SealInv

----------------------------------------------------------------------------
(***************************************************************************)
(* The steps, in a run and in a replay.                                    *)
(***************************************************************************)

\* Step 5 finds what the files say, if the chain was read in both steps.
LEMMA Left5 ==
    ASSUME Step2Left, NEW chain \in BOOLEAN
    PROVE  /\ step5_ok(chain) => Reading5
           /\ clean /\ chain /\ Reading5 => step5_ok(chain)
<1>1. step5_ok(chain) => Reading5
  BY DEF step5_ok, step5a_ok, step5b_ok, Reading5, step2_reads
<1>2. ASSUME clean, chain, Reading5 PROVE step5_ok(chain)
  <2>1. step2_reads /\ Readable("attest1") /\ Readable("container1")
    BY <1>2 DEF Reading5, step2_reads
  <2>2. reading = "answered"
    BY <1>2, <2>1 DEF Step2Left
  <2>3. Step2Out(chain) = "answered"
    BY <1>2, <2>1 DEF Step2Out
  <2> QED
    BY <1>2, <2>1, <2>2, <2>3 DEF step5_ok, step5a_ok, step5b_ok, Reading5
<1> QED
  BY <1>1, <1>2

\* What a step of a run finds is what the files say, if it can read the chain,
\* and could in step 2.
LEMMA OkLive ==
    ASSUME mode = "live", NEW n \in Step, NEW chain \in BOOLEAN, n = 5 => Step2Left
    PROVE  /\ Ok(n, chain) => Found(n)
           /\ clean /\ chain /\ Found(n) => Ok(n, chain)
<1>1. n = 1 \/ n = 2 \/ n = 3 \/ n = 4 \/ n = 5 \/ n = 6 \/ n = 7
  BY DEF Step
<1>2. CASE n = 1
  BY <1>2 DEF Ok, Found, step1_ok, step1_builds
<1>3. CASE n = 2
  BY <1>3 DEF Ok, Found, step2_ok, Reading2, Reproduced, DidExpected
<1>4. CASE n = 3
  BY <1>4 DEF Ok, Found, step3_ok
<1>5. CASE n = 4
  BY <1>5 DEF Ok, Found, step4_ok, step4a_ok, step4b_ok, step4_builds, Reproduced
<1>6. CASE n = 5
  BY <1>6, Left5 DEF Ok, Found
<1>7. CASE n = 6
  BY <1>7 DEF Ok, Found, step6_ok
<1>8. CASE n = 7
  BY <1>8 DEF Ok, Found
<1> QED
  BY <1>1, <1>2, <1>3, <1>4, <1>5, <1>6, <1>7, <1>8

\* So is what a step of a replay finds; it compares the outputs too.
LEMMA OkReplay ==
    ASSUME mode = "replay", NEW n \in 2..7, NEW chain \in BOOLEAN, n = 5 => Step2Left
    PROVE  /\ Ok(n, chain) => FoundAgain(n)
           /\ clean /\ chain /\ FoundAgain(n) => Ok(n, chain)
<1>1. n = 2 \/ n = 3 \/ n = 4 \/ n = 5 \/ n = 6 \/ n = 7
  OBVIOUS
<1>3. CASE n = 2
  BY <1>3 DEF Ok, FoundAgain, step2_ok, Reading2, Reproduced, DidExpected
<1>4. CASE n = 3
  BY <1>4 DEF Ok, FoundAgain, Found, step3_ok
<1>5. CASE n = 4
  BY <1>5 DEF Ok, FoundAgain, step4_ok, step4a_ok, step4b_ok, step4_builds, Reproduced
<1>6. CASE n = 5
  BY <1>6, Left5 DEF Ok, FoundAgain, Found
<1>7. CASE n = 6
  BY <1>7 DEF Ok, FoundAgain, Found, step6_ok
<1>8. CASE n = 7
  BY <1>8 DEF Ok, FoundAgain, Found
<1> QED
  BY <1>1, <1>3, <1>4, <1>5, <1>6, <1>7, <1>8

\* A body is a word.
LEMMA BodyWord == ASSUME FileInv, NEW f \in File PROVE BodyOf(f) \in Word
<1>1. files[f] \in Text
  BY DEF FileInv
<1>2. CASE files[f] = None
  BY <1>2 DEF BodyOf, Word
<1>3. CASE files[f] = Torn
  <2>1. files[f] # None
    BY <1>3 DEF None, Torn
  <2> QED
    BY <1>3, <2>1 DEF BodyOf, Word
<1>4. CASE files[f] # None /\ files[f] # Torn
  <2>1. files[f][1] \in Word
    BY <1>1, <1>4 DEF Text, None
  <2> QED
    BY <1>4, <2>1 DEF BodyOf
<1> QED
  BY <1>2, <1>3, <1>4

\* What the steps of a run write, and that it fits.
LEMMA WritesPlan ==
    ASSUME SealInv, mode = "live", todo = <<>>, NEW n \in Step, NEW chain \in BOOLEAN, seal_pc = StepPc[n]
    PROVE  Plan(Writes(n, chain), Writing(StepPc[n + 1])) /\ Fitting(Writes(n, chain))
<1>1. DirInv /\ FileInv /\ damaged = "none"
  BY DEF SealInv, Own, ModeInv
<1>2. files["prepared"] = <<ThisRun>> /\ ThisRun \in Word
  <2>1. seal_pc \in FromSignin
    <3>1. n \in 1..8
      BY DEF Step
    <3> QED
      BY <3>1, StepPcs DEF FromSignin, FromFetch, FromStep1, FromStep3, FromStep5
  <2>2. files["prepared"] = <<ThisRun>>
    BY <1>1, <2>1, HoldsNow DEF DirInv, LocalState
  <2> QED
    BY <2>2, RunName
<1>3. BodyOf("s1_evm") \in Word /\ BodyOf("s1_qtsa") \in Word /\ BodyOf("s2_qtsa") \in Word
  BY <1>1, BodyWord DEF File, WitnessFile
<1>4. /\ Made(S1Bodies) = <<ThisRun, BodyOf("s1_evm"), BodyOf("s1_qtsa")>>
      /\ Receipts1 = <<ThisRun, files["container1"][2], files["container1"][3]>>
      /\ Seal2 = <<ThisRun, BodyOf("s2_qtsa")>>
  BY <1>2, MadeAre
<1>5. n = 1 \/ n = 2 \/ n = 4 \/ n \in {3, 5, 6, 7}
  BY DEF Step
<1>6. CASE n = 1
  <2> DEFINE c == Made(S1Bodies)
             w == <<<<"container1", c>>, <<"attest1", c>>>>
  <2>1. c \in Text /\ Len(c) = 3
    BY <1>2, <1>3, <1>4, Texts
  <2>2. Derived("container1") = c /\ Derived("attest1") = c
    BY DEF Derived, Seal2File
  <2> HIDE DEF c
  <2>3. Writable("container1", c) /\ Writable("attest1", c)
    BY <2>1 DEF Writable, WitnessFile
  <2>4. Plan(w, {"container1", "attest1"}) /\ Fitting(w)
    <3>1. Plan(w, {"container1", "attest1"})
      BY <2>3, PlanTwo
    <3>2. Fitting(w)
      BY <2>2 DEF Fitting, FitWrite
    <3> QED
      BY <3>1, <3>2
  <2>5. Plan(<<>>, {"container1", "attest1"}) /\ Fitting(<<>>)
    BY PlanNone DEF Fitting
  <2>6. Writing(StepPc[n + 1]) = {"container1", "attest1"}
    <3>1. n + 1 = 2
      BY <1>6
    <3> QED
      BY <3>1, StepPcs, WritingAt
  <2>7. Writes(n, chain) \in {<<>>, w}
    BY <1>6 DEF Writes, step1_writes, c
  <2> QED
    BY <2>4, <2>5, <2>6, <2>7
<1>7. CASE n = 2
  <2>1. CASE ~step2_reads
    BY <1>7, <2>1, PlanNone DEF Writes, step2_writes, Fitting
  <2>2. CASE step2_reads
    <3>1. files["container1"] \in Text /\ Len(files["container1"]) = 3
      BY <1>1, <2>2 DEF FileInv, step2_reads, Readable, Writable, File, StepFile
    <3>2. files["container1"][2] \in Word /\ files["container1"][3] \in Word
      BY <3>1 DEF Text
    <3>3. Receipts1 \in Text
      BY <1>2, <1>4, <3>2, Texts
    <3>4. Derived("receipts1") = Receipts1
      BY DEF Derived, Seal2File
    <3> DEFINE c == Receipts1
               w == <<<<"receipts1", c>>>>
    <3>5. c \in Text /\ Derived("receipts1") = c
      BY <3>3, <3>4
    <3> HIDE DEF c
    <3>6. Plan(w, {"receipts1"}) /\ Fitting(w)
      <4>1. Writable("receipts1", c)
        BY <3>5, WritableText DEF WitnessFile
      <4>2. Plan(w, {"receipts1"})
        BY <4>1, PlanOne
      <4>3. Fitting(w)
        BY <3>5 DEF Fitting, FitWrite
      <4> QED
        BY <4>2, <4>3
    <3>7. Writing(StepPc[n + 1]) = {"receipts1"}
      <4>1. n + 1 = 3
        BY <1>7
      <4> QED
        BY <4>1, StepPcs, WritingAt
    <3>8. Writes(n, chain) = w
      BY <1>7, <2>2 DEF Writes, step2_writes, c
    <3> QED
      BY <3>6, <3>7, <3>8
  <2> QED
    BY <2>1, <2>2
<1>8. CASE n = 4
  <2> DEFINE c == Seal2
             w == <<<<"container2", c>>, <<"attest2", c>>, <<"receipts2", c>>>>
  <2>1. c \in Text
    BY <1>2, <1>3, <1>4, Texts
  <2>2. \A f \in Seal2File : Derived(f) = c
    BY DEF Derived, Seal2File
  <2> HIDE DEF c
  <2>3. Plan(w, Seal2File) /\ Fitting(w)
    <3>1. /\ Writable("container2", c) /\ Writable("attest2", c) /\ Writable("receipts2", c)
      BY <2>1, WritableText DEF WitnessFile
    <3>2. "container2" \in Seal2File /\ "attest2" \in Seal2File /\ "receipts2" \in Seal2File
      BY DEF Seal2File
    <3>3. Plan(w, Seal2File)
      BY <3>1, <3>2, PlanThree
    <3>4. Fitting(w)
      BY <2>2, <3>2 DEF Fitting, FitWrite
    <3> QED
      BY <3>3, <3>4
  <2>4. Plan(<<>>, Seal2File) /\ Fitting(<<>>)
    BY PlanNone DEF Fitting
  <2>5. Writing(StepPc[n + 1]) = Seal2File
    <3>1. n + 1 = 5
      BY <1>8
    <3> QED
      BY <3>1, StepPcs, WritingAt
  <2>6. Writes(n, chain) \in {<<>>, w}
    BY <1>8 DEF Writes, step4_writes, c
  <2> QED
    BY <2>3, <2>4, <2>5, <2>6
<1>9. CASE n \in {3, 5, 6, 7}
  BY <1>9, PlanNone DEF Writes, Fitting
<1> QED
  BY <1>5, <1>6, <1>7, <1>8, <1>9

\* The verdicts after a step.
LEMMA LogsNext ==
    ASSUME NEW n \in Step, NEW v \in {"pass", "fail"}, logs \in [Step -> Verdict],
           logs' = [logs EXCEPT ![n] = v]
    PROVE  /\ logs' \in [Step -> Verdict] /\ logs'[n] = v
           /\ \A m \in Step : m # n => logs'[m] = logs[m]
BY DEF Verdict

\* One position further: StepPc[n] and StepPc[n + 1].
Further(n, from, to) ==
    /\ n \in 1..8 /\ n + 1 \in 1..8
    /\ from \in FromStep1 /\ from \in FromFetch /\ from \in FromSignin
    /\ from \notin {"error", "report"}
    /\ to \in LivePc /\ to \notin BeforeSteps
    /\ to \notin {"seal", "error", "report", "passed", "failed", "replayed", "replay refused"}
    /\ n > 1 => to \in ReplayPc
    /\ to \in FromStep3 => n > 1
    /\ n > 2 => from \in FromStep3
    /\ to \in FromStep5 => n > 3
    /\ n > 4 => from \in FromStep5
    /\ to # "step 2" <=> n # 1

\* Each of the seven steps leads further in this sense.
LEMMA StepOn ==
    ASSUME NEW n \in Step
    PROVE  Further(n, StepPc[n], StepPc[n + 1]) /\ Successor(StepPc[n], StepPc[n + 1])
<1>1. n = 1 \/ n = 2 \/ n = 3 \/ n = 4 \/ n = 5 \/ n = 6 \/ n = 7
  BY DEF Step
<1>2. CASE n = 1
  <2>1. StepPc[n] = "step 1" /\ StepPc[n + 1] = "step 2"
    <3>1. n + 1 = 2
      BY <1>2
    <3> QED
      BY <1>2, <3>1, StepPcs
  <2>2. Further(1, "step 1", "step 2")
    BY DEF Further, FromStep1, FromFetch, FromSignin, FromLocal, FromStep3, FromStep5, FromReport,
       LivePc, ReplayPc, BeforeSteps, BeforePost
  <2> QED
    BY <1>2, <2>1, <2>2, Successors
<1>3. CASE n = 2
  <2>1. StepPc[n] = "step 2" /\ StepPc[n + 1] = "step 3"
    <3>1. n + 1 = 3
      BY <1>3
    <3> QED
      BY <1>3, <3>1, StepPcs
  <2>2. Further(2, "step 2", "step 3")
    BY DEF Further, FromStep1, FromFetch, FromSignin, FromLocal, FromStep3, FromStep5, FromReport,
       LivePc, ReplayPc, BeforeSteps, BeforePost
  <2> QED
    BY <1>3, <2>1, <2>2, Successors
<1>4. CASE n = 3
  <2>1. StepPc[n] = "step 3" /\ StepPc[n + 1] = "step 4"
    <3>1. n + 1 = 4
      BY <1>4
    <3> QED
      BY <1>4, <3>1, StepPcs
  <2>2. Further(3, "step 3", "step 4")
    BY DEF Further, FromStep1, FromFetch, FromSignin, FromLocal, FromStep3, FromStep5, FromReport,
       LivePc, ReplayPc, BeforeSteps, BeforePost
  <2> QED
    BY <1>4, <2>1, <2>2, Successors
<1>5. CASE n = 4
  <2>1. StepPc[n] = "step 4" /\ StepPc[n + 1] = "step 5"
    <3>1. n + 1 = 5
      BY <1>5
    <3> QED
      BY <1>5, <3>1, StepPcs
  <2>2. Further(4, "step 4", "step 5")
    BY DEF Further, FromStep1, FromFetch, FromSignin, FromLocal, FromStep3, FromStep5, FromReport,
       LivePc, ReplayPc, BeforeSteps, BeforePost
  <2> QED
    BY <1>5, <2>1, <2>2, Successors
<1>6. CASE n = 5
  <2>1. StepPc[n] = "step 5" /\ StepPc[n + 1] = "step 6"
    <3>1. n + 1 = 6
      BY <1>6
    <3> QED
      BY <1>6, <3>1, StepPcs
  <2>2. Further(5, "step 5", "step 6")
    BY DEF Further, FromStep1, FromFetch, FromSignin, FromLocal, FromStep3, FromStep5, FromReport,
       LivePc, ReplayPc, BeforeSteps, BeforePost
  <2> QED
    BY <1>6, <2>1, <2>2, Successors
<1>7. CASE n = 6
  <2>1. StepPc[n] = "step 6" /\ StepPc[n + 1] = "step 7"
    <3>1. n + 1 = 7
      BY <1>7
    <3> QED
      BY <1>7, <3>1, StepPcs
  <2>2. Further(6, "step 6", "step 7")
    BY DEF Further, FromStep1, FromFetch, FromSignin, FromLocal, FromStep3, FromStep5, FromReport,
       LivePc, ReplayPc, BeforeSteps, BeforePost
  <2> QED
    BY <1>7, <2>1, <2>2, Successors
<1>8. CASE n = 7
  <2>1. StepPc[n] = "step 7" /\ StepPc[n + 1] = "closing"
    <3>1. n + 1 = 8
      BY <1>8
    <3> QED
      BY <1>8, <3>1, StepPcs
  <2>2. Further(7, "step 7", "closing")
    BY DEF Further, FromStep1, FromFetch, FromSignin, FromLocal, FromStep3, FromStep5, FromReport,
       LivePc, ReplayPc, BeforeSteps, BeforePost
  <2> QED
    BY <1>8, <2>1, <2>2, Successors
<1> QED
  BY <1>1, <1>2, <1>3, <1>4, <1>5, <1>6, <1>7, <1>8

\* What step 2 leaves, in the directory as it is.
LEMMA LeftNow ==
    ASSUME UNCHANGED files, NEW chain \in BOOLEAN, reading' = Step2Out(chain), clean' => chain
    PROVE  Step2Left'
BY DEF Step2Left, Step2Out, step2_reads, Readable

\* What is made of a prepared seal is something.
LEMMA SomeMade ==
    ASSUME files["prepared"] = <<ThisRun>> PROVE Receipts1 \notin {None, Torn} /\ Seal2 \notin {None, Torn}
<1>1. Len(Receipts1) = 3 /\ Len(Seal2) = 2
  BY MadeAre
<1> QED
  <2>1. Len(None) = 0 /\ Len(Torn) = 1
    BY DEF None, Torn
  <2> QED
    BY <1>1, <2>1

\* A step of a run.
LEMMA RunStepLive ==
    ASSUME SealInv, NEW n \in Step, NEW chain \in BOOLEAN, RunStep(n, chain), mode = "live"
    PROVE  SealInv'
<1> DEFINE w == Writes(n, chain)
           v == IF Ok(n, chain) THEN "pass" ELSE "fail"
           to == StepPc[n + 1]
<1>1. /\ seal_pc = StepPc[n] /\ seal_pc' = to /\ todo = <<>> /\ todo' = w /\ Then(to, w)
      /\ logs' = [logs EXCEPT ![n] = v]
      /\ reading' = (IF n = 2 THEN Step2Out(chain) ELSE reading)
      /\ (clean' <=> clean /\ chain) /\ clean' \in BOOLEAN
      /\ UNCHANGED <<files, mode, run_no, target, got, damaged, harm, out, held, live_logs, moved>>
  BY DEF RunStep, artifact, Then, ReplayVars
<1>2. DirInv /\ LogInv /\ ModeInv /\ damaged = "none"
  BY DEF SealInv, Own, ModeInv
<1>3. Plan(w, Writing(to)) /\ Fitting(w)
  BY <1>1, WritesPlan
<1>4. n = 5 => Step2Left
  <2>1. n = 5 => StepPc[n] \in FromStep3
    BY StepPcs DEF FromStep3, FromStep5
  <2> QED
    BY <1>1, <1>2, <2>1 DEF LogInv
<1>5. (Ok(n, chain) => Found(n)) /\ (clean /\ chain /\ Found(n) => Ok(n, chain))
  BY <1>4, OkLive
<1>6. v \in {"pass", "fail"} /\ (v = "pass" <=> Ok(n, chain))
  OBVIOUS
<1>7. n = 2 /\ step2_reads => w = <<<<"receipts1", Receipts1>>>>
  BY DEF Writes, step2_writes
<1>8. n = 4 /\ step4_builds => w = <<<<"container2", Seal2>>, <<"attest2", Seal2>>, <<"receipts2", Seal2>>>>
  BY DEF Writes, step4_writes
<1> HIDE DEF w, v, to
<1>9. /\ FileInv' /\ TodoInv' /\ SpoiltInv' /\ ReplayInv'
      /\ \A f \in File : seal_pc' \in NotYet(f) => files'[f] = None
      /\ Whole("identity")'
      /\ \A f \in LocalState : files[f] = <<ThisRun>> /\ Holds(f, <<ThisRun>>)'
      /\ Taken(files["run"])'
      /\ Whole("status")'
      /\ StepPc[n] \in FromStep3 /\ step2_reads' => Whole("receipts1")'
      /\ StepPc[n] \in FromStep5 /\ step4_builds' => \A f \in Seal2File : Whole(f)'
  <2>1. /\ StepPc[n] \in FromSignin /\ to \in LivePc /\ Successor(StepPc[n], to)
        /\ StepPc[n] \in FromFetch /\ StepPc[n] \in FromStep1
    BY StepOn DEF Further, to
  <2> QED
    BY <1>1, <1>3, <2>1, MoveOn
<1>10. /\ \A m \in Step : Found(m)' <=> Found(m)
       /\ (step2_reads' <=> step2_reads) /\ (step4_builds' <=> step4_builds)
  BY <1>1, SameDir
<1>11. DirInv'
  <2>1. n = 2 /\ step2_reads' => Whole("receipts1")'
    <3>1. Receipts1 \notin {None, Torn}
      BY <1>2, <1>9, SomeMade DEF LocalState
    <3>2. n = 2 /\ step2_reads => 1 \in DOMAIN w /\ w[1][1] = "receipts1" /\ w[1][2] = Receipts1
      BY <1>7
    <3> QED
      BY <1>1, <1>10, <3>1, <3>2 DEF Whole
  <2>2. n = 4 /\ step4_builds' => \A f \in Seal2File : Whole(f)'
    <3>1. Seal2 \notin {None, Torn}
      BY <1>2, <1>9, SomeMade DEF LocalState
    <3>2. n = 4 /\ step4_builds =>
             /\ 1 \in DOMAIN w /\ w[1][1] = "container2" /\ w[1][2] = Seal2
             /\ 2 \in DOMAIN w /\ w[2][1] = "attest2" /\ w[2][2] = Seal2
             /\ 3 \in DOMAIN w /\ w[3][1] = "receipts2" /\ w[3][2] = Seal2
      BY <1>8
    <3> QED
      BY <1>1, <1>10, <3>1, <3>2 DEF Whole, Seal2File
  <2>3. /\ to \in FromStep3 => n = 2 \/ StepPc[n] \in FromStep3
        /\ to \in FromStep5 => n = 4 \/ StepPc[n] \in FromStep5
    <3>1. /\ to \in FromStep3 => n > 1
          /\ to \in FromStep5 => n > 3
          /\ n > 2 => StepPc[n] \in FromStep3
          /\ n > 4 => StepPc[n] \in FromStep5
      BY StepOn DEF Further, to
    <3> QED
      BY <3>1 DEF Step
  <2> QED
    BY <1>1, <1>9, <2>1, <2>2, <2>3 DEF DirInv
<1>12. RunJsonInv'
  BY <1>1, StepOn DEF Further, RunJsonInv, to
<1>13. logs' \in [Step -> Verdict] /\ logs'[n] = v /\ \A m \in Step : m # n => logs'[m] = logs[m]
  BY <1>1, <1>2, <1>6, LogsNext DEF ModeInv
<1>14. LogInv'
  <2>1. \A k \in 1..8 : to = StepPc[k] => \A m \in Step : logs'[m] = "none" <=> m >= k
    <3> SUFFICES ASSUME NEW m \in Step PROVE logs'[m] = "none" <=> m >= n + 1
      BY StepOn, StepPcs DEF Further, to
    <3>1. logs[m] = "none" <=> m >= n
      BY <1>1, <1>2, StepOn DEF Further, LogInv
    <3> QED
      BY <1>6, <1>13, <3>1 DEF Step
  <2>2. ASSUME NEW m \in Step
        PROVE  /\ logs'[m] = "pass" => Found(m)'
               /\ clean' /\ ~moved' /\ logs'[m] = "fail" => ~Found(m)'
    <3>1. CASE m = n
      BY <1>1, <1>5, <1>6, <1>10, <1>13, <3>1
    <3>2. CASE m # n
      BY <1>1, <1>2, <1>10, <1>13, <3>2, StepOn DEF Further, LogInv
    <3> QED
      BY <3>1, <3>2
  <2>3. to \in FromStep3 => Step2Left'
    <3>1. to \in FromStep3 => n = 2 \/ StepPc[n] \in FromStep3
      <4>1. (to \in FromStep3 => n > 1) /\ (n > 2 => StepPc[n] \in FromStep3)
        BY StepOn DEF Further, to
      <4> QED
        BY <4>1 DEF Step
    <3>2. CASE n = 2
      BY <1>1, <3>2, LeftNow
    <3>3. CASE n # 2
      <4>1. Same({"container1", "attest1"})
        BY <1>1 DEF Same
      <4> QED
        BY <1>1, <1>2, <3>1, <3>3, <4>1, SameLeft DEF LogInv
    <3> QED
      BY <3>2, <3>3
  <2>4. to \notin BeforeSteps /\ to \notin FromReport /\ to # "passed"
    BY StepOn DEF Further, to, FromReport
  <2> QED
    BY <1>1, <2>1, <2>2, <2>3, <2>4 DEF LogInv
<1>15. ModeInv'
  BY <1>1, <1>2, <1>13, StepOn DEF Further, ModeInv, to
<1>16. SubmittedStaysOnDisk' /\ StartInv'
  BY <1>1, StepOn DEF Further, SealInv, SubmittedStaysOnDisk, StartInv, BeforeSteps, to
<1>17. KeptInv' /\ FitInv'
  BY <1>1, <1>3, KeptStays, FitMove DEF SealInv
<1> QED
  BY <1>9, <1>11, <1>12, <1>14, <1>15, <1>16, <1>17 DEF SealInv

\* A step of a replay writes nothing.
LEMMA RunStepReplay ==
    ASSUME SealInv, NEW n \in Step, NEW chain \in BOOLEAN, RunStep(n, chain), mode = "replay"
    PROVE  SealInv'
<1> DEFINE v == IF Ok(n, chain) THEN "pass" ELSE "fail"
           to == StepPc[n + 1]
<1>0. resolved(out) # "run_dir"
  <2>1. n \in 1..8
    BY DEF Step
  <2>2. seal_pc # "replay refused"
    BY <2>1, StepPcs DEF RunStep
  <2> QED
    BY <2>2 DEF SealInv, ReplayInv, ensure_outside
<1>1. /\ seal_pc = StepPc[n] /\ seal_pc' = to /\ todo = <<>> /\ todo' = <<>>
      /\ logs' = [logs EXCEPT ![n] = v]
      /\ reading' = (IF n = 2 THEN Step2Out(chain) ELSE reading)
      /\ (clean' <=> clean /\ chain) /\ clean' \in BOOLEAN
      /\ UNCHANGED <<files, mode, run_no, target, got, damaged, harm, out, held, live_logs, moved>>
  BY <1>0 DEF RunStep, artifact, Then, ReplayVars
<1>2. ModeInv /\ n # 1 /\ n \in 2..7
  <2>1. n # 1
    BY <1>1, StepPcs DEF SealInv, ModeInv, ReplayPc
  <2> QED
    BY <2>1 DEF SealInv, Step
<1>3. /\ verify_complete /\ RunStateLoads(TRUE) /\ ensure_outside(out)
      /\ \A m \in 2..7 : logs[m] = "none" <=> m >= n
      /\ \A m \in 2..7 : /\ logs[m] = "pass" => FoundAgain(m)
                         /\ clean /\ logs[m] = "fail" => ~FoundAgain(m)
      /\ seal_pc # "step 2" => Step2Left
  BY <1>1, StepOn, StepPcs DEF SealInv, ReplayInv, Further
<1>4. n = 5 => Step2Left
  BY <1>1, <1>3, StepPcs
<1>5. (Ok(n, chain) => FoundAgain(n)) /\ (clean /\ chain /\ FoundAgain(n) => Ok(n, chain))
  BY <1>2, <1>4, OkReplay
<1>6. v \in {"pass", "fail"} /\ (v = "pass" <=> Ok(n, chain))
  OBVIOUS
<1> HIDE DEF v, to
<1>7. logs' \in [Step -> Verdict] /\ logs'[n] = v /\ \A m \in Step : m # n => logs'[m] = logs[m]
  BY <1>1, <1>2, <1>6, LogsNext DEF ModeInv
<1>8. \A m \in Step : FoundAgain(m)' <=> FoundAgain(m)
  BY <1>1, SameDir
<1>9. ReplayInv'
  <2>1. verify_complete' /\ RunStateLoads(TRUE)' /\ ensure_outside(out)'
    BY <1>1, <1>3, SameFits DEF ensure_outside, resolved
  <2>2. \A k \in 1..8 : to = StepPc[k] => \A m \in 2..7 : logs'[m] = "none" <=> m >= k
    <3> SUFFICES ASSUME NEW m \in 2..7 PROVE logs'[m] = "none" <=> m >= n + 1
      BY StepOn, StepPcs DEF to, Further
    <3>1. logs[m] = "none" <=> m >= n
      BY <1>3
    <3>2. m \in Step
      BY DEF Step
    <3>3. n \in Int /\ m \in Int
      BY <1>2
    <3> QED
      BY <1>6, <1>7, <3>1, <3>2, <3>3
  <2>3. \A m \in 2..7 : /\ logs'[m] = "pass" => FoundAgain(m)'
                        /\ clean' /\ logs'[m] = "fail" => ~FoundAgain(m)'
    <3> SUFFICES ASSUME NEW m \in 2..7
                 PROVE  /\ logs'[m] = "pass" => FoundAgain(m)'
                        /\ clean' /\ logs'[m] = "fail" => ~FoundAgain(m)'
      OBVIOUS
    <3>1. m \in Step
      BY DEF Step
    <3>2. CASE m = n
      BY <1>1, <1>5, <1>6, <1>7, <1>8, <3>1, <3>2
    <3>3. CASE m # n
      BY <1>1, <1>3, <1>7, <1>8, <3>1, <3>3
    <3> QED
      BY <3>2, <3>3
  <2>4. Step2Left'
    <3>1. CASE n = 2
      BY <1>1, <3>1, LeftNow
    <3>2. CASE n # 2
      <4>1. seal_pc # "step 2"
        <5>1. n \in 1..8 /\ 2 \in 1..8
          BY <1>2
        <5> QED
          BY <1>1, <3>2, <5>1, StepPcs
      <4>2. Same({"container1", "attest1"})
        BY <1>1 DEF Same
      <4> QED
        BY <1>1, <1>3, <3>2, <4>1, <4>2, SameLeft
    <3> QED
      BY <3>1, <3>2
  <2>5. to # "replayed" /\ to # "replay refused"
    BY StepOn DEF to, Further
  <2> QED
    BY <1>1, <2>1, <2>2, <2>3, <2>4, <2>5 DEF ReplayInv
<1>10. ModeInv'
  <2>2. to \in ReplayPc
    <3>1. n > 1
      BY <1>2
    <3>2. n > 1 => to \in ReplayPc
      BY StepOn DEF to, Further
    <3> QED
      BY <3>1, <3>2
  <2> QED
    BY <1>1, <1>2, <1>7, <2>2 DEF ModeInv, ReplayPc
<1>11. FileInv' /\ TodoInv' /\ SpoiltInv' /\ SubmittedStaysOnDisk' /\ StartInv' /\ ~Own'
  BY <1>1, SameFits DEF SealInv, FileInv, TodoInv, SpoiltInv, SubmittedStaysOnDisk, StartInv, Own
<1>12. KeptInv' /\ FitInv'
  BY <1>1, KeptStays, FitStays DEF SealInv
<1> QED
  BY <1>9, <1>10, <1>11, <1>12 DEF SealInv

----------------------------------------------------------------------------
(***************************************************************************)
(* The end of a run.                                                       *)
(***************************************************************************)

\* The verdicts become the run's, or every step fails because the server moved;
\* run.json is written again as it is.
LEMMA ClosingInv == ASSUME SealInv, NEW moves \in BOOLEAN, Closing(moves) PROVE SealInv'
<1> DEFINE w == RunJson("epoch", Answer)
<1>1. /\ mode = "live" /\ mode' = "live" /\ seal_pc = "closing" /\ seal_pc' = "report"
      /\ todo = <<>> /\ todo' = w /\ Then("report", w)
      /\ logs' = (IF moves THEN [n \in Step |-> "fail"] ELSE logs) /\ live_logs' = logs' /\ moved' = moves
      /\ UNCHANGED <<files, run_no, target, got, reading, damaged, harm, out, held, clean>>
  BY DEF Closing, Then, ReplayVars
<1>2. DirInv /\ LogInv /\ ModeInv /\ damaged = "none"
  BY <1>1 DEF SealInv, Own, ModeInv
<1>3. /\ "closing" \in FromStep5 /\ "closing" \in FromStep3 /\ "closing" \in FromStep1
      /\ "closing" \in FromFetch /\ "closing" \in FromSignin /\ "report" \in LivePc
      /\ "report" \notin BeforePost /\ "report" \notin BeforeSteps /\ "report" \in FromReport
  BY DEF FromStep5, FromStep3, FromStep1, FromFetch, FromSignin, FromLocal, LivePc, BeforePost,
     BeforeSteps, FromReport
<1>4. Taken(files["run"]) /\ Answer \in Word /\ files["run"] = <<ThisRun, "epoch", Answer>>
  <2>1. Taken(files["run"])
    BY <1>1, <1>2, <1>3 DEF DirInv
  <2> QED
    BY <2>1 DEF Taken, Answer, Word
<1>5. Plan(w, Writing("report")) /\ w = <<<<"run", files["run"]>>>> /\ Fitting(w)
  <2>1. "epoch" \in Word
    BY DEF Word
  <2>2. Plan(w, {"run"}) /\ w = <<<<"run", <<ThisRun, "epoch", Answer>>>>>> /\ Named(w)
    BY <1>1, <1>4, <2>1, RunJsonPlan
  <2>3. {"run"} \cap StepFile = {}
    BY DEF StepFile, Seal2File
  <2>4. Fitting(w)
    BY <2>2, <2>3, FittingOther
  <2> QED
    BY <1>4, <2>2, <2>4, WritingAt
<1> HIDE DEF w
<1>6. /\ FileInv' /\ TodoInv' /\ SpoiltInv' /\ ReplayInv'
      /\ \A f \in File : seal_pc' \in NotYet(f) => files'[f] = None
      /\ Whole("identity")'
      /\ \A f \in LocalState : Holds(f, <<ThisRun>>)'
      /\ Taken(files["run"])'
      /\ Whole("status")'
      /\ step2_reads' => Whole("receipts1")'
      /\ step4_builds' => \A f \in Seal2File : Whole(f)'
  BY <1>1, <1>3, <1>5, Successors, MoveOn
<1>7. DirInv'
  BY <1>6 DEF DirInv
<1>8. RunJsonInv'
  <2>1. w[1][2] = files["run"]
    BY <1>5
  <2> QED
    BY <1>1, <2>1 DEF RunJsonInv
<1>9. \A n \in Step : Found(n)' <=> Found(n)
  BY <1>1, SameDir
<1>10. \A n \in Step : logs[n] # "none"
  <2>1. 8 \in 1..8
    OBVIOUS
  <2>2. \A n \in Step : logs[n] = "none" <=> n >= 8
    BY <1>1, <1>2, <2>1, StepPcs DEF LogInv
  <2> QED
    BY <2>2 DEF Step
<1>11. /\ logs' \in [Step -> Verdict]
       /\ \A n \in Step : /\ logs'[n] # "none"
                          /\ moves => logs'[n] = "fail"
                          /\ ~moves => logs'[n] = logs[n]
  BY <1>1, <1>2, <1>10 DEF ModeInv, Verdict
<1>12. ~moved
  BY <1>1 DEF SealInv, StartInv
<1>13. \A n \in Step : /\ logs'[n] = "pass" => Found(n)'
                       /\ clean' /\ ~moved' /\ logs'[n] = "fail" => ~Found(n)'
  BY <1>1, <1>2, <1>3, <1>9, <1>11, <1>12 DEF LogInv
<1>14. LogInv'
  <2>1. \A k \in 1..8 : StepPc[k] # "report"
    BY StepPcs
  <2>2. Step2Left'
    <3>1. Same({"container1", "attest1"})
      BY <1>1 DEF Same
    <3> QED
      BY <1>1, <1>2, <1>3, <3>1, SameLeft DEF LogInv
  <2>3. moved' => ~all_passed(1)'
    BY <1>1, <1>11 DEF all_passed, Step
  <2> QED
    BY <1>1, <1>3, <1>11, <1>13, <2>1, <2>2, <2>3 DEF LogInv
<1>15. ModeInv' /\ SubmittedStaysOnDisk' /\ StartInv'
  BY <1>1, <1>2, <1>3, <1>11 DEF SealInv, ModeInv, SubmittedStaysOnDisk, StartInv
<1>16. KeptInv'
  <2>1. files["run"] # None
    BY <1>4 DEF None
  <2> QED
    BY <1>1, <1>11, <1>13, <2>1 DEF KeptInv
<1>17. FitInv'
  BY <1>1, <1>5, FitMove DEF SealInv
<1> QED
  BY <1>6, <1>7, <1>8, <1>14, <1>15, <1>16, <1>17 DEF SealInv

\* The report: it passes with every step passed.
LEMMA ReportInv == ASSUME SealInv, Report PROVE SealInv'
<1>1. /\ mode = "live" /\ mode' = "idle" /\ seal_pc = "report" /\ seal_pc' \in {"passed", "failed"}
      /\ seal_pc' = "passed" => all_passed(1)
      /\ todo = <<>> /\ todo' = <<>>
      /\ UNCHANGED <<files, run_no, target, got, logs, reading, damaged, harm, out, held, live_logs, moved, clean, faults>>
  BY DEF Report, Then, ReplayVars, History
<1>2. DirInv /\ LogInv /\ ModeInv /\ damaged = "none"
  BY <1>1 DEF SealInv, Own, ModeInv
<1>3. /\ \A pc \in {"report", "passed", "failed"} :
            /\ pc \in FromStep5 /\ pc \in FromStep3 /\ pc \in FromStep1 /\ pc \in FromFetch
            /\ pc \in FromSignin /\ pc \in FromLocal /\ pc \in FromReport
            /\ pc \notin BeforePost /\ pc \notin BeforeSteps
            /\ \A f \in File : pc \notin NotYet(f)
            /\ \A k \in 1..8 : StepPc[k] # pc
      /\ seal_pc' \in IdlePc
  BY <1>1, StepPcs DEF FromStep5, FromStep3, FromStep1, FromFetch, FromSignin, FromLocal, BeforePost,
     BeforeSteps, FromReport, NotYet, IdlePc
<1>4. /\ \A n \in Step : Found(n)' <=> Found(n)
      /\ (step2_reads' <=> step2_reads) /\ (step4_builds' <=> step4_builds)
  BY <1>1, SameDir
<1>5. /\ \A f, c : Holds(f, c)' <=> Holds(f, c)
      /\ \A f : Whole(f)' <=> Whole(f)
      /\ ThisRun' = ThisRun
  BY <1>1 DEF Holds, Whole, ThisRun
<1>6. DirInv'
  <2>1. \A f \in LocalState : Holds(f, <<ThisRun>>)'
    BY <1>1, <1>2, <1>3, <1>5 DEF DirInv, Holds
  <2>2. Whole("identity")' /\ Whole("status")' /\ Taken(files["run"])'
    BY <1>1, <1>2, <1>3, <1>5 DEF DirInv, Taken
  <2>3. /\ step2_reads' => Whole("receipts1")'
        /\ step4_builds' => \A f \in Seal2File : Whole(f)'
    BY <1>1, <1>2, <1>3, <1>4, <1>5 DEF DirInv
  <2> QED
    BY <1>1, <1>3, <2>1, <2>2, <2>3 DEF DirInv
<1>7. RunJsonInv' /\ TodoInv' /\ FileInv' /\ SpoiltInv' /\ ReplayInv' /\ StartInv' /\ SubmittedStaysOnDisk'
  BY <1>1, SameFits DEF SealInv, RunJsonInv, TodoInv, FileInv, SpoiltInv, ReplayInv, StartInv, SubmittedStaysOnDisk
<1>8. LogInv'
  <2>1. Step2Left'
    <3>1. Same({"container1", "attest1"})
      BY <1>1 DEF Same
    <3> QED
      BY <1>1, <1>2, <1>3, <3>1, SameLeft DEF LogInv
  <2> QED
    BY <1>1, <1>2, <1>3, <1>4, <2>1 DEF LogInv, all_passed
<1>9. ModeInv'
  BY <1>1, <1>2, <1>3 DEF ModeInv
<1>10. KeptInv' /\ FitInv'
  BY <1>1, KeptStays, FitStays DEF SealInv
<1> QED
  BY <1>6, <1>7, <1>8, <1>9, <1>10 DEF SealInv

\* Of a run that stopped short or died nothing is claimed.
LEMMA NothingSaid ==
    ASSUME seal_pc' \in {"error", "dead"}
    PROVE  DirInv' /\ RunJsonInv' /\ LogInv'
<1>1. \A f \in File : seal_pc' \notin NotYet(f)
  BY DEF NotYet, BeforeSteps, BeforePost
<1>2. \A k \in 1..8 : StepPc[k] # seal_pc'
  BY StepPcs
<1>3. /\ seal_pc' \notin FromLocal /\ seal_pc' \notin FromSignin /\ seal_pc' \notin FromFetch
      /\ seal_pc' \notin FromStep1 /\ seal_pc' \notin FromStep3 /\ seal_pc' \notin FromStep5
      /\ seal_pc' \notin FromReport /\ seal_pc' \notin BeforeSteps
  BY DEF FromReport, FromStep5, FromStep3, FromStep1, FromFetch, FromSignin, FromLocal, BeforeSteps,
     BeforePost
<1> QED
  BY <1>1, <1>2, <1>3 DEF DirInv, RunJsonInv, LogInv

\* A stopped run leaves everything as it is.
LEMMA StoppedInv == ASSUME SealInv, Stopped PROVE SealInv'
<1>1. /\ mode = "live" /\ mode' = "idle" /\ seal_pc = "error" /\ seal_pc' = "error"
      /\ todo = <<>> /\ todo' = <<>>
      /\ UNCHANGED <<files, run_no, target, got, logs, reading, damaged, harm, out, held, live_logs, moved, clean, faults>>
  BY DEF Stopped, ReplayVars, History
<1>2. ModeInv' /\ FileInv' /\ TodoInv' /\ SpoiltInv' /\ ReplayInv' /\ StartInv' /\ SubmittedStaysOnDisk'
  BY <1>1, SameFits DEF SealInv, ModeInv, IdlePc, TodoInv, FileInv, SpoiltInv, ReplayInv, StartInv,
     SubmittedStaysOnDisk
<1>3. DirInv' /\ RunJsonInv' /\ LogInv'
  BY <1>1, NothingSaid
<1>4. KeptInv' /\ FitInv'
  BY <1>1, KeptStays, FitStays DEF SealInv
<1> QED
  BY <1>2, <1>3, <1>4 DEF SealInv

\* A run that dies leaves at most one file cut short: not one of a seal whose
\* leaves are held, and not one that a verdict is about.
LEMMA CrashInv == ASSUME SealInv, Crash PROVE SealInv'
<1>1. /\ mode = "live" /\ mode' = "idle" /\ seal_pc' = "dead" /\ todo' = <<>>
      /\ UNCHANGED <<run_no, target, got, logs, reading, damaged, harm, out, held, live_logs, moved, clean, faults>>
  BY DEF Crash, ReplayVars, History
<1>2. ModeInv' /\ TodoInv' /\ ReplayInv' /\ StartInv'
  BY <1>1 DEF SealInv, ModeInv, IdlePc, TodoInv, ReplayInv, StartInv
<1>3. DirInv' /\ RunJsonInv' /\ LogInv'
  BY <1>1, NothingSaid
<1>4. damaged = "none" /\ damaged' = "none" /\ SpoiltInv'
  BY <1>1 DEF SealInv, ModeInv, SpoiltInv
<1>5. CASE UNCHANGED files
  <2>1. FileInv' /\ SubmittedStaysOnDisk'
    BY <1>1, <1>5 DEF SealInv, FileInv, SubmittedStaysOnDisk
  <2>2. KeptInv' /\ FitInv'
    BY <1>1, <1>5, KeptStays, FitStays DEF SealInv
  <2> QED
    BY <1>2, <1>3, <1>4, <2>1, <2>2 DEF SealInv
<1>6. CASE todo # <<>> /\ files' = [files EXCEPT ![Head(todo)[1]] = Torn]
  <2>1. PICK f \in Writing(seal_pc) : files' = [files EXCEPT ![f] = Torn]
    <3>1. Plan(todo, Writing(seal_pc))
      BY <1>1 DEF SealInv, TodoInv
    <3>2. Head(todo) = todo[1] /\ todo[1][1] \in Writing(seal_pc)
      BY <1>6, <3>1, PlanTail
    <3> QED
      BY <1>6, <3>2
  <2>2. f \in File
    BY DEF Writing
  <2>3. files'[f] = Torn /\ (\A g \in File \ {f} : files'[g] = files[g]) /\ files' \in [File -> Text]
    <3>1. Torn \in Text
      BY Texts DEF Word, Torn
    <3> QED
      BY <2>1, <2>2, <3>1 DEF SealInv, FileInv
  <2>4. FileInv'
    BY <2>2, <2>3 DEF SealInv, FileInv
  <2>5. SubmittedStaysOnDisk'
    <3>1. CASE f \in LocalState
      <4>1. seal_pc = "signin"
        BY <3>1 DEF Writing, LocalState, WitnessFile, EpochFile, Seal2File
      <4>2. held' = {}
        BY <1>1, <4>1 DEF SealInv, StartInv, BeforePost
      <4> QED
        BY <4>2 DEF SubmittedStaysOnDisk
    <3>2. CASE f \notin LocalState
      <4>1. LocalState \subseteq File
        BY DEF File
      <4> QED
        BY <1>1, <2>3, <3>2, <4>1 DEF SealInv, SubmittedStaysOnDisk
    <3> QED
      BY <3>1, <3>2
  <2>6. KeptInv'
    <3>0. NoLogs' = NoLogs
      BY DEF NoLogs, Step
    <3> SUFFICES ASSUME live_logs # NoLogs \/ moved PROVE KeptInv'
      BY <1>1, <3>0 DEF KeptInv
    <3>1. seal_pc = "error" \/ seal_pc = "report"
      BY <1>1 DEF SealInv, StartInv
    <3>2. f = "run"
      BY <3>1, WritingAt
    <3>3. files'["run"] # None /\ ~Readable("run")'
      <4>1. files'["run"] = Torn /\ Torn # None
        BY <2>3, <3>2 DEF Torn, None
      <4> QED
        BY <4>1 DEF Readable
    <3> QED
      BY <1>1, <1>4, <3>3 DEF SealInv, KeptInv
  <2>7. FitInv'
    BY <1>1, <1>4, <2>3, FitChange DEF FitInv
  <2> QED
    BY <1>2, <1>3, <1>4, <2>4, <2>5, <2>6, <2>7 DEF SealInv
<1> QED
  BY <1>5, <1>6 DEF Crash

----------------------------------------------------------------------------
(***************************************************************************)
(* Damage and replay.                                                      *)
(***************************************************************************)

\* Where another word may stand, it is a word, and no file is cut short by it.
LEMMA ForgedWord ==
    ASSUME FileInv, NEW f \in File, Readable(f), NEW i \in DOMAIN files[f], NEW w \in Forged(f, i)
    PROVE  w \in Word
<1>1. Body \cup {"replaced"} \subseteq Word
  BY DEF Word
<1>2. CASE f \in LocalState
  BY <1>2 DEF Forged, Word
<1>3. CASE f = "identity"
  BY <1>3 DEF Forged, Word, LocalState
<1>4. CASE f \in WitnessFile
  BY <1>1, <1>4 DEF Forged, LocalState, WitnessFile, EpochFile, StepFile, Seal2File
<1>5. CASE f \in EpochFile
  BY <1>5 DEF Forged, Word, LocalState, WitnessFile, EpochFile
<1>6. CASE f = "status"
  BY <1>6 DEF Forged, Word, LocalState, WitnessFile, EpochFile
<1>7. CASE f \in StepFile /\ i = 1
  BY <1>7 DEF Forged, Word, LocalState, WitnessFile, EpochFile, StepFile, Seal2File
<1>8. CASE f \in StepFile /\ i # 1
  BY <1>1, <1>8 DEF Forged, LocalState, WitnessFile, EpochFile, StepFile, Seal2File
<1>9. CASE f = "run"
  <2>1. files[f] \in Text /\ Len(files[f]) = 3
    BY <1>9 DEF FileInv, Writable, Readable
  <2>2. i \in 1..3
    BY <2>1 DEF Text
  <2>3. CASE i = 1
    BY <1>9, <2>3 DEF Forged, Word, LocalState, WitnessFile, EpochFile, StepFile, Seal2File
  <2>4. CASE i = 2
    BY <1>9, <2>4 DEF Forged, Word, LocalState, WitnessFile, EpochFile, StepFile, Seal2File
  <2>5. CASE i = 3
    BY <1>9, <2>5 DEF Forged, Word, LocalState, WitnessFile, EpochFile, StepFile, Seal2File
  <2> QED
    BY <2>2, <2>3, <2>4, <2>5
<1> QED
  BY <1>2, <1>3, <1>4, <1>5, <1>6, <1>7, <1>8, <1>9 DEF File

\* What damage leaves of a file.
LEMMA Spoilt ==
    ASSUME SealInv, NEW f \in File, NEW kind, Spoil(f, kind)
    PROVE  /\ files' \in [File -> Text] /\ \A g \in File \ {f} : files'[g] = files[g]
           /\ files'[f] \in {None, Torn} \/ Writable(f, files'[f])
           /\ kind = "altered" => /\ files'[f] # files[f]
                                  /\ f \in WitnessFile => files'[f][1] # files[f][1]
<1> DEFINE c == files'[f]
<1>1. files \in [File -> Text] /\ Readable(f) /\ Writable(f, files[f]) /\ FileInv
  BY DEF SealInv, FileInv, Spoil, Readable
<1>2. CASE files' = [files EXCEPT ![f] = None] /\ kind # "altered"
  <2>1. None \in Text
    BY DEF None, Text
  <2> QED
    BY <1>1, <1>2, <2>1
<1>3. CASE files' = [files EXCEPT ![f] = Torn] /\ kind # "altered"
  <2>1. Torn \in Text
    BY Texts DEF Word, Torn
  <2> QED
    BY <1>1, <1>3, <2>1
<1>4. CASE UNCHANGED files /\ kind # "altered"
  BY <1>1, <1>4
<1>5. ASSUME NEW i \in DOMAIN files[f], NEW w \in Forged(f, i) \ {files[f][i]},
             files' = [files EXCEPT ![f] = [files[f] EXCEPT ![i] = w]]
      PROVE  /\ files' \in [File -> Text] /\ \A g \in File \ {f} : files'[g] = files[g]
             /\ Writable(f, files'[f])
             /\ files'[f] # files[f]
             /\ f \in WitnessFile => files'[f][1] # files[f][1]
  <2> DEFINE s == files[f]
             d == [s EXCEPT ![i] = w]
  <2>1. w \in Word /\ s \in Seq(Word) /\ i \in 1..Len(s)
    BY <1>1, <1>5, ForgedWord DEF Text
  <2>2. d \in Seq(Word) /\ Len(d) = Len(s) /\ d[i] = w
    BY <2>1, ExceptSeq
  <2>3. files'[f] = d /\ \A g \in File \ {f} : files'[g] = files[g]
    BY <1>1, <1>5
  <2>4. files' \in [File -> Text]
    BY <1>1, <1>5, <2>2 DEF Text
  <2>5. d # s /\ w # s[i]
    BY <1>5, <2>2
  <2>6. f \in WitnessFile => i = 1
    BY <1>1, <2>1 DEF Writable
  <2> HIDE DEF d, s
  <2>7. Writable(f, d)
    BY <1>1, <2>2 DEF Writable, Text, s
  <2>8. f \in WitnessFile => d[1] # s[1]
    BY <2>2, <2>5, <2>6
  <2> QED
    BY <2>3, <2>4, <2>5, <2>7, <2>8 DEF s
<1> QED
  BY <1>2, <1>3, <1>4, <1>5 DEF Spoil

\* A file is lost or changed; if it is altered and bound, it does not fit.
LEMMA SpoilInv == ASSUME SealInv, NEW f \in File, NEW kind, Spoil(f, kind) PROVE SealInv'
<1>1. /\ mode = "idle" /\ damaged = "none" /\ damaged' = f /\ harm' = kind /\ f # "none" /\ Readable(f)
      /\ UNCHANGED <<todo, mode, seal_pc, run_no, target, got, logs, reading, out, held, live_logs, moved, clean, faults>>
  BY DEF Spoil, History, File, LocalState, WitnessFile, EpochFile, StepFile, Seal2File
<1>2. /\ files' \in [File -> Text] /\ \A g \in File \ {f} : files'[g] = files[g]
      /\ files'[f] \in {None, Torn} \/ Writable(f, files'[f])
      /\ kind = "altered" => /\ files'[f] # files[f]
                             /\ f \in WitnessFile => files'[f][1] # files[f][1]
  BY Spoilt
<1>3. FileInv'
  BY <1>2 DEF SealInv, FileInv
<1>4. SpoiltInv'
  <2> SUFFICES ASSUME kind = "altered", f \in Bound, verify_complete', Fits' PROVE FALSE
    BY <1>1 DEF SpoiltInv
  <2>1. /\ LocalState \subseteq File /\ StepFile \subseteq File /\ WitnessFile \subseteq File
        /\ "run" \in File /\ "run" \notin Bound /\ "container1" \in StepFile
        /\ LocalState \cap StepFile = {} /\ WitnessFile \cap StepFile = {} /\ WitnessFile \cap LocalState = {}
    BY DEF File, Bound, LocalState, WitnessFile, EpochFile, StepFile, Seal2File
  <2>2. files'["run"] = files["run"] /\ Readable("run")
    <3>1. files'["run"] = files["run"]
      BY <1>2, <2>1
    <3> QED
      BY <3>1 DEF verify_complete, Readable
  <2>3. \A g \in LocalState : files[g] = <<files["run"][1]>> /\ files'[g] = <<files["run"][1]>>
    BY <1>1, <2>2 DEF SealInv, FitInv, Fits
  <2>4. \A g \in StepFile : files[g] = Derived(g) /\ files'[g] = Derived(g)'
    <3>1. \A g \in StepFile : Readable(g)
      BY <1>1, <1>2, <2>1 DEF verify_complete, Readable
    <3> QED
      BY <1>1, <3>1 DEF SealInv, FitInv, Fits, Readable
  <2>5. CASE f \in LocalState
    BY <1>2, <2>3, <2>5
  <2>6. CASE f \in StepFile
    <3>1. Same(LocalState \cup WitnessFile)
      BY <1>2, <2>1, <2>6 DEF Same
    <3>2. f # "container1" => Same({"container1"})
      BY <1>2, <2>1 DEF Same
    <3>3. Derived(f)' = Derived(f)
      BY <2>6, <3>1, <3>2, SameDerived
    <3> QED
      BY <1>2, <2>4, <2>6, <3>3
  <2>7. CASE f \in WitnessFile
    <3>1. BodyOf(f)' # BodyOf(f)
      <4>1. parse_witness(BodyOf(f)')
        BY <2>7 DEF verify_complete
      <4>2. files'[f] # None /\ files'[f] # Torn
        BY <4>1 DEF parse_witness, BodyOf
      <4>3. BodyOf(f)' = files'[f][1]
        BY <4>2 DEF BodyOf
      <4>4. BodyOf(f) = files[f][1]
        BY <1>1 DEF BodyOf, Readable
      <4> QED
        BY <1>2, <2>7, <4>3, <4>4
    <3> DEFINE r == files["run"][1]
    <3>2. files["prepared"] = <<r>> /\ files'["prepared"] = <<r>>
      BY <2>3 DEF LocalState
    <3>3. /\ Made(S1Bodies) = <<r, BodyOf("s1_evm"), BodyOf("s1_qtsa")>>
          /\ Seal2 = <<r, BodyOf("s2_qtsa")>>
      BY <3>2, MadeAre
    <3>4. /\ Made(S1Bodies)' = <<r, BodyOf("s1_evm")', BodyOf("s1_qtsa")'>>
          /\ Seal2' = <<r, BodyOf("s2_qtsa")'>>
      BY <3>2, MadeSome DEF Made, S1Bodies, S2Bodies, Seal2
    <3>5. Made(S1Bodies)' = Made(S1Bodies)
      <4>1. files'["container1"] = files["container1"]
        BY <1>2, <2>1, <2>7
      <4>2. Derived("container1") = Made(S1Bodies) /\ Derived("container1")' = Made(S1Bodies)'
        BY DEF Derived, Seal2File
      <4> QED
        BY <2>1, <2>4, <4>1, <4>2
    <3>6. Seal2' = Seal2
      <4>1. "container2" \in StepFile /\ "container2" \in Seal2File
        BY DEF StepFile, Seal2File
      <4>2. files'["container2"] = files["container2"]
        BY <1>2, <2>1, <2>7, <4>1
      <4>3. Derived("container2") = Seal2 /\ Derived("container2")' = Seal2'
        BY <4>1 DEF Derived
      <4> QED
        BY <2>4, <4>1, <4>2, <4>3
    <3> HIDE DEF r
    <3>7. BodyOf("s1_evm")' = BodyOf("s1_evm") /\ BodyOf("s1_qtsa")' = BodyOf("s1_qtsa")
      BY <3>3, <3>4, <3>5
    <3>8. BodyOf("s2_qtsa")' = BodyOf("s2_qtsa")
      BY <3>3, <3>4, <3>6
    <3>9. f = "s1_evm" \/ f = "s1_qtsa" \/ f = "s2_qtsa"
      BY <2>7 DEF WitnessFile
    <3> QED
      BY <3>1, <3>7, <3>8, <3>9
  <2> QED
    BY <2>5, <2>6, <2>7 DEF Bound
<1>5. /\ ModeInv' /\ TodoInv' /\ StartInv' /\ ReplayInv' /\ ~Own' /\ SubmittedStaysOnDisk'
      /\ KeptInv' /\ FitInv'
  <2>1. todo' = <<>> /\ mode' = "idle"
    BY <1>1 DEF Spoil
  <2> QED
    BY <1>1, <2>1 DEF SealInv, ModeInv, TodoInv, StartInv, ReplayInv, Own, SubmittedStaysOnDisk, KeptInv,
       FitInv
<1> QED
  BY <1>3, <1>4, <1>5 DEF SealInv

\* A replay begins, with an --out that leads elsewhere.
LEMMA ReplayStartInv ==
    ASSUME SealInv, NEW path, NEW admitted \in BOOLEAN, Replay(path, admitted) PROVE SealInv'
<1>1. /\ mode = "idle" /\ mode' = "replay" /\ todo = <<>> /\ todo' = <<>>
      /\ seal_pc' \in {"step 2", "replay refused"} /\ out' = path
      /\ seal_pc' = "step 2" => ensure_outside(path) /\ verify_complete /\ RunStateLoads(admitted)
      /\ logs' = NoLogs
      /\ UNCHANGED <<files, run_no, target, got, damaged, harm, held, live_logs, moved, clean, faults>>
  BY DEF Replay, History
<1>2. ModeInv'
  BY <1>1, NoLogsType DEF SealInv, ModeInv, ReplayPc
<1>3. FileInv' /\ TodoInv' /\ SpoiltInv' /\ SubmittedStaysOnDisk' /\ StartInv' /\ ~Own'
  BY <1>1, SameFits DEF SealInv, FileInv, TodoInv, SpoiltInv, SubmittedStaysOnDisk, StartInv, Own
<1>4. KeptInv' /\ FitInv'
  BY <1>1, KeptStays, FitStays DEF SealInv
<1>5. (\A n \in 2..7 : n \in Step /\ n >= 2) /\ 2 \in 1..8
  BY DEF Step
<1>6. ReplayInv'
  <2> SUFFICES ASSUME seal_pc' = "step 2" PROVE ReplayInv'
    BY <1>1 DEF ReplayInv
  <2>1. verify_complete' /\ RunStateLoads(TRUE)'
    BY <1>1, SameFits DEF RunStateLoads
  <2>2. ensure_outside(out)'
    BY <1>1 DEF ensure_outside, resolved
  <2>3. \A n \in 2..7 : logs'[n] = "none"
    BY <1>1, <1>5, NoLogsType
  <2>4. \A k \in 1..8 : seal_pc' = StepPc[k] => k = 2
    BY <1>5, StepPcs
  <2>5. \A k \in 1..8 : seal_pc' = StepPc[k] => \A n \in 2..7 : logs'[n] = "none" <=> n >= k
    BY <1>5, <2>3, <2>4
  <2> QED
    BY <2>1, <2>2, <2>3, <2>5 DEF ReplayInv
<1> QED
  BY <1>2, <1>3, <1>4, <1>6 DEF SealInv

\* A replay ends.
LEMMA ReplayEndsInv == ASSUME SealInv, ReplayEnds PROVE SealInv'
<1>1. /\ mode = "replay" /\ mode' = "replay" /\ todo = <<>> /\ todo' = <<>>
      /\ seal_pc = "closing" /\ seal_pc' = "replayed"
      /\ UNCHANGED <<files, run_no, target, got, logs, reading, damaged, harm, out, held, live_logs, moved, clean, faults>>
  BY DEF ReplayEnds, Then, ReplayVars, History
<1>2. ModeInv'
  BY <1>1 DEF SealInv, ModeInv, ReplayPc
<1>3. FileInv' /\ TodoInv' /\ SpoiltInv' /\ SubmittedStaysOnDisk' /\ StartInv' /\ ~Own'
  BY <1>1, SameFits DEF SealInv, FileInv, TodoInv, SpoiltInv, SubmittedStaysOnDisk, StartInv, Own
<1>4. KeptInv' /\ FitInv'
  BY <1>1, KeptStays, FitStays DEF SealInv
<1>5. ReplayInv'
  <2>1. verify_complete' /\ RunStateLoads(TRUE)' /\ ensure_outside(out)'
    BY <1>1, SameFits DEF SealInv, ReplayInv, ensure_outside, resolved
  <2>2. \A n \in 2..7 : logs[n] = "none" <=> n >= 8
    <3>1. 8 \in 1..8
      OBVIOUS
    <3> QED
      BY <1>1, <3>1, StepPcs DEF SealInv, ReplayInv
  <2>3. \A n \in 2..7 : logs'[n] # "none" /\ n \in Step
    BY <1>1, <2>2 DEF Step
  <2>4. \A k \in 1..8 : StepPc[k] # "replayed"
    BY StepPcs
  <2>5. \A n \in 2..7 : /\ logs'[n] = "pass" => FoundAgain(n)'
                        /\ clean' /\ logs'[n] = "fail" => ~FoundAgain(n)'
    BY <1>1, <2>3, SameDir DEF SealInv, ReplayInv
  <2>6. Step2Left'
    <3>1. Same({"container1", "attest1"})
      BY <1>1 DEF Same
    <3> QED
      BY <1>1, <3>1, SameLeft DEF SealInv, ReplayInv
  <2> QED
    BY <1>1, <2>1, <2>3, <2>4, <2>5, <2>6 DEF ReplayInv
<1> QED
  BY <1>2, <1>3, <1>4, <1>5 DEF SealInv

----------------------------------------------------------------------------
(***************************************************************************)
(* The results.                                                            *)
(***************************************************************************)

\* Nothing happens.
LEMMA UnchangedInv == ASSUME SealInv, UNCHANGED sealVars PROVE SealInv'
<1>1. UNCHANGED <<files, todo, mode, seal_pc, run_no, target, got, logs, reading,
                  damaged, harm, out, held, live_logs, moved, clean, faults>>
  BY DEF sealVars
<1>2. ModeInv' /\ FileInv' /\ TodoInv' /\ SpoiltInv' /\ SubmittedStaysOnDisk' /\ StartInv'
  BY <1>1, SameFits DEF SealInv, ModeInv, FileInv, TodoInv, SpoiltInv, SubmittedStaysOnDisk, StartInv
<1>3. /\ \A n \in Step : (Found(n)' <=> Found(n)) /\ (FoundAgain(n)' <=> FoundAgain(n))
      /\ (step2_reads' <=> step2_reads) /\ (step4_builds' <=> step4_builds)
  BY <1>1, SameDir
<1>4. Step2Left => Step2Left'
  <2>1. Same({"container1", "attest1"})
    BY <1>1 DEF Same
  <2> QED
    BY <1>1, <2>1, SameLeft
<1>5. ASSUME Own' PROVE DirInv' /\ RunJsonInv' /\ LogInv'
  <2>1. DirInv /\ RunJsonInv /\ LogInv
    BY <1>1, <1>5 DEF SealInv, Own
  <2>2. RunJsonInv'
    BY <1>1, <2>1 DEF RunJsonInv, Taken, ThisRun
  <2>3. LogInv'
    BY <1>1, <1>3, <1>4, <2>1 DEF LogInv, all_passed
  <2>4. DirInv'
    BY <1>1, <1>3, <2>1 DEF DirInv, Whole, Holds, Taken, ThisRun
  <2> QED
    BY <2>2, <2>3, <2>4
<1>6. KeptInv'
  BY <1>1, KeptStays DEF SealInv
<1>7. FitInv'
  <2>1. damaged = "none" => Fitting(todo)
    BY DEF SealInv, FitInv, Fitting
  <2>2. damaged' = "none" => Fitting(todo')
    BY <1>1, <2>1
  <2> QED
    BY <1>1, <2>2, FitMove DEF SealInv
<1>8. ReplayInv'
  <2>1. \A n \in 2..7 : n \in Step
    BY DEF Step
  <2> QED
    BY <1>1, <1>3, <1>4, <2>1, SameFits DEF SealInv, ReplayInv, ensure_outside, resolved
<1> QED
  BY <1>2, <1>5, <1>6, <1>7, <1>8 DEF SealInv

\* Every step keeps the invariant.
LEMMA SealNextInv == SealInv /\ [SealNext]_sealVars => SealInv'
<1> SUFFICES ASSUME SealInv, [SealNext]_sealVars PROVE SealInv'
  OBVIOUS
<1>1. CASE LiveStep
  BY <1>1, BeginInv, WriteInv, FailsInv, PreflightInv, BuildInv, MintInv, PostInv, PostedInv,
     SealedInv, PullInv, ReadInv, StatusInv, ClosingInv, ReportInv, StoppedInv DEF LiveStep
<1>2. ASSUME NEW n \in Step, NEW chain \in BOOLEAN, RunStep(n, chain) PROVE SealInv'
  <2>1. mode = "live" \/ mode = "replay"
    <3>1. CASE mode = "idle"
      <4>1. StepPc[n] \notin IdlePc
        <5>1. n \in 1..8
          BY DEF Step
        <5> QED
          BY <5>1, StepPcs DEF IdlePc
      <4> QED
        BY <1>2, <3>1, <4>1 DEF RunStep, SealInv, ModeInv
    <3> QED
      BY <3>1 DEF SealInv, ModeInv
  <2> QED
    BY <1>2, <2>1, RunStepLive, RunStepReplay
<1>3. CASE Crash
  BY <1>3, CrashInv
<1>4. ASSUME NEW f \in File, NEW kind \in {"lost", "torn", "altered", "reformatted"}, Spoil(f, kind)
      PROVE  SealInv'
  BY <1>4, SpoilInv
<1>5. ASSUME NEW path \in {"none", "beside", "run_dir", "link", "dangling"}, NEW admitted \in BOOLEAN,
             Replay(path, admitted)
      PROVE  SealInv'
  BY <1>5, ReplayStartInv
<1>6. CASE ReplayEnds
  BY <1>6, ReplayEndsInv
<1>7. CASE UNCHANGED sealVars
  BY <1>7, UnchangedInv
<1> QED
  BY <1>1, <1>2, <1>3, <1>4, <1>5, <1>6, <1>7 DEF SealNext

\* The inductive invariant.
LEMMA SealInvariance == SealSpec => []SealInv
BY SealInitInv, SealNextInv, PTL DEF SealSpec

\* In any number of runs given one directory, whatever the server answers and
\* wherever a run dies: the seals whose leaves the server may hold are on disk.
THEOREM SealsOutliveTheRun == SealSpec => []SubmittedStaysOnDisk
<1>1. SealInv => SubmittedStaysOnDisk
  BY DEF SealInv
<1> QED
  BY <1>1, SealInvariance, PTL

\* What is known of the directory of a run that passed.
LEMMA PassedDir ==
    ASSUME SealInv, seal_pc = "passed", damaged = "none"
    PROVE  /\ \A n \in Step : Found(n)
           /\ Taken(files["run"]) /\ <<ThisRun>> \notin {None, Torn} /\ ~moved
           /\ Readable("identity") /\ Readable("status")
           /\ \A f \in LocalState : files[f] = <<ThisRun>>
           /\ step2_reads => Readable("receipts1")
           /\ step4_builds => \A f \in Seal2File : Readable(f)
<1>1. mode = "idle" /\ todo = <<>>
  BY DEF SealInv, ModeInv, TodoInv, LivePc, ReplayPc
<1>2. DirInv /\ LogInv
  BY <1>1 DEF SealInv, Own
<1>3. /\ "passed" \in FromStep5 /\ "passed" \in FromStep3 /\ "passed" \in FromStep1
      /\ "passed" \in FromFetch /\ "passed" \in FromSignin /\ "passed" \in FromLocal
      /\ "passed" \in FromReport
  BY DEF FromReport, FromStep5, FromStep3, FromStep1, FromFetch, FromSignin, FromLocal
<1>4. \A n \in Step : Found(n)
  BY <1>2, <1>3 DEF LogInv, all_passed, Step
<1>5. /\ Taken(files["run"]) /\ Readable("identity") /\ Readable("status")
      /\ \A f \in LocalState : files[f] = <<ThisRun>>
  BY <1>1, <1>2, <1>3, HoldsNow DEF DirInv
<1>6. /\ step2_reads => Readable("receipts1")
      /\ step4_builds => \A f \in Seal2File : Readable(f)
  BY <1>1, <1>2, <1>3, HoldsNow DEF DirInv
<1>7. ~moved
  BY <1>2, <1>3 DEF LogInv
<1>8. <<ThisRun>> \notin {None, Torn}
  <2>1. run_no \in DOMAIN Runs
    BY SealRunAssumption DEF SealInv, ModeInv
  <2>2. ThisRun # "torn"
    BY <2>1, SealRunAssumption DEF ThisRun
  <2> QED
    BY <2>2 DEF None, Torn
<1> QED
  BY <1>4, <1>5, <1>6, <1>7, <1>8

\* What the verdicts found, step by step.
LEMMA FoundAre ==
    ASSUME \A n \in Step : Found(n)
    PROVE  /\ step1_ok(TRUE) /\ Reading2 /\ (target = "pinned" => files["identity"] = <<"did">>)
           /\ step4_builds /\ step6_ok(TRUE) /\ step7_ok
<1>1. Found(1) /\ Found(2) /\ Found(4) /\ Found(6) /\ Found(7)
  BY DEF Step
<1>2. step1_ok(TRUE)
  BY <1>1 DEF Found, step1_ok, step1_builds
<1>3. Reading2 /\ (target = "pinned" => files["identity"] = <<"did">>)
  BY <1>1 DEF Found
<1>4. step4_builds
  BY <1>1 DEF Found
<1>5. step6_ok(TRUE)
  BY <1>1 DEF Found, step6_ok
<1>6. step7_ok
  BY <1>1 DEF Found
<1> QED
  BY <1>2, <1>3, <1>4, <1>5, <1>6

\* A run of the test passes only on what it must see.
THEOREM SealPassSound == SealSpec => []PassIsSound
<1>1. ASSUME SealInv PROVE PassIsSound
  <2> SUFFICES ASSUME seal_pc = "passed", damaged = "none"
               PROVE  /\ Answer = "full"
                      /\ \A i \in 1..2 : Genuine(S1Bodies[i])
                      /\ Evaluates(BodyOf("s2_qtsa"))
                      /\ \A f \in EpochFile : BodyOf(f) = "good"
                      /\ target = "pinned" => files["identity"] = <<"did">>
                      /\ ~moved
    BY DEF PassIsSound
  <2>1. (\A n \in Step : Found(n)) /\ Taken(files["run"]) /\ ~moved
    BY <1>1, PassedDir
  <2>2. /\ step1_ok(TRUE) /\ step4_builds /\ step7_ok
        /\ target = "pinned" => files["identity"] = <<"did">>
    BY <2>1, FoundAre
  <2>7. \A i \in 1..2 : Genuine(S1Bodies[i])
    BY <2>2 DEF step1_ok, step1_builds, served_witness, Evaluates
  <2>8. Answer = "full"
    BY <2>1, <2>2 DEF Taken, step1_ok, step7_ok, Answer
  <2>9. Evaluates(BodyOf("s2_qtsa"))
    BY <2>2 DEF step4_builds, S2Bodies
  <2> QED
    BY <2>1, <2>2, <2>7, <2>8, <2>9 DEF step7_ok
<1> QED
  BY <1>1, SealInvariance, PTL

\* A run that passed leaves a directory that a replay takes.
THEOREM SealPassReplayable == SealSpec => []PassIsReplayable
<1>1. ASSUME SealInv PROVE PassIsReplayable
  <2> SUFFICES ASSUME seal_pc = "passed", damaged = "none" PROVE verify_complete /\ RunStateLoads(TRUE)
    BY DEF PassIsReplayable
  <2>1. /\ \A n \in Step : Found(n)
        /\ Taken(files["run"]) /\ <<ThisRun>> \notin {None, Torn}
        /\ Readable("identity") /\ Readable("status")
        /\ \A f \in LocalState : files[f] = <<ThisRun>>
        /\ step2_reads => Readable("receipts1")
        /\ step4_builds => \A f \in Seal2File : Readable(f)
    BY <1>1, PassedDir
  <2>2. step1_ok(TRUE) /\ Reading2 /\ step4_builds /\ step6_ok(TRUE) /\ step7_ok
    BY <2>1, FoundAre
  <2>3. Readable("run") /\ files["run"][2] = "epoch" /\ files["run"][1] = ThisRun
    BY <2>1 DEF Taken, Readable, None, Torn
  <2>4. \A f \in LocalState : Readable(f)
    BY <2>1 DEF Readable
  <2>5. \A f \in StepFile : Readable(f)
    BY <2>1, <2>2 DEF step6_ok, Reading2, StepFile
  <2>6. \A f \in WitnessFile : parse_witness(BodyOf(f))
    <3>1. \A i \in 1..2 : parse_witness(S1Bodies[i])
      BY <2>2 DEF step1_ok, step1_builds, served_witness
    <3>2. S1Bodies[1] = BodyOf("s1_evm") /\ S1Bodies[2] = BodyOf("s1_qtsa") /\ 1 \in 1..2 /\ 2 \in 1..2
      BY DEF S1Bodies
    <3>3. parse_witness(BodyOf("s2_qtsa"))
      BY <2>2 DEF step4_builds, S2Bodies
    <3> QED
      BY <3>1, <3>2, <3>3 DEF WitnessFile
  <2>7. \A f \in EpochFile : BodyOf(f) \in {"good", "bad"}
    BY <2>2 DEF step7_ok
  <2>8. RunStateLoads(TRUE)
    BY <2>1, <2>3 DEF RunStateLoads, LocalState
  <2> QED
    BY <2>1, <2>3, <2>4, <2>5, <2>6, <2>7, <2>8 DEF verify_complete
<1> QED
  BY <1>1, SealInvariance, PTL

\* A replay is over; what it found it found in the directory as it is.
LEMMA ReplayedDir ==
    ASSUME SealInv, seal_pc = "replayed"
    PROVE  /\ verify_complete /\ RunStateLoads(TRUE)
           /\ \A n \in 2..7 : /\ logs[n] \in {"pass", "fail"}
                              /\ logs[n] = "pass" => FoundAgain(n)
                              /\ clean /\ logs[n] = "fail" => ~FoundAgain(n)
<1>1. mode = "replay"
  BY DEF SealInv, ModeInv, LivePc, IdlePc, FromLocal, FromSignin, FromFetch, FromStep1, FromStep3,
     FromStep5, FromReport
<1>2. \A n \in 2..7 : logs[n] \in Verdict /\ logs[n] # "none"
  BY <1>1 DEF SealInv, ReplayInv, ModeInv, Step
<1> QED
  BY <1>1, <1>2 DEF SealInv, ReplayInv, Verdict

\* A replay finds what the run found, for any runs, bodies and faults: what the
\* steps wrote is what they make again.
THEOREM ReplayFindsTheSame == SealSpec => []ReplayAgrees
<1>1. ASSUME SealInv PROVE ReplayAgrees
  <2> SUFFICES ASSUME seal_pc = "replayed", damaged = "none", clean, files["identity"] = <<"did">>,
                      live_logs # NoLogs, ~moved, NEW n \in 2..7
               PROVE  logs[n] = live_logs[n]
    BY DEF ReplayAgrees
  <2>0. n \in Step
    BY DEF Step
  <2>1. /\ logs[n] \in {"pass", "fail"} /\ (logs[n] = "pass" <=> FoundAgain(n))
        /\ Readable("run") /\ \A f \in StepFile : Readable(f)
    BY <1>1, ReplayedDir DEF verify_complete
  <2>2. live_logs[n] \in {"pass", "fail"} /\ (live_logs[n] = "pass" <=> Found(n))
    BY <1>1, <2>0, <2>1 DEF SealInv, KeptInv, ModeInv, Verdict
  <2>3. \A f \in StepFile : SameBytes(f, Derived(f))
    BY <1>1, <2>1 DEF SealInv, FitInv, Readable, SameBytes, StepFile, Seal2File
  <2>4. SameBytes("receipts1", Receipts1) /\ \A f \in Seal2File : SameBytes(f, Seal2)
    <3>1. Derived("receipts1") = Receipts1 /\ \A f \in Seal2File : Derived(f) = Seal2
      BY DEF Derived, Seal2File
    <3> QED
      BY <2>3, <3>1 DEF StepFile
  <2>5. Found(n) <=> FoundAgain(n)
    <3>1. CASE n = 2
      BY <2>4, <3>1 DEF Found, FoundAgain
    <3>2. CASE n = 4
      BY <2>4, <3>2 DEF Found, FoundAgain
    <3>3. CASE n # 2 /\ n # 4
      BY <3>3 DEF FoundAgain
    <3> QED
      BY <3>1, <3>2, <3>3
  <2> QED
    BY <2>1, <2>2, <2>5
<1> QED
  BY <1>1, SealInvariance, PTL

\* Whatever file is lost or cut short, whatever bound file is altered, whatever
\* output is rewritten: a replay does not pass.
THEOREM ReplayCatchesDamage == SealSpec => []DamageIsCaught
<1>1. ASSUME SealInv PROVE DamageIsCaught
  <2> SUFFICES ASSUME seal_pc = "replayed", all_passed(2)
               PROVE  /\ \A f \in File : Readable(f)
                      /\ harm = "altered" => damaged \notin Bound
                      /\ harm = "reformatted" => damaged \notin StepFile
    BY DEF DamageIsCaught
  <2>1. verify_complete /\ RunStateLoads(TRUE)
    BY <1>1, ReplayedDir
  <2>2. FoundAgain(2) /\ FoundAgain(4) /\ FoundAgain(6)
    BY <1>1, ReplayedDir DEF all_passed
  <2>3. SameBytes("receipts1", Receipts1)
    BY <2>2 DEF FoundAgain
  <2>4. HeadsAgree /\ \A f \in Seal2File : SameBytes(f, Seal2)
    BY <2>2 DEF FoundAgain, step4_builds
  <2>5. SameBytes("container1", Made(S1Bodies)) /\ SameBytes("attest1", Made(S1Bodies))
    <3>1. Found(6)
      BY <2>2 DEF FoundAgain
    <3> QED
      BY <3>1 DEF Found, step6_ok
  <2>6. \A f \in StepFile : SameBytes(f, Derived(f))
    BY <2>3, <2>4, <2>5 DEF Derived, StepFile, Seal2File
  <2>7. \A f \in File : Readable(f)
    <3>1. \A f : ~Readable(f) => BodyOf(f) \in {"none", "garbled"}
      BY DEF Readable, BodyOf
    <3>2. \A f \in WitnessFile \cup EpochFile : Readable(f)
      BY <2>1, <3>1 DEF verify_complete, parse_witness
    <3> QED
      BY <2>1, <3>2 DEF verify_complete, File
  <2>8. Fits
    <3>1. \A f \in LocalState : files[f] = <<files["run"][1]>>
      BY <2>1, <2>4 DEF RunStateLoads, HeadsAgree
    <3> QED
      BY <2>6, <3>1 DEF Fits, SameBytes
  <2>9. harm = "altered" => damaged \notin Bound
    BY <1>1, <2>1, <2>8 DEF SealInv, SpoiltInv
  <2>10. harm = "reformatted" => damaged \notin StepFile
    BY <2>6 DEF SameBytes
  <2> QED
    BY <2>7, <2>9, <2>10
<1> QED
  BY <1>1, SealInvariance, PTL

\* A replay writes nothing into the directory it judges: what it makes goes
\* where --out leads, and that is elsewhere.
THEOREM ReplayTouchesNothing == SealSpec => RunDirUntouched
<1>1. SealInv /\ [SealNext]_sealVars => [mode = "replay" => UNCHANGED files]_sealVars
  <2> SUFFICES ASSUME SealInv, SealNext, mode = "replay" PROVE UNCHANGED files
    OBVIOUS
  <2>1. todo = <<>>
    BY DEF SealInv, TodoInv
  <2>2. ~LiveStep
    BY <2>1 DEF LiveStep, Begin, write_file, Fails, preflight, build_local_state, mint_bearer, Post,
       Posted, Sealed, submit_and_pull, read_epoch_bodies, Status, Closing, Report, Stopped, Live
  <2>3. ~Crash /\ (\A f, kind : ~Spoil(f, kind)) /\ (\A path, admitted : ~Replay(path, admitted))
    BY DEF Crash, Spoil, Replay
  <2>4. ASSUME NEW n \in Step, NEW chain \in BOOLEAN, RunStep(n, chain) PROVE UNCHANGED files
    BY <2>4 DEF RunStep, Then
  <2>5. CASE ReplayEnds
    BY <2>5 DEF ReplayEnds, Then
  <2> QED
    BY <2>2, <2>3, <2>4, <2>5 DEF SealNext
<1> QED
  BY <1>1, SealInvariance, PTL DEF SealSpec, RunDirUntouched

=============================================================================
