---------------------------- MODULE Driver_proofs ----------------------------
(***************************************************************************)
(* The driver, for any number of edits of the input and any sets of tools. *)
(***************************************************************************)
EXTENDS Driver, TLAPS

(* What a translation that succeeded leads to. *)
translated(version) == [version |-> version, complete |-> TRUE]

Made == {None} \cup {translated(version) : version \in 0..MaxVersion}

(* The inductive invariant: object files and shared objects on disk come   *)
(* from translations that succeeded, whoever left them; what is about to   *)
(* be compiled or linked was made by this invocation.                      *)
PipelineInv ==
  /\ TypeOK
  /\ output_o \in Made /\ output_so \in Made /\ explored \in Made
  /\ stage = "check" => output_ll = [version |-> read, complete |-> r]
  /\ stage = "compile" => output_ll = translated(read)
  /\ stage = "link" => output_o = translated(read)

(* Files are made of versions that there are.                              *)
LEMMA OutputTypes ==
  /\ None \in Output /\ None \in Made
  /\ \A v \in 0..MaxVersion : translated(v) \in Made
  /\ \A v \in 0..MaxVersion, b \in BOOLEAN : [version |-> v, complete |-> b] \in Output
<1>1. 0 \in 0..MaxVersion
  BY DriverAssumption
<1>2. None \in Output
  BY <1>1 DEF None, Output
<1> QED
  BY <1>2 DEF Made, Output

(* A made file is a file. *)
LEMMA MadeIsOutput == Made \subseteq Output
  BY OutputTypes DEF Made, translated

(* Errors are counted once per tool, and twice for the C compiler.         *)
LEMMA ErrorsBounded == findBinaries \in 0..4
  BY DEF findBinaries, missing

(* The initial states: no file. *)
LEMMA PipelineInit == Init => PipelineInv
<1> SUFFICES ASSUME Init PROVE PipelineInv
  OBVIOUS
<1>1. 1 \in 1..MaxVersion /\ 0 \in 0..MaxVersion /\ 0 \in 0..4
  BY DriverAssumption
<1>2. TypeOK
  BY <1>1, OutputTypes DEF Init, TypeOK
<1> QED
  BY <1>2, OutputTypes DEF Init, PipelineInv

(* One step of the driver, of its tools, or of somebody around it.         *)
LEMMA PipelineStep == PipelineInv /\ [Next]_vars => PipelineInv'
<1> SUFFICES ASSUME PipelineInv, [Next]_vars PROVE PipelineInv'
  OBVIOUS
<1>0. /\ input \in 0..MaxVersion
      /\ input < MaxVersion => input + 1 \in 1..MaxVersion
      /\ 0 \in 0..MaxVersion
  BY DriverAssumption DEF PipelineInv, TypeOK
<1>2. CASE UNCHANGED vars
  BY <1>2 DEF vars, files, PipelineInv, TypeOK
<1>3. CASE edit
  BY <1>0, <1>3 DEF edit, files, PipelineInv, TypeOK
<1>4. CASE start
  BY <1>0, <1>4, ErrorsBounded, OutputTypes DEF start, files, PipelineInv, TypeOK
<1>5. CASE startSharedObject
  BY <1>0, <1>5 DEF startSharedObject, files, PipelineInv, TypeOK
<1>6. CASE translate
  <2>1. output_ll' \in Output
    BY <1>0, <1>6, OutputTypes DEF translate
  <2> QED
    BY <1>0, <1>6, <2>1 DEF translate, PipelineInv, TypeOK
<1>7. CASE translateCrashes
  <2>1. output_ll' \in Output
    BY <1>0, <1>7, OutputTypes DEF translateCrashes, PipelineInv, TypeOK
  <2> QED
    BY <1>7, <2>1 DEF translateCrashes, PipelineInv, TypeOK
<1>8. CASE check
  <2>1. CASE r /\ errors = 0
    <3>1. r = TRUE /\ stage' = "compile"
      BY <1>8, <2>1 DEF check, PipelineInv, TypeOK
    <3>2. output_ll = translated(read)
      BY <1>8, <3>1 DEF check, PipelineInv, translated
    <3> QED
      BY <1>8, <3>1, <3>2 DEF check, files, PipelineInv, TypeOK
  <2>2. CASE ~(r /\ errors = 0)
    BY <1>8, <2>2 DEF check, files, PipelineInv, TypeOK
  <2> QED
    BY <2>1, <2>2
<1>9. CASE compile
  <2>1. output_o' = None \/ output_o' = translated(read)
    BY <1>9 DEF compile, PipelineInv
  <2>2. output_o' \in Made /\ output_o' \in Output
    BY <2>1, OutputTypes, MadeIsOutput DEF PipelineInv, TypeOK
  <2>3. stage' = "link" => output_o' = translated(read)
    BY <1>9, <2>1 DEF compile
  <2> QED
    BY <1>9, <2>2, <2>3 DEF compile, PipelineInv, TypeOK
<1>10. CASE link
  <2>1. output_so' \in Made /\ output_so' \in Output
    BY <1>10, OutputTypes DEF link, PipelineInv, TypeOK
  <2> QED
    BY <1>10, <2>1 DEF link, PipelineInv, TypeOK
<1>11. CASE explore
  BY <1>11 DEF explore, files, PipelineInv, TypeOK
<1>12. CASE kill
  BY <1>12 DEF kill, files, PipelineInv, TypeOK
<1> QED
  BY <1>2, <1>3, <1>4, <1>5, <1>6, <1>7, <1>8, <1>9, <1>10, <1>11, <1>12 DEF Next

LEMMA PipelineInvariant == Spec => []PipelineInv
<1> QED
  BY PipelineInit, PipelineStep, PTL DEF Spec

(* Every step of the driver leaves a stage and files of the kinds the      *)
(* module names (main, lines 431-536).                                     *)
THEOREM PipelineTypeCorrect == Spec => []TypeOK
<1>1. PipelineInv => TypeOK
  BY DEF PipelineInv
<1> QED
  BY <1>1, PipelineInvariant, PTL

(* No shared object is explored whose module was not translated            *)
(* successfully (main, lines 487-536), however many invocations there      *)
(* were, whichever tools they missed and wherever they were killed.        *)
THEOREM OnlyTranslatedIsExplored == Spec => []ExploredWasTranslated
<1>1. PipelineInv => ExploredWasTranslated
  BY DEF PipelineInv, Made, translated, ExploredWasTranslated
<1> QED
  BY <1>1, PipelineInvariant, PTL

(* The linker gets what this invocation translated (main, lines 502-511).  *)
THEOREM LinkedIsTranslated == Spec => []LinksWhatItTranslated
<1>1. PipelineInv => LinksWhatItTranslated
  BY DEF PipelineInv, translated, LinksWhatItTranslated
<1> QED
  BY <1>1, PipelineInvariant, PTL
=============================================================================
