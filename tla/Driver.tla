------------------------------- MODULE Driver -------------------------------
(***************************************************************************)
(* The driver llmc: invocations, one after the other, on one input file    *)
(* that is edited between them.  An invocation finds its tools, translates *)
(* the input, compiles and links the result and explores the shared object.*)
(* Every tool may fail and an invocation may be killed; the files stay.    *)
(***************************************************************************)
EXTENDS Naturals

CONSTANTS MaxVersion,    \* bound: edits of the input file
          Tools          \* sets of tools that may be installed

ASSUME DriverAssumption ==
  MaxVersion \in Nat \ {0} /\ Tools \subseteq SUBSET {"llc", "gcc", "clang", "dot"}

VARIABLES input,        \* version of the input file
          output_ll, output_o, output_so,   \* the files, None if absent
          installed,    \* tools in PATH
          stage,        \* what main does next; "exited" between invocations
          errors,       \* out.getErrors()
          read,         \* the version this invocation translated
          r,            \* the result of translate()
          explored      \* the shared object handed to the model checker

files == <<output_ll, output_o, output_so>>
vars == <<input, files, installed, stage, errors, read, r, explored>>

None == [version |-> 0, complete |-> FALSE]

(* What a file was made from; complete: the translation was successful.    *)
Output == [version : 0..MaxVersion, complete : BOOLEAN]

TypeOK ==
  /\ input \in 1..MaxVersion /\ read \in 0..MaxVersion
  /\ output_ll \in Output /\ output_o \in Output /\ output_so \in Output
  /\ explored \in Output
  /\ installed \in Tools /\ errors \in 0..4 /\ r \in BOOLEAN
  /\ stage \in {"exited", "translate", "check", "compile", "link", "explore"}

Init ==
  /\ input = 1
  /\ output_ll = None /\ output_o = None /\ output_so = None
  /\ installed \in Tools
  /\ stage = "exited" /\ errors = 0 /\ read = 0 /\ r = FALSE
  /\ explored = None

(* Somebody edits the input. *)
edit ==
  /\ stage = "exited" /\ input < MaxVersion
  /\ input' = input + 1
  /\ UNCHANGED <<files, installed, stage, errors, read, r, explored>>

(* findBinary reports an error for a tool that is not found; clang is tried *)
(* when there is no gcc.                                                   *)
missing(tool) == IF tool \in installed THEN 0 ELSE 1

findBinaries ==
  missing("llc") + missing("gcc") + missing("gcc") * missing("clang") + missing("dot")

(* Mutated form: the errors of the invocation before are still counted.    *)
startMutated ==
  /\ stage = "exited"
  /\ errors' = errors + findBinaries
  /\ stage' = "translate"
  /\ explored' = None /\ read' = 0
  /\ UNCHANGED <<input, files, installed, r>>

(* main up to the checks of the files, which are readable and writable.    *)
start ==
  /\ stage = "exited"
  /\ errors' = findBinaries
  /\ stage' = "translate"
  /\ explored' = None /\ read' = 0
  /\ UNCHANGED <<input, files, installed, r>>

(* An input with extension so is explored as it is. *)
startSharedObject ==
  /\ stage = "exited" /\ output_so # None
  /\ explored' = output_so
  /\ read' = 0
  /\ UNCHANGED <<input, files, installed, stage, errors, r>>

(* The module is written also when the translation failed.                 *)
translate ==
  /\ stage = "translate"
  /\ r' \in BOOLEAN
  /\ read' = input
  /\ output_ll' = [version |-> input, complete |-> r']
  /\ stage' = "check"
  /\ UNCHANGED <<input, output_o, output_so, installed, errors, explored>>

(* The input does not parse (nobody looks at the result of init, and        *)
(* translate follows a null pointer), or the file cannot be written, which *)
(* is fatal in the stream's destructor: the file is old or incomplete.     *)
translateCrashes ==
  /\ stage = "translate"
  /\ output_ll' \in {output_ll, [version |-> input, complete |-> FALSE]}
  /\ stage' = "exited"
  /\ UNCHANGED <<input, output_o, output_so, installed, errors, read, r, explored>>

(* Mutated form: the result of translate() is not looked at. *)
checkMutated ==
  /\ stage = "check"
  /\ stage' = IF errors = 0 THEN "compile" ELSE "exited"
  /\ UNCHANGED <<input, files, installed, errors, read, r, explored>>

check ==
  /\ stage = "check"
  /\ stage' = IF r /\ errors = 0 THEN "compile" ELSE "exited"
  /\ UNCHANGED <<input, files, installed, errors, read, r, explored>>

(* Mutated form: the old object file is not removed. *)
compileMutated ==
  /\ stage = "compile"
  /\ output_o' \in {output_o, output_ll}
  /\ stage' = IF output_o' = None THEN "exited" ELSE "link"
  /\ UNCHANGED <<input, output_ll, output_so, installed, errors, read, r, explored>>

(* The old object file is removed; compile asks whether there is a new one. *)
compile ==
  /\ stage = "compile"
  /\ output_o' \in {None, output_ll}
  /\ stage' = IF output_o' = None THEN "exited" ELSE "link"
  /\ UNCHANGED <<input, output_ll, output_so, installed, errors, read, r, explored>>

(* The old shared object is not removed: a linker that fails before it opens *)
(* its output leaves it, one that fails later deletes it.                  *)
link ==
  /\ stage = "link"
  /\ output_so' \in {None, output_so, output_o}
  /\ stage' = IF output_so' = None THEN "exited" ELSE "explore"
  /\ UNCHANGED <<input, output_ll, output_o, installed, errors, read, r, explored>>

explore ==
  /\ stage = "explore"
  /\ explored' = output_so
  /\ stage' = "exited"
  /\ UNCHANGED <<input, files, installed, errors, read, r>>

kill ==
  /\ stage # "exited"
  /\ stage' = "exited"
  /\ UNCHANGED <<input, files, installed, errors, read, r, explored>>

Next ==
  \/ edit \/ start \/ startSharedObject \/ translate \/ translateCrashes
  \/ check \/ compile \/ link \/ explore \/ kill

Spec == Init /\ [][Next]_vars

-----------------------------------------------------------------------------
(* No shared object is ever explored that was made from a module whose     *)
(* translation failed, although such modules are written to disk, tools    *)
(* fail and invocations are killed between any two steps (lines 487-511).  *)
ExploredWasTranslated == explored # None => explored.complete

(* What is linked is the code of this invocation's input: line 503 removes  *)
(* the object file of the previous one.                                    *)
LinksWhatItTranslated ==
  stage = "link" => output_o = [version |-> read, complete |-> TRUE]
=============================================================================
