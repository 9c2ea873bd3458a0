----------------------------- MODULE Npb_proofs -----------------------------
(***************************************************************************)
(* Proofs about the benchmarks: of their build, for any classes asked for, *)
(* in any order, and any number of changes of make.def; and of the data    *)
(* traffic of DT, over any graph.                                          *)
(*                                                                         *)
(* The age of files is all make has to go by.  The invariant says what it  *)
(* then knows: a header with a first line is complete, one that is new is  *)
(* of the present make.def, objects that are new are of the header.        *)
(*                                                                         *)
(* A message of DT is known by its sender and its place there, and by its  *)
(* receiver and its place there; the order between the same two processes  *)
(* is the same at either end.  The invariant says that what is on its way  *)
(* is what was sent and not received, at both ends.  Of those who wait to  *)
(* receive the one who waits for the least sender cannot wait in vain.     *)
(* What a process has is what flows to its node along the arcs it has      *)
(* received from; that there is such a flow is shown by induction over the *)
(* numbers of the nodes and of their arcs.                                 *)
(***************************************************************************)
EXTENDS SetParams, DataTraffic, SequenceTheorems, WellFoundedInduction, TLAPS

Class == Asked \cup {"X", "U"}
Subtype == {"NONE", "FULL", "EPIO", "-1"}
Step == {"idle", "config", "write", "header", "compile", "compiling", "link"}

HeaderSet == [class : Class, subtype : Subtype, def : Int, there : BOOLEAN, complete : BOOLEAN, new : BOOLEAN]
ObjectSet == [class : Class, subtype : Subtype, def : Int, complete : BOOLEAN, new : BOOLEAN]
MakeSet == [step : Step, class : Class, subtype : Subtype]

MakeTypeOK ==
  /\ version \in {"MPI", "OMP"} /\ type \in Types(version)
  /\ makeDef \in Nat
  /\ header \in HeaderSet /\ objects \in ObjectSet /\ make \in MakeSet

\* A header with its first line is complete, and a new one of this make.def;
\* new objects are of the header.
FilesOK ==
  /\ header.class # "X" => header.complete
  /\ header.class # "X" /\ header.new => header.def = makeDef
  /\ objects.new /\ header.class # "X" =>
       /\ objects.class = header.class /\ objects.subtype = header.subtype
       /\ objects.def = header.def /\ objects.complete = header.complete

\* What make has made sure of on its way.
StepsOK ==
  /\ make.step \in {"write", "header", "compile", "compiling", "link"} =>
       Accepted(make.class, make.subtype)
  /\ make.step \in {"header", "compile", "compiling", "link"} =>
       header.class = make.class /\ header.subtype = make.subtype
  /\ make.step \in {"compile", "compiling", "link"} => header.new
  /\ make.step = "link" => objects.new

-----------------------------------------------------------------------------
(* The classes.                                                            *)

\* A table has the classes of its entries.
LEMMA TableClasses ==
  ASSUME NEW entries
  PROVE  DOMAIN Table(entries) = {AllClasses[i] : i \in DOMAIN entries}
BY DEF Table

FirstClasses(n) == {AllClasses[i] : i \in 1 .. n}

LEMMA Classes ==
  /\ FirstClasses(8) = {"S", "W", "A", "B", "C", "D", "E", "F"}
  /\ FirstClasses(7) = {"S", "W", "A", "B", "C", "D", "E"}
  /\ FirstClasses(6) = {"S", "W", "A", "B", "C", "D"}
  /\ FirstClasses(4) = {"S", "W", "A", "B"}
  /\ Range(AllClasses) = FirstClasses(8)
<1>1. /\ 1 .. 8 = {1, 2, 3, 4, 5, 6, 7, 8} /\ 1 .. 7 = {1, 2, 3, 4, 5, 6, 7}
      /\ 1 .. 6 = {1, 2, 3, 4, 5, 6} /\ 1 .. 4 = {1, 2, 3, 4}
  OBVIOUS
<1>2. DOMAIN AllClasses = 1 .. 8
  BY DEF AllClasses
<1> QED  BY <1>1, <1>2 DEF FirstClasses, Range, AllClasses

\* Tables of so many entries.
LEMMA Eight ==
  ASSUME NEW a, NEW b, NEW c, NEW d, NEW e, NEW f, NEW g, NEW h
  PROVE  DOMAIN Table(<<a, b, c, d, e, f, g, h>>) = FirstClasses(8)
<1> DEFINE s == <<a, b, c, d, e, f, g, h>>
<1>1. DOMAIN s = 1 .. 8
  OBVIOUS
<1> HIDE DEF s
<1>2. DOMAIN Table(s) = FirstClasses(8)
  BY <1>1, TableClasses DEF FirstClasses
<1> QED  BY <1>2 DEF s

LEMMA Seven ==
  ASSUME NEW a, NEW b, NEW c, NEW d, NEW e, NEW f, NEW g
  PROVE  DOMAIN Table(<<a, b, c, d, e, f, g>>) = FirstClasses(7)
<1> DEFINE s == <<a, b, c, d, e, f, g>>
<1>1. DOMAIN s = 1 .. 7
  OBVIOUS
<1> HIDE DEF s
<1>2. DOMAIN Table(s) = FirstClasses(7)
  BY <1>1, TableClasses DEF FirstClasses
<1> QED  BY <1>2 DEF s

LEMMA Six ==
  ASSUME NEW a, NEW b, NEW c, NEW d, NEW e, NEW f
  PROVE  DOMAIN Table(<<a, b, c, d, e, f>>) = FirstClasses(6)
<1> DEFINE s == <<a, b, c, d, e, f>>
<1>1. DOMAIN s = 1 .. 6
  OBVIOUS
<1> HIDE DEF s
<1>2. DOMAIN Table(s) = FirstClasses(6)
  BY <1>1, TableClasses DEF FirstClasses
<1> QED  BY <1>2 DEF s

LEMMA Four ==
  ASSUME NEW a, NEW b, NEW c, NEW d
  PROVE  DOMAIN Table(<<a, b, c, d>>) = FirstClasses(4)
<1> DEFINE s == <<a, b, c, d>>
<1>1. DOMAIN s = 1 .. 4
  OBVIOUS
<1> HIDE DEF s
<1>2. DOMAIN Table(s) = FirstClasses(4)
  BY <1>1, TableClasses DEF FirstClasses
<1> QED  BY <1>2 DEF s

\* The classes that each writer accepts.
LEMMA Writers ==
  /\ DOMAIN write_sp_info = FirstClasses(8)
  /\ DOMAIN write_bt_info = FirstClasses(8)
  /\ DOMAIN write_lu_info = FirstClasses(8)
  /\ DOMAIN write_mg_info = FirstClasses(8)
  /\ DOMAIN write_ft_info = FirstClasses(8)
  /\ DOMAIN write_ep_info = FirstClasses(8)
  /\ DOMAIN write_cg_info = FirstClasses(8)
  /\ DOMAIN write_is_info = FirstClasses(7)
  /\ DOMAIN write_ua_info = FirstClasses(7)
  /\ DOMAIN write_dt_info = FirstClasses(6)
  /\ DOMAIN write_dc_info = FirstClasses(4)
<1>1. DOMAIN write_sp_info = FirstClasses(8)
  BY Eight, SMT DEF write_sp_info
<1>2. DOMAIN write_bt_info = FirstClasses(8)
  BY Eight, SMT DEF write_bt_info
<1>3. DOMAIN write_lu_info = FirstClasses(8)
  BY Eight, SMT DEF write_lu_info
<1>4. DOMAIN write_mg_info = FirstClasses(8)
  BY Eight, SMT DEF write_mg_info
<1>5. DOMAIN write_ft_info = FirstClasses(8)
  BY Eight, SMT DEF write_ft_info
<1>6. DOMAIN write_ep_info = FirstClasses(8)
  BY Eight, SMT DEF write_ep_info
<1>7. DOMAIN write_cg_info = FirstClasses(8)
  BY Eight, SMT DEF write_cg_info
<1>8. DOMAIN write_is_info = FirstClasses(7)
  BY Seven, SMT DEF write_is_info
<1>9. DOMAIN write_ua_info = FirstClasses(7)
  BY Seven, SMT DEF write_ua_info
<1>10. DOMAIN write_dt_info = FirstClasses(6)
  BY Six, SMT DEF write_dt_info
<1>11. DOMAIN write_dc_info = FirstClasses(4)
  BY Four, SMT DEF write_dc_info
<1> QED  BY <1>1, <1>2, <1>3, <1>4, <1>5, <1>6, <1>7, <1>8, <1>9, <1>10, <1>11

\* What check_info() lets through, write_info() can write.
LEMMA AcceptedAreWritten ==
  ASSUME version \in {"MPI", "OMP"}, type \in Types(version), NEW class, NEW subtype,
         Accepted(class, subtype)
  PROVE  class # "X" /\ class \in WrittenClasses(type)
<1>1. class \in FirstClasses(8)
  BY Classes DEF Accepted, mpi_check_info, omp_check_info
<1>2. CASE type \in {"sp", "bt", "lu", "mg", "ft", "ep", "cg"}
  BY <1>1, <1>2, Classes, Writers DEF WrittenClasses
<1>3. CASE type = "is"
  BY <1>1, <1>3, Classes, Writers DEF WrittenClasses, Accepted, mpi_check_info, omp_check_info
<1>4. CASE type = "dt"
  BY <1>1, <1>4, Classes, Writers DEF WrittenClasses, Accepted, mpi_check_info, Types
<1>5. CASE type = "ua"
  BY <1>1, <1>5, Classes, Writers DEF WrittenClasses, Accepted, omp_check_info, Types
<1>6. CASE type = "dc"
  BY <1>1, <1>6, Classes, Writers DEF WrittenClasses, Accepted, omp_check_info, Types
<1> QED  BY <1>2, <1>3, <1>4, <1>5, <1>6, <1>1, Classes DEF Types

-----------------------------------------------------------------------------
(* Types.                                                                  *)

LEMMA Records ==
  NoHeader \in HeaderSet /\ NoObjects \in ObjectSet /\ Idle \in MakeSet
BY DEF NoHeader, NoObjects, Idle, HeaderSet, ObjectSet, MakeSet, Class, Subtype, Step

LEMMA MakeTypeInit == MakeInit => MakeTypeOK
BY Records DEF MakeInit, MakeTypeOK

LEMMA MakeTypeStep == MakeTypeOK /\ [MakeNext]_svars => MakeTypeOK'
<1> SUFFICES ASSUME MakeTypeOK, [MakeNext]_svars PROVE MakeTypeOK'
  OBVIOUS
<1> USE Records DEF MakeTypeOK, fixed
<1>1. ASSUME NEW class \in Asked, NEW subtype \in Subtypes, StartMake(class, subtype)
      PROVE  MakeTypeOK'
  <2>1. class \in Class /\ subtype \in Subtype
    BY DEF Subtypes, Class, Subtype
  <2> QED  BY <1>1, <2>1 DEF StartMake, MakeSet, Step
<1>2. CASE Configure
  <2>1. header' \in HeaderSet
    BY <1>2 DEF Configure, HeaderSet
  <2>2. objects' \in ObjectSet
    BY <1>2 DEF Configure, ObjectSet
  <2>3. make' \in MakeSet
    BY <1>2 DEF Configure, MakeSet, Step
  <2> QED  BY <1>2, <2>1, <2>2, <2>3 DEF Configure
<1>3. CASE WriteInfo
  <2>1. header' \in HeaderSet
    BY <1>3 DEF WriteInfo, HeaderSet, MakeSet
  <2>2. objects' \in ObjectSet
    BY <1>3 DEF WriteInfo, ObjectSet
  <2>3. make' \in MakeSet
    BY <1>3 DEF WriteInfo, MakeSet, Step
  <2> QED  BY <1>3, <2>1, <2>2, <2>3 DEF WriteInfo
<1>4. CASE HeaderRule
  BY <1>4 DEF HeaderRule, MakeSet, Step
<1>5. CASE Compile
  BY <1>5 DEF Compile, MakeSet, Step
<1>6. CASE Compiled
  <2>1. objects' \in ObjectSet
    BY <1>6 DEF Compiled, ObjectSet, HeaderSet
  <2>2. make' \in MakeSet
    BY <1>6 DEF Compiled, MakeSet, Step
  <2> QED  BY <1>6, <2>1, <2>2 DEF Compiled
<1>7. CASE Link \/ Interrupt \/ Clean
  BY <1>7 DEF Link, Interrupt, Clean
<1>8. CASE EditMakeDef
  <2>1. header' \in HeaderSet
    BY <1>8 DEF EditMakeDef, HeaderSet
  <2> QED  BY <1>8, <2>1 DEF EditMakeDef
<1>9. CASE UNCHANGED svars
  BY <1>9 DEF svars
<1> QED  BY <1>1, <1>2, <1>3, <1>4, <1>5, <1>6, <1>7, <1>8, <1>9 DEF MakeNext

-----------------------------------------------------------------------------
(* What make knows of the files.                                           *)

MakeInv == FilesOK /\ StepsOK /\ BinaryIsItsClass

LEMMA MakeInvInit == MakeInit => MakeInv
BY DEF MakeInit, MakeInv, FilesOK, StepsOK, BinaryIsItsClass, NoHeader, NoObjects, NoProgram, Idle

\* Whether a class is let through depends on the benchmark only.
LEMMA AcceptedStays ==
  ASSUME UNCHANGED fixed, NEW class, NEW subtype
  PROVE  Accepted(class, subtype) = Accepted(class, subtype)'
BY DEF fixed, Accepted

LEMMA ProgramStays ==
  ASSUME BinaryIsItsClass, UNCHANGED <<program, makeDef>>
  PROVE  BinaryIsItsClass'
BY DEF BinaryIsItsClass, NoProgram, NoObjects

LEMMA NoProgramStays ==
  ASSUME program' = NoProgram
  PROVE  BinaryIsItsClass'
BY DEF BinaryIsItsClass, NoProgram, NoObjects

\* make starts, or stops: nothing is known of its steps, nor need be.
LEMMA StepsRest ==
  ASSUME make'.step \in {"idle", "config"}
  PROVE  StepsOK'
BY DEF StepsOK

LEMMA StepStartMake ==
  ASSUME MakeTypeOK, MakeInv, NEW class \in Asked, NEW subtype \in Subtypes, StartMake(class, subtype)
  PROVE  MakeInv'
<1>1. make'.step = "config" /\ program' = NoProgram /\ UNCHANGED <<makeDef, header, objects>>
  BY DEF StartMake
<1>2. FilesOK'
  BY <1>1 DEF MakeInv, FilesOK
<1> QED  BY <1>1, <1>2, StepsRest, NoProgramStays DEF MakeInv

LEMMA StepConfigure == ASSUME MakeTypeOK, MakeInv, Configure PROVE MakeInv'
<1>1. BinaryIsItsClass'
  BY ProgramStays DEF Configure, MakeInv
<1>2. CASE ~Accepted(make.class, make.subtype) /\ make' = Idle /\ UNCHANGED <<header, objects>>
  <2>1. FilesOK'
    BY <1>2 DEF Configure, MakeInv, FilesOK
  <2>2. StepsOK'
    BY <1>2, StepsRest DEF Idle
  <2> QED  BY <1>1, <2>1, <2>2 DEF MakeInv
<1>3. CASE /\ Accepted(make.class, make.subtype)
           /\ <<read_class, read_subtype>> = <<make.class, make.subtype>>
           /\ make' = [make EXCEPT !.step = "header"] /\ UNCHANGED <<header, objects>>
  <2>1. FilesOK'
    BY <1>3 DEF Configure, MakeInv, FilesOK
  <2>2. /\ make'.step = "header" /\ make'.class = make.class /\ make'.subtype = make.subtype
        /\ header'.class = make.class /\ header'.subtype = make.subtype
    BY <1>3 DEF MakeTypeOK, MakeSet, read_class, read_subtype
  <2>3. Accepted(make.class, make.subtype)'
    BY <1>3, <2>2 DEF Configure, Accepted, fixed
  <2>4. StepsOK'
    BY <2>2, <2>3 DEF StepsOK
  <2> QED  BY <1>1, <2>1, <2>4 DEF MakeInv
<1>4. CASE /\ Accepted(make.class, make.subtype)
           /\ make' = [make EXCEPT !.step = "write"]
           /\ header' = [NoHeader EXCEPT !.there = TRUE, !.new = TRUE]
           /\ objects' = [objects EXCEPT !.new = FALSE]
  <2>1. header'.class = "X"
    BY <1>4 DEF NoHeader
  <2>2. FilesOK'
    BY <2>1 DEF FilesOK
  <2>3. make'.step = "write" /\ make'.class = make.class /\ make'.subtype = make.subtype
    BY <1>4 DEF MakeTypeOK, MakeSet
  <2>4. Accepted(make.class, make.subtype)'
    BY <1>4, <2>3 DEF Configure, Accepted, fixed
  <2>5. StepsOK'
    BY <2>3, <2>4 DEF StepsOK
  <2> QED  BY <1>1, <2>2, <2>5 DEF MakeInv
<1> QED  BY <1>2, <1>3, <1>4 DEF Configure

LEMMA StepWriteInfo == ASSUME MakeTypeOK, MakeInv, WriteInfo PROVE MakeInv'
<1>1. BinaryIsItsClass'
  BY ProgramStays DEF WriteInfo, MakeInv
<1>2. Accepted(make.class, make.subtype) /\ make.class \in WrittenClasses(type)
  BY AcceptedAreWritten DEF WriteInfo, MakeInv, StepsOK, MakeTypeOK
<1>3. /\ header'.class = make.class /\ header'.subtype = make.subtype
      /\ header'.def = makeDef /\ header'.complete /\ header'.new
      /\ make' = [make EXCEPT !.step = "header"]
      /\ objects' = [objects EXCEPT !.new = FALSE] /\ UNCHANGED <<fixed, makeDef>>
  BY <1>2 DEF WriteInfo
<1>4. ~objects'.new
  BY <1>3 DEF MakeTypeOK, ObjectSet
<1>5. FilesOK'
  BY <1>3, <1>4 DEF FilesOK
<1>6. make'.step = "header" /\ make'.class = make.class /\ make'.subtype = make.subtype
  BY <1>3 DEF MakeTypeOK, MakeSet
<1>7. Accepted(make.class, make.subtype)'
  BY <1>2, <1>3, <1>6 DEF Accepted, fixed
<1>8. StepsOK'
  BY <1>3, <1>6, <1>7 DEF StepsOK
<1> QED  BY <1>1, <1>5, <1>8 DEF MakeInv

LEMMA StepHeaderRule == ASSUME MakeTypeOK, MakeInv, HeaderRule PROVE MakeInv'
<1>1. BinaryIsItsClass'
  BY ProgramStays DEF HeaderRule, MakeInv
<1>2. CASE header.new /\ make' = [make EXCEPT !.step = "compile"] /\ UNCHANGED header
  <2>1. FilesOK'
    BY <1>2 DEF HeaderRule, MakeInv, FilesOK
  <2>2. make'.step = "compile" /\ make'.class = make.class /\ make'.subtype = make.subtype
    BY <1>2 DEF MakeTypeOK, MakeSet
  <2>3. Accepted(make.class, make.subtype)'
    BY <2>2 DEF HeaderRule, MakeInv, StepsOK, Accepted, fixed
  <2>4. StepsOK'
    BY <1>2, <2>2, <2>3 DEF HeaderRule, MakeInv, StepsOK
  <2> QED  BY <1>1, <2>1, <2>4 DEF MakeInv
<1>3. CASE header' = NoHeader /\ make' = [make EXCEPT !.step = "config"]
  <2>1. FilesOK'
    BY <1>3 DEF FilesOK, NoHeader
  <2>2. StepsOK'
    BY <1>3, StepsRest DEF MakeTypeOK, MakeSet
  <2> QED  BY <1>1, <2>1, <2>2 DEF MakeInv
<1> QED  BY <1>2, <1>3 DEF HeaderRule

LEMMA StepCompile == ASSUME MakeTypeOK, MakeInv, Compile PROVE MakeInv'
<1>1. BinaryIsItsClass'
  BY ProgramStays DEF Compile, MakeInv
<1>2. CASE objects.new /\ make' = [make EXCEPT !.step = "link"] /\ UNCHANGED objects
  <2>1. FilesOK'
    BY <1>2 DEF Compile, MakeInv, FilesOK
  <2>2. make'.step = "link" /\ make'.class = make.class /\ make'.subtype = make.subtype
    BY <1>2 DEF MakeTypeOK, MakeSet
  <2>3. Accepted(make.class, make.subtype)'
    BY <2>2 DEF Compile, MakeInv, StepsOK, Accepted, fixed
  <2>4. StepsOK'
    BY <1>2, <2>2, <2>3 DEF Compile, MakeInv, StepsOK
  <2> QED  BY <1>1, <2>1, <2>4 DEF MakeInv
<1>3. CASE objects' = NoObjects /\ make' = [make EXCEPT !.step = "compiling"]
  <2>1. FilesOK'
    BY <1>3 DEF Compile, MakeInv, FilesOK, NoObjects
  <2>2. make'.step = "compiling" /\ make'.class = make.class /\ make'.subtype = make.subtype
    BY <1>3 DEF MakeTypeOK, MakeSet
  <2>3. Accepted(make.class, make.subtype)'
    BY <2>2 DEF Compile, MakeInv, StepsOK, Accepted, fixed
  <2>4. StepsOK'
    BY <2>2, <2>3 DEF Compile, MakeInv, StepsOK
  <2> QED  BY <1>1, <2>1, <2>4 DEF MakeInv
<1> QED  BY <1>2, <1>3 DEF Compile

LEMMA StepCompiled == ASSUME MakeTypeOK, MakeInv, Compiled PROVE MakeInv'
<1>1. BinaryIsItsClass'
  BY ProgramStays DEF Compiled, MakeInv
<1>2. /\ objects'.class = header.class /\ objects'.subtype = header.subtype
      /\ objects'.def = header.def /\ objects'.complete = header.complete /\ objects'.new
      /\ UNCHANGED <<fixed, makeDef, header>>
  BY DEF Compiled
<1>3. FilesOK'
  BY <1>2 DEF MakeInv, FilesOK
<1>4. make'.step = "link" /\ make'.class = make.class /\ make'.subtype = make.subtype
  BY DEF Compiled, MakeTypeOK, MakeSet
<1>5. Accepted(make.class, make.subtype)'
  BY <1>4 DEF Compiled, MakeInv, StepsOK, Accepted, fixed
<1>6. StepsOK'
  BY <1>2, <1>4, <1>5 DEF Compiled, MakeInv, StepsOK
<1> QED  BY <1>1, <1>3, <1>6 DEF MakeInv

\* What is linked was made on the way that StepsOK describes.
LEMMA StepLink == ASSUME MakeTypeOK, MakeInv, Link PROVE MakeInv'
<1>1. FilesOK'
  BY DEF Link, MakeInv, FilesOK
<1>2. StepsOK'
  BY StepsRest DEF Link, Idle
<1>3. header.class = make.class /\ header.subtype = make.subtype /\ header.new /\ objects.new
  BY DEF Link, MakeInv, StepsOK
<1>4. make.class # "X"
  BY AcceptedAreWritten DEF Link, MakeInv, StepsOK, MakeTypeOK
<1>5. /\ objects.class = make.class /\ objects.subtype = make.subtype
      /\ objects.def = makeDef /\ objects.complete
  BY <1>3, <1>4 DEF MakeInv, FilesOK
<1>6. program'.name = <<make.class, make.subtype>> /\ program'.from = objects /\ makeDef' = makeDef
  BY DEF Link
<1>7. BinaryIsItsClass'
  BY <1>5, <1>6 DEF BinaryIsItsClass
<1> QED  BY <1>1, <1>2, <1>7 DEF MakeInv

\* Interruptions, and what is done between two runs of make.
LEMMA StepBetween ==
  ASSUME MakeTypeOK, MakeInv, Interrupt \/ EditMakeDef \/ Clean
  PROVE  MakeInv'
<1>1. StepsOK'
  BY StepsRest DEF Interrupt, EditMakeDef, Clean, Idle
<1>2. CASE Interrupt
  <2>1. BinaryIsItsClass'
    BY <1>2, ProgramStays DEF Interrupt, MakeInv
  <2>2. FilesOK'
    BY <1>2 DEF Interrupt, MakeInv, FilesOK, NoHeader
  <2> QED  BY <1>1, <2>1, <2>2 DEF MakeInv
<1>3. CASE EditMakeDef
  <2>1. /\ header'.class = header.class /\ header'.subtype = header.subtype /\ header'.def = header.def
        /\ header'.complete = header.complete /\ ~header'.new /\ UNCHANGED objects
    BY <1>3 DEF EditMakeDef, MakeTypeOK, HeaderSet
  <2>2. FilesOK'
    BY <2>1 DEF MakeInv, FilesOK
  <2> QED  BY <1>1, <1>3, <2>2, NoProgramStays DEF EditMakeDef, MakeInv
<1>4. CASE Clean
  <2>1. FilesOK'
    BY <1>4 DEF Clean, FilesOK, NoHeader
  <2> QED  BY <1>1, <1>4, <2>1, NoProgramStays DEF Clean, MakeInv
<1> QED  BY <1>2, <1>3, <1>4

LEMMA MakeInvStep == MakeTypeOK /\ MakeInv /\ [MakeNext]_svars => MakeInv'
<1> SUFFICES ASSUME MakeTypeOK, MakeInv, [MakeNext]_svars PROVE MakeInv'
  OBVIOUS
<1>1. CASE UNCHANGED svars
  BY <1>1, ProgramStays DEF svars, MakeInv, FilesOK, StepsOK, Accepted
<1> QED  BY <1>1, StepStartMake, StepConfigure, StepWriteInfo, StepHeaderRule, StepCompile,
            StepCompiled, StepLink, StepBetween DEF MakeNext

-----------------------------------------------------------------------------
\* A program that make has linked is of the class and subtype that its name
\* says, and of the make.def there is, whatever was built, interrupted, changed
\* or failed before (setparams.c, make.common).
THEOREM BinariesAreOfTheirClass == MakeSpec => []BinaryIsItsClass
<1>1. MakeInv => BinaryIsItsClass
  BY DEF MakeInv
<1> QED  BY <1>1, MakeTypeInit, MakeTypeStep, MakeInvInit, MakeInvStep, PTL DEF MakeSpec

-----------------------------------------------------------------------------
(***************************************************************************)
(* The data traffic of DT.                                                 *)
(***************************************************************************)

\* Induction over numbers: a set of them has a least one.
Less == {ss \in Nat \X Nat : ss[1] < ss[2]}

LEMMA LessPair == \A x, y \in Nat : x < y => <<x, y>> \in Less
BY DEF Less

LEMMA LeastNumber ==
  ASSUME NEW T \in SUBSET Nat, T # {}
  PROVE  \E x \in T : \A y \in T : x <= y
<1>1. Less = OpToRel(<, Nat)
  BY DEF Less, OpToRel
<1>2. PICK x \in T : \A y \in T : ~(<<y, x>> \in Less)
  BY <1>1, NatLessThanWellFounded, WFMin
<1>3. ASSUME NEW y \in T PROVE x <= y
  <2>1. x \in Nat /\ y \in Nat
    OBVIOUS
  <2>2. ~(<<y, x>> \in Less)
    BY <1>2
  <2>3. ~(y < x)
    BY <2>1, <2>2, LessPair
  <2> QED  BY <2>1, <2>3
<1> QED  BY <1>3

-----------------------------------------------------------------------------
(* The graph.                                                              *)

Arcs == DOMAIN dg.arc
TailOf(a) == IdOf(dg, dg.arc[a].tail)
HeadOf(a) == IdOf(dg, dg.arc[a].head)
In(p) == inArc(dg, NodeOf(p))
Out(p) == outArc(dg, NodeOf(p))

\* A node is the one its number tells.
LEMMA NumberOfNode ==
  ASSUME WellOrdered(dg)
  PROVE  /\ 0 \in Procs /\ Procs \subseteq Nat
         /\ \A p \in Procs : NodeOf(p) \in Names(dg) /\ IdOf(dg, NodeOf(p)) = p
         /\ \A nm \in Names(dg) : IdOf(dg, nm) \in Procs /\ NodeOf(IdOf(dg, nm)) = nm
<1>1. dg.node \in Seq(Names(dg)) /\ dg.node # <<>> /\ IsInjective(dg.node)
  BY DEF WellOrdered
<1>2. Len(dg.node) \in Nat \ {0} /\ DOMAIN dg.node = 1 .. Len(dg.node)
  BY <1>1
<1>3. 0 \in Procs /\ Procs \subseteq Nat
  BY <1>2 DEF Procs
<1>4. ASSUME NEW p \in Procs PROVE NodeOf(p) \in Names(dg) /\ IdOf(dg, NodeOf(p)) = p
  <2>1. p + 1 \in DOMAIN dg.node /\ (p + 1) - 1 = p
    BY <1>2 DEF Procs
  <2>2. NodeOf(p) \in Names(dg)
    BY <2>1 DEF NodeOf, Names, Range
  <2>3. (CHOOSE i \in DOMAIN dg.node : dg.node[i] = dg.node[p + 1]) = p + 1
    BY <1>1, <2>1 DEF IsInjective
  <2> QED  BY <2>1, <2>2, <2>3 DEF IdOf, NodeOf
<1>5. ASSUME NEW nm \in Names(dg) PROVE IdOf(dg, nm) \in Procs /\ NodeOf(IdOf(dg, nm)) = nm
  <2> DEFINE i == CHOOSE i \in DOMAIN dg.node : dg.node[i] = nm
  <2>1. i \in DOMAIN dg.node /\ dg.node[i] = nm
    BY DEF Names, Range
  <2>2. i - 1 \in Procs /\ (i - 1) + 1 = i
    BY <1>2, <2>1 DEF Procs
  <2> QED  BY <2>1, <2>2 DEF IdOf, NodeOf
<1> QED  BY <1>3, <1>4, <1>5

\* Arcs and the processes at their ends.
LEMMA ArcsOfProcs ==
  ASSUME WellOrdered(dg)
  PROVE  /\ Arcs = 1 .. Len(dg.arc) /\ Len(dg.arc) \in Nat
         /\ \A a \in Arcs : /\ TailOf(a) \in Procs /\ HeadOf(a) \in Procs /\ TailOf(a) < HeadOf(a)
                            /\ a \in Range(Out(TailOf(a))) /\ a \in Range(In(HeadOf(a)))
         /\ \A p \in Procs : /\ In(p) \in Seq(Arcs) /\ Out(p) \in Seq(Arcs)
                             /\ \A a \in Range(In(p)) : a \in Arcs /\ HeadOf(a) = p
                             /\ \A a \in Range(Out(p)) : a \in Arcs /\ TailOf(a) = p
                             /\ IsInjective(Out(p))
                             /\ \A j \in DOMAIN In(p) : \A i \in 1 .. j - 1 : TailOf(In(p)[i]) < TailOf(In(p)[j])
                             /\ KindOf(p) = "Sink" => Out(p) = <<>>
         /\ KindOf(0) # "Sink"
<1> USE NumberOfNode
<1>1. dg.arc \in Seq([tail : Names(dg), head : Names(dg)])
  BY DEF WellOrdered
<1>2. Arcs = 1 .. Len(dg.arc) /\ Len(dg.arc) \in Nat
  BY <1>1 DEF Arcs
<1>3. \A a \in Arcs : dg.arc[a].tail \in Names(dg) /\ dg.arc[a].head \in Names(dg)
  <2>1. ASSUME NEW a \in Arcs PROVE dg.arc[a] \in [tail : Names(dg), head : Names(dg)]
    BY <1>1, <1>2, ElementOfSeq
  <2> QED  BY <2>1
<1>4. ASSUME NEW a \in Arcs
      PROVE  /\ TailOf(a) \in Procs /\ HeadOf(a) \in Procs /\ TailOf(a) < HeadOf(a)
             /\ a \in Range(Out(TailOf(a))) /\ a \in Range(In(HeadOf(a)))
  <2>1. TailOf(a) \in Procs /\ HeadOf(a) \in Procs
    BY <1>3 DEF TailOf, HeadOf
  <2>2. TailOf(a) < HeadOf(a)
    BY DEF WellOrdered, TailOf, HeadOf, Arcs
  <2>3. NodeOf(TailOf(a)) = dg.arc[a].tail /\ NodeOf(HeadOf(a)) = dg.arc[a].head
    BY <1>3 DEF TailOf, HeadOf
  <2>4. /\ Range(inArc(dg, dg.arc[a].head)) = {b \in DOMAIN dg.arc : dg.arc[b].head = dg.arc[a].head}
        /\ Range(outArc(dg, dg.arc[a].tail)) = {b \in DOMAIN dg.arc : dg.arc[b].tail = dg.arc[a].tail}
    BY <1>3 DEF WellOrdered
  <2> QED  BY <2>1, <2>2, <2>3, <2>4 DEF In, Out, Arcs
<1>5. ASSUME NEW p \in Procs
      PROVE  /\ In(p) \in Seq(Arcs) /\ Out(p) \in Seq(Arcs)
             /\ \A a \in Range(In(p)) : a \in Arcs /\ HeadOf(a) = p
             /\ \A a \in Range(Out(p)) : a \in Arcs /\ TailOf(a) = p
             /\ IsInjective(Out(p))
             /\ \A j \in DOMAIN In(p) : \A i \in 1 .. j - 1 : TailOf(In(p)[i]) < TailOf(In(p)[j])
             /\ KindOf(p) = "Sink" => Out(p) = <<>>
  <2> DEFINE nm == NodeOf(p)
  <2>1. nm \in Names(dg) /\ IdOf(dg, nm) = p
    OBVIOUS
  <2>2. /\ inArc(dg, nm) \in Seq(DOMAIN dg.arc) /\ outArc(dg, nm) \in Seq(DOMAIN dg.arc)
        /\ Range(inArc(dg, nm)) = {a \in DOMAIN dg.arc : dg.arc[a].head = nm}
        /\ Range(outArc(dg, nm)) = {a \in DOMAIN dg.arc : dg.arc[a].tail = nm}
        /\ IsInjective(outArc(dg, nm))
        /\ \A j \in DOMAIN inArc(dg, nm) : \A i \in 1 .. j - 1 :
             IdOf(dg, dg.arc[inArc(dg, nm)[i]].tail) < IdOf(dg, dg.arc[inArc(dg, nm)[j]].tail)
        /\ nm[1] = "Sink" => outArc(dg, nm) = <<>>
    BY <2>1 DEF WellOrdered
  <2> HIDE DEF nm
  <2>3. /\ \A a \in Range(In(p)) : a \in Arcs /\ HeadOf(a) = p
        /\ \A a \in Range(Out(p)) : a \in Arcs /\ TailOf(a) = p
    BY <2>1, <2>2 DEF In, Out, Arcs, HeadOf, TailOf, nm
  <2> QED  BY <2>2, <2>3 DEF In, Out, Arcs, TailOf, KindOf, nm
<1>6. KindOf(0) # "Sink"
  BY DEF WellOrdered, KindOf, NodeOf
<1> QED  BY <1>2, <1>4, <1>5, <1>6

\* A node's arcs have two messages each.
LEMMA Halves ==
  ASSUME NEW k \in Nat \ {0}
  PROVE  /\ (k + 1) \div 2 \in Nat \ {0}
         /\ k % 2 \in {0, 1}
         /\ k = 2 * ((k + 1) \div 2) - (k % 2)
OBVIOUS

LEMMA HalvesRange ==
  ASSUME NEW n \in Nat, NEW k \in 1 .. 2 * n
  PROVE  (k + 1) \div 2 \in 1 .. n
OBVIOUS

LEMMA Doubles ==
  ASSUME NEW j \in Nat \ {0}, NEW b \in {0, 1}
  PROVE  /\ 2 * j - b \in Nat \ {0} /\ (2 * j - b + 1) \div 2 = j /\ (2 * j - b) % 2 = b
         /\ \A n \in Nat : j <= n => 2 * j - b \in 1 .. 2 * n
OBVIOUS

-----------------------------------------------------------------------------
(* Messages: that which p sends k-th is what q receives i-th.              *)

ArcIn(q, i) == In(q)[(i + 1) \div 2]
ArcOut(p, k) == Out(p)[(k + 1) \div 2]
PartOf(k) == IF k % 2 = 1 THEN "len" ELSE "val"

Same(p, k, q, i) ==
  /\ KindOf(p) # "Sink" /\ k \in 1 .. Len(ToSend(p)) /\ i \in 1 .. Len(ToReceive(q))
  /\ ArcOut(p, k) = ArcIn(q, i) /\ PartOf(k) = PartOf(i)

LEMMA WhatIsReceived ==
  ASSUME WellOrdered(dg), NEW q \in Procs
  PROVE  /\ Len(In(q)) \in Nat /\ Len(ToReceive(q)) = 2 * Len(In(q))
         /\ \A i \in 1 .. Len(ToReceive(q)) :
              /\ ArcIn(q, i) \in Arcs /\ HeadOf(ArcIn(q, i)) = q
              /\ (i + 1) \div 2 \in DOMAIN In(q)
              /\ ToReceive(q)[i] = [peer |-> TailOf(ArcIn(q, i)), tag |-> ArcIn(q, i) - 1, part |-> PartOf(i)]
<1>1. In(q) \in Seq(Arcs) /\ Len(In(q)) \in Nat
  BY ArcsOfProcs
<1>2. ToReceive(q) = [i \in 1 .. 2 * Len(In(q)) |->
        [peer |-> TailOf(ArcIn(q, i)), tag |-> ArcIn(q, i) - 1, part |-> PartOf(i)]]
  BY DEF ToReceive, Parts, In, TailOf, PartOf, ArcIn
<1>3. Len(ToReceive(q)) = 2 * Len(In(q))
  BY <1>1, <1>2
<1>4. ASSUME NEW i \in 1 .. Len(ToReceive(q))
      PROVE  ArcIn(q, i) \in Arcs /\ HeadOf(ArcIn(q, i)) = q /\ (i + 1) \div 2 \in DOMAIN In(q)
  <2>1. (i + 1) \div 2 \in DOMAIN In(q)
    BY <1>1, <1>3, HalvesRange
  <2>2. ArcIn(q, i) \in Range(In(q))
    BY <2>1 DEF Range, ArcIn
  <2> QED  BY <2>1, <2>2, ArcsOfProcs
<1> QED  BY <1>1, <1>2, <1>3, <1>4

LEMMA SinkSends ==
  ASSUME NEW p, KindOf(p) = "Sink"
  PROVE  Len(ToSend(p)) = 1 /\ ToSend(p)[1] = [peer |-> 0, tag |-> SumTag(p), part |-> "sum"]
<1>1. ToSend(p) = <<[peer |-> 0, tag |-> SumTag(p), part |-> "sum"]>>
  BY DEF ToSend
<1> QED  BY <1>1

LEMMA WhatIsSent ==
  ASSUME WellOrdered(dg), NEW p \in Procs, KindOf(p) # "Sink"
  PROVE  /\ Len(Out(p)) \in Nat /\ Len(ToSend(p)) = 2 * Len(Out(p))
         /\ \A k \in 1 .. Len(ToSend(p)) :
              /\ ArcOut(p, k) \in Arcs /\ TailOf(ArcOut(p, k)) = p
              /\ (k + 1) \div 2 \in DOMAIN Out(p)
              /\ ToSend(p)[k] = [peer |-> HeadOf(ArcOut(p, k)), tag |-> ArcOut(p, k) - 1, part |-> PartOf(k)]
<1>1. Out(p) \in Seq(Arcs) /\ Len(Out(p)) \in Nat
  BY ArcsOfProcs
<1>2. ToSend(p) = [k \in 1 .. 2 * Len(Out(p)) |->
        [peer |-> HeadOf(ArcOut(p, k)), tag |-> ArcOut(p, k) - 1, part |-> PartOf(k)]]
  BY DEF ToSend, Parts, Out, HeadOf, PartOf, ArcOut
<1>3. Len(ToSend(p)) = 2 * Len(Out(p))
  BY <1>1, <1>2
<1>4. ASSUME NEW k \in 1 .. Len(ToSend(p))
      PROVE  ArcOut(p, k) \in Arcs /\ TailOf(ArcOut(p, k)) = p /\ (k + 1) \div 2 \in DOMAIN Out(p)
  <2>1. (k + 1) \div 2 \in DOMAIN Out(p)
    BY <1>1, <1>3, HalvesRange
  <2>2. ArcOut(p, k) \in Range(Out(p))
    BY <2>1 DEF Range, ArcOut
  <2> QED  BY <2>1, <2>2, ArcsOfProcs
<1> QED  BY <1>1, <1>2, <1>3, <1>4

\* What is sent along an arc is awaited somewhere, and what is awaited is sent.
LEMMA SentIsAwaited ==
  ASSUME WellOrdered(dg), NEW p \in Procs, KindOf(p) # "Sink", NEW k \in 1 .. Len(ToSend(p))
  PROVE  /\ ToSend(p)[k].peer \in Procs
         /\ \E i \in 1 .. Len(ToReceive(ToSend(p)[k].peer)) : Same(p, k, ToSend(p)[k].peer, i)
<1> DEFINE a == ArcOut(p, k)
           q == HeadOf(a)
<1>1. /\ a \in Arcs /\ TailOf(a) = p
      /\ ToSend(p)[k] = [peer |-> q, tag |-> a - 1, part |-> PartOf(k)]
  BY WhatIsSent
<1>2. q \in Procs /\ a \in Range(In(q))
  BY <1>1, ArcsOfProcs
<1>3. PICK j \in DOMAIN In(q) : In(q)[j] = a
  BY <1>2 DEF Range
<1>4. In(q) \in Seq(Arcs) /\ Len(In(q)) \in Nat /\ Len(ToReceive(q)) = 2 * Len(In(q))
  BY <1>2, ArcsOfProcs, WhatIsReceived
<1>5. j \in Nat \ {0} /\ j <= Len(In(q))
  BY <1>3, <1>4
<1>6. k % 2 \in {0, 1}
  BY WhatIsSent
<1> HIDE DEF a, q
<1>7. PICK i \in 1 .. Len(ToReceive(q)) : (i + 1) \div 2 = j /\ i % 2 = k % 2
  BY <1>4, <1>5, <1>6, Doubles
<1>8. ArcIn(q, i) = a
  BY <1>3, <1>7 DEF ArcIn
<1>9. Same(p, k, q, i)
  BY <1>7, <1>8 DEF Same, PartOf, a
<1> QED  BY <1>1, <1>2, <1>9

LEMMA AwaitedIsSent ==
  ASSUME WellOrdered(dg), NEW q \in Procs, NEW i \in 1 .. Len(ToReceive(q))
  PROVE  /\ ToReceive(q)[i].peer \in Procs /\ ToReceive(q)[i].peer < q
         /\ KindOf(ToReceive(q)[i].peer) # "Sink"
         /\ \E k \in 1 .. Len(ToSend(ToReceive(q)[i].peer)) : Same(ToReceive(q)[i].peer, k, q, i)
<1> DEFINE a == ArcIn(q, i)
           p == TailOf(a)
<1>1. /\ a \in Arcs /\ HeadOf(a) = q
      /\ ToReceive(q)[i] = [peer |-> p, tag |-> a - 1, part |-> PartOf(i)]
  BY WhatIsReceived
<1>2. p \in Procs /\ a \in Range(Out(p)) /\ p < q
  BY <1>1, ArcsOfProcs
<1>3. PICK j \in DOMAIN Out(p) : Out(p)[j] = a
  BY <1>2 DEF Range
<1>4. KindOf(p) # "Sink"
  BY <1>2, <1>3, ArcsOfProcs
<1>5. Out(p) \in Seq(Arcs) /\ Len(Out(p)) \in Nat /\ Len(ToSend(p)) = 2 * Len(Out(p))
  BY <1>2, <1>4, ArcsOfProcs, WhatIsSent
<1>6. j \in Nat \ {0} /\ j <= Len(Out(p))
  BY <1>3, <1>5
<1>7. i % 2 \in {0, 1}
  BY WhatIsReceived
<1> HIDE DEF a, p
<1>8. PICK k \in 1 .. Len(ToSend(p)) : (k + 1) \div 2 = j /\ k % 2 = i % 2
  BY <1>5, <1>6, <1>7, Doubles
<1>9. ArcOut(p, k) = a
  BY <1>3, <1>8 DEF ArcOut
<1>10. Same(p, k, q, i)
  BY <1>4, <1>8, <1>9 DEF Same, PartOf, a
<1> QED  BY <1>1, <1>2, <1>4, <1>10

\* The two names of a message tell the same of it.
LEMMA SameMessage ==
  ASSUME WellOrdered(dg), NEW p \in Procs, NEW q \in Procs, NEW k, NEW i, Same(p, k, q, i)
  PROVE  /\ k \in 1 .. Len(ToSend(p)) /\ i \in 1 .. Len(ToReceive(q)) /\ KindOf(p) # "Sink"
         /\ ToSend(p)[k].peer = q /\ ToReceive(q)[i].peer = p
         /\ ToSend(p)[k].tag = ToReceive(q)[i].tag /\ ToSend(p)[k].part = ToReceive(q)[i].part
         /\ ToSend(p)[k].part = PartOf(k)
<1>1. /\ k \in 1 .. Len(ToSend(p)) /\ i \in 1 .. Len(ToReceive(q)) /\ KindOf(p) # "Sink"
      /\ ArcOut(p, k) = ArcIn(q, i) /\ PartOf(k) = PartOf(i)
  BY DEF Same
<1>2. /\ ToSend(p)[k] = [peer |-> HeadOf(ArcOut(p, k)), tag |-> ArcOut(p, k) - 1, part |-> PartOf(k)]
      /\ TailOf(ArcOut(p, k)) = p
  BY <1>1, WhatIsSent
<1>3. /\ ToReceive(q)[i] = [peer |-> TailOf(ArcIn(q, i)), tag |-> ArcIn(q, i) - 1, part |-> PartOf(i)]
      /\ HeadOf(ArcIn(q, i)) = q
  BY <1>1, WhatIsReceived
<1> QED  BY <1>1, <1>2, <1>3

\* What one process receives from another keeps its order; it is known by
\* either of its names.
LEMMA SameOrder ==
  ASSUME WellOrdered(dg), NEW p \in Procs, NEW q \in Procs,
         NEW k, NEW i, Same(p, k, q, i), NEW l, NEW j, Same(p, l, q, j)
  PROVE  i \in Nat /\ j \in Nat /\ k \in Nat /\ l \in Nat /\ k - i = l - j
<1>1. /\ k \in 1 .. Len(ToSend(p)) /\ i \in 1 .. Len(ToReceive(q)) /\ KindOf(p) # "Sink"
      /\ ArcOut(p, k) = ArcIn(q, i) /\ PartOf(k) = PartOf(i)
      /\ l \in 1 .. Len(ToSend(p)) /\ j \in 1 .. Len(ToReceive(q))
      /\ ArcOut(p, l) = ArcIn(q, j) /\ PartOf(l) = PartOf(j)
  BY DEF Same
<1>2. /\ In(q) \in Seq(Arcs) /\ Out(p) \in Seq(Arcs) /\ IsInjective(Out(p))
      /\ \A n \in DOMAIN In(q) : \A m \in 1 .. n - 1 : TailOf(In(q)[m]) < TailOf(In(q)[n])
      /\ p \in Nat
  BY ArcsOfProcs, NumberOfNode
<1>3. /\ (i + 1) \div 2 \in DOMAIN In(q) /\ (j + 1) \div 2 \in DOMAIN In(q)
      /\ Len(ToReceive(q)) = 2 * Len(In(q)) /\ Len(In(q)) \in Nat
  BY <1>1, WhatIsReceived
<1>4. /\ (k + 1) \div 2 \in DOMAIN Out(p) /\ (l + 1) \div 2 \in DOMAIN Out(p)
      /\ Len(ToSend(p)) = 2 * Len(Out(p)) /\ Len(Out(p)) \in Nat
      /\ TailOf(ArcOut(p, k)) = p /\ TailOf(ArcOut(p, l)) = p
  BY <1>1, WhatIsSent
<1>5. i \in Nat \ {0} /\ j \in Nat \ {0} /\ k \in Nat \ {0} /\ l \in Nat \ {0}
  BY <1>1, <1>3, <1>4, SMTT(60)
<1>6. (i + 1) \div 2 = (j + 1) \div 2
  <2>1. ~(p < p)
    BY <1>2
  <2>2. TailOf(In(q)[(i + 1) \div 2]) = p /\ TailOf(In(q)[(j + 1) \div 2]) = p
    BY <1>1, <1>4 DEF ArcIn
  <2>3. ~((i + 1) \div 2 \in 1 .. (j + 1) \div 2 - 1) /\ ~((j + 1) \div 2 \in 1 .. (i + 1) \div 2 - 1)
    BY <1>2, <1>3, <2>1, <2>2
  <2>4. (i + 1) \div 2 \in Nat \ {0} /\ (j + 1) \div 2 \in Nat \ {0}
    BY <1>5, Halves
  <2> QED  BY <2>3, <2>4
<1>7. Out(p)[(k + 1) \div 2] = Out(p)[(l + 1) \div 2]
  BY <1>1, <1>6 DEF ArcIn, ArcOut
<1>8. (k + 1) \div 2 = (l + 1) \div 2
  BY <1>2, <1>4, <1>7 DEF IsInjective
<1>9. k % 2 = i % 2 /\ l % 2 = j % 2
  <2>1. k % 2 \in {0, 1} /\ i % 2 \in {0, 1} /\ l % 2 \in {0, 1} /\ j % 2 \in {0, 1}
    BY <1>5, Halves
  <2> QED  BY <1>1, <2>1 DEF PartOf
<1>10. /\ k = 2 * ((k + 1) \div 2) - (k % 2) /\ i = 2 * ((i + 1) \div 2) - (i % 2)
       /\ l = 2 * ((l + 1) \div 2) - (l % 2) /\ j = 2 * ((j + 1) \div 2) - (j % 2)
  BY <1>5, Halves
<1> QED  BY <1>5, <1>6, <1>8, <1>9, <1>10

LEMMA SendersInOrder ==
  ASSUME WellOrdered(dg), NEW q \in Procs,
         NEW i \in 1 .. Len(ToReceive(q)), NEW j \in 1 .. Len(ToReceive(q)), i <= j
  PROVE  ToReceive(q)[i].peer <= ToReceive(q)[j].peer
<1>1. /\ In(q) \in Seq(Arcs)
      /\ \A n \in DOMAIN In(q) : \A m \in 1 .. n - 1 : TailOf(In(q)[m]) < TailOf(In(q)[n])
      /\ \A a \in Arcs : TailOf(a) \in Nat
  BY ArcsOfProcs, NumberOfNode
<1>2. /\ (i + 1) \div 2 \in DOMAIN In(q) /\ (j + 1) \div 2 \in DOMAIN In(q)
      /\ Len(ToReceive(q)) = 2 * Len(In(q)) /\ Len(In(q)) \in Nat
      /\ ArcIn(q, i) \in Arcs /\ ArcIn(q, j) \in Arcs
      /\ ToReceive(q)[i] = [peer |-> TailOf(ArcIn(q, i)), tag |-> ArcIn(q, i) - 1, part |-> PartOf(i)]
      /\ ToReceive(q)[j] = [peer |-> TailOf(ArcIn(q, j)), tag |-> ArcIn(q, j) - 1, part |-> PartOf(j)]
  BY WhatIsReceived
<1>3. (i + 1) \div 2 <= (j + 1) \div 2 /\ (i + 1) \div 2 \in Nat \ {0} /\ (j + 1) \div 2 \in Nat \ {0}
  BY <1>2
<1>5. CASE (i + 1) \div 2 = (j + 1) \div 2
  BY <1>1, <1>2, <1>5 DEF ArcIn
<1>6. CASE (i + 1) \div 2 \in 1 .. (j + 1) \div 2 - 1
  <2>1. TailOf(In(q)[(i + 1) \div 2]) < TailOf(In(q)[(j + 1) \div 2])
    BY <1>1, <1>2, <1>6
  <2> QED  BY <1>1, <1>2, <2>1 DEF ArcIn
<1> QED  BY <1>3, <1>5, <1>6

-----------------------------------------------------------------------------
(* What is on its way.                                                     *)

\* The k-th message of p has been received.
Got(p, k) ==
  IF KindOf(p) = "Sink" THEN p \in DOMAIN reports
  ELSE \E i \in 1 .. received[ToSend(p)[k].peer] : Same(p, k, ToSend(p)[k].peer, i)

\* What was sent and not received is on its way, and of what waits for its
\* receiver only the last.  A process has received all before it sends; the
\* first has sent all before it asks for the sums.
TypesOK ==
  /\ received \in [Procs -> Nat] /\ sent \in [Procs -> Nat]
  /\ \A p \in Procs : received[p] <= Len(ToReceive(p)) /\ sent[p] <= Len(ToSend(p))
  /\ \A m \in wire : \E p \in Procs : \E k \in 1 .. Len(ToSend(p)) : m = <<p, k>>
  /\ DOMAIN reports \subseteq Sinks

OnItsWay ==
  \A p \in Procs : \A k \in 1 .. Len(ToSend(p)) :
    /\ <<p, k>> \in wire <=> k <= sent[p] /\ ~Got(p, k)
    /\ Got(p, k) => k <= sent[p]
    /\ <<p, k>> \in wire /\ ToSend(p)[k].part \notin run.eager => k = sent[p]

InTurn ==
  /\ \A p \in Procs : sent[p] > 0 => Ready(p)
  /\ DOMAIN reports # {} => AtReport

WireOK == TypesOK /\ OnItsWay /\ InTurn

LEMMA LengthsAreNat ==
  ASSUME WellOrdered(dg), NEW p \in Procs
  PROVE  Len(ToReceive(p)) \in Nat /\ Len(ToSend(p)) \in Nat
BY WhatIsReceived, SinkSends, WhatIsSent

LEMMA WireInit == TrafficInit /\ WellOrdered(dg) => WireOK
<1> SUFFICES ASSUME TrafficInit, WellOrdered(dg) PROVE WireOK
  OBVIOUS
<1>1. /\ received = [p \in Procs |-> 0] /\ sent = [p \in Procs |-> 0]
      /\ wire = {} /\ reports = <<>>
  BY DEF TrafficInit
<1>2. DOMAIN reports = {}
  BY <1>1
<1>3. TypesOK
  BY <1>1, <1>2, LengthsAreNat DEF TypesOK
<1>4. OnItsWay
  <2> SUFFICES ASSUME NEW p \in Procs, NEW k \in 1 .. Len(ToSend(p)) PROVE ~(k <= sent[p]) /\ ~Got(p, k)
    BY <1>1 DEF OnItsWay
  <2>1. ~(k <= sent[p])
    BY <1>1
  <2>2. CASE KindOf(p) = "Sink"
    BY <1>2, <2>1, <2>2 DEF Got
  <2>3. CASE KindOf(p) # "Sink"
    <3>1. received[ToSend(p)[k].peer] = 0
      BY <1>1, <2>3, SentIsAwaited
    <3> QED  BY <2>1, <2>3, <3>1 DEF Got
  <2> QED  BY <2>2, <2>3
<1>5. InTurn
  BY <1>1, <1>2 DEF InTurn
<1> QED  BY <1>3, <1>4, <1>5 DEF WireOK

\* The graph stays what it is.
LEMMA SameGraph ==
  ASSUME dg' = dg
  PROVE  /\ Procs' = Procs /\ Sinks' = Sinks
         /\ \A p : /\ ToSend(p)' = ToSend(p) /\ ToReceive(p)' = ToReceive(p)
                   /\ KindOf(p)' = KindOf(p)
         /\ \A p, k, q, i : Same(p, k, q, i)' <=> Same(p, k, q, i)
         /\ WellOrdered(dg)' <=> WellOrdered(dg)
<1>1. Procs' = Procs
  BY DEF Procs
<1>2. ASSUME NEW p PROVE NodeOf(p)' = NodeOf(p)
  BY DEF NodeOf
<1>3. ASSUME NEW p PROVE KindOf(p)' = KindOf(p)
  BY <1>2 DEF KindOf
<1>4. Sinks' = Sinks
  BY <1>1, <1>3 DEF Sinks
<1>5. ASSUME NEW p PROVE In(p)' = In(p) /\ Out(p)' = Out(p)
  BY <1>2 DEF In, Out, inArc, outArc
<1>6. ASSUME NEW a PROVE TailOf(a)' = TailOf(a) /\ HeadOf(a)' = HeadOf(a)
  BY DEF TailOf, HeadOf, IdOf
<1>7. ASSUME NEW p PROVE ToReceive(p)' = ToReceive(p)
  BY <1>2 DEF ToReceive, Parts, inArc, IdOf
<1>8. ASSUME NEW p PROVE ToSend(p)' = ToSend(p)
  BY <1>2, <1>3 DEF ToSend, Parts, outArc, IdOf, SumTag
<1>9. ASSUME NEW p, NEW k PROVE ArcIn(p, k)' = ArcIn(p, k) /\ ArcOut(p, k)' = ArcOut(p, k)
  BY <1>5 DEF ArcIn, ArcOut
<1>10. ASSUME NEW p, NEW k, NEW q, NEW i PROVE Same(p, k, q, i)' <=> Same(p, k, q, i)
  BY <1>3, <1>7, <1>8, <1>9 DEF Same
<1>11. WellOrdered(dg)' <=> WellOrdered(dg)
  OBVIOUS
<1> QED  BY <1>1, <1>3, <1>4, <1>7, <1>8, <1>10, <1>11

\* What was received stays so while nothing is received.
LEMMA GotSame ==
  ASSUME WellOrdered(dg), dg' = dg, received' = received, DOMAIN reports' = DOMAIN reports
  PROVE  \A p, k : Got(p, k)' <=> Got(p, k)
<1> SUFFICES ASSUME NEW p, NEW k PROVE Got(p, k)' <=> Got(p, k)
  OBVIOUS
<1> DEFINE q == ToSend(p)[k].peer
<1>1. KindOf(p)' = KindOf(p) /\ q' = q
  BY SameGraph
<1>2. \A i : Same(p, k, q, i)' <=> Same(p, k, q, i)
  BY SameGraph
<1> HIDE DEF q
<1>3. /\ Got(p, k) <=> IF KindOf(p) = "Sink" THEN p \in DOMAIN reports
                       ELSE \E i \in 1 .. received[q] : Same(p, k, q, i)
      /\ Got(p, k)' <=> IF KindOf(p)' = "Sink" THEN p \in DOMAIN reports'
                        ELSE \E i \in 1 .. received'[q'] : Same(p, k, q, i)'
  BY DEF Got, q
<1> QED  BY <1>1, <1>2, <1>3

LEMMA SendStep ==
  ASSUME WellOrdered(dg), WireOK, NEW p \in Procs, Send(p)
  PROVE  WireOK'
<1> USE SameGraph DEF setting
<1>1. /\ Ready(p) /\ ~Blocked(p) /\ sent[p] < Len(ToSend(p)) /\ (p = 0 => DOMAIN reports = {})
      /\ sent' = [sent EXCEPT ![p] = @ + 1] /\ wire' = wire \cup {<<p, sent[p] + 1>>}
      /\ dg' = dg /\ run' = run /\ received' = received /\ reports' = reports
  BY DEF Send
<1>2. TypesOK /\ OnItsWay /\ InTurn
  BY DEF WireOK
<1>3. sent[p] \in Nat /\ Len(ToSend(p)) \in Nat
  BY <1>2, LengthsAreNat DEF TypesOK
<1>4. TypesOK'
  <2>1. sent' \in [Procs -> Nat] /\ \A q \in Procs : sent'[q] <= Len(ToSend(q))
    BY <1>1, <1>2, <1>3 DEF TypesOK
  <2>2. sent[p] + 1 \in 1 .. Len(ToSend(p))
    BY <1>1, <1>3
  <2>3. \A m \in wire' : \E q \in Procs : \E k \in 1 .. Len(ToSend(q)) : m = <<q, k>>
    BY <1>1, <1>2, <2>2 DEF TypesOK
  <2> QED  BY <1>1, <1>2, <2>1, <2>3 DEF TypesOK
<1>5. OnItsWay'
  <2>0. \A q, k : (Got(q, k)' <=> Got(q, k)) /\ ToSend(q)' = ToSend(q)
    BY <1>1, GotSame
  <2> SUFFICES ASSUME NEW q \in Procs, NEW k \in 1 .. Len(ToSend(q))
               PROVE  /\ <<q, k>> \in wire' <=> k <= sent'[q] /\ ~Got(q, k)
                      /\ Got(q, k) => k <= sent'[q]
                      /\ <<q, k>> \in wire' /\ ToSend(q)[k].part \notin run.eager => k = sent'[q]
    BY <1>1, <2>0 DEF OnItsWay
  <2>1. /\ <<q, k>> \in wire <=> k <= sent[q] /\ ~Got(q, k)
        /\ Got(q, k) => k <= sent[q]
        /\ <<q, k>> \in wire /\ ToSend(q)[k].part \notin run.eager => k = sent[q]
    BY <1>2 DEF OnItsWay
  <2>2. CASE q # p
    BY <1>1, <2>1, <2>2
  <2>3. CASE q = p
    <3>1. sent'[p] = sent[p] + 1
      BY <1>1, <1>2 DEF TypesOK
    <3>2. <<p, k>> \in wire' <=> <<p, k>> \in wire \/ k = sent[p] + 1
      BY <1>1
    <3>3. <<p, k>> \in wire => ToSend(p)[k].part \in run.eager
      BY <1>1 DEF Blocked, Message
    <3>4. k \in Nat
      BY <1>3, <2>3
    <3> QED  BY <1>3, <2>1, <2>3, <3>1, <3>2, <3>3, <3>4
  <2> QED  BY <2>2, <2>3
<1>6. InTurn'
  <2>1. \A q \in Procs : Ready(q)' = Ready(q)
    BY <1>1 DEF Ready
  <2>2. \A q \in Procs : sent'[q] > 0 => Ready(q)'
    BY <1>1, <1>2, <2>1 DEF InTurn, TypesOK
  <2>3. ASSUME DOMAIN reports' # {} PROVE AtReport'
    <3>1. p # 0 /\ AtReport
      BY <1>1, <1>2, <2>3 DEF InTurn
    <3>2. 0 \in Procs /\ Ready(0)' /\ sent'[0] = Len(ToSend(0))
      BY <1>1, <1>2, <2>1, <3>1, NumberOfNode DEF AtReport, TypesOK
    <3>3. ASSUME NEW m \in wire', m[1] = 0, Message(m)'.part \notin run.eager PROVE FALSE
      <4>1. m \in wire /\ Message(m)' = Message(m)
        BY <1>1, <3>1, <3>3 DEF Message
      <4> QED  BY <3>1, <3>3, <4>1 DEF AtReport, Blocked
    <3> QED  BY <1>1, <3>2, <3>3 DEF AtReport, Blocked
  <2> QED  BY <1>1, <2>2, <2>3 DEF InTurn
<1> QED  BY <1>4, <1>5, <1>6 DEF WireOK

\* What a process receives next is the message that its sender sent of it.
LEMMA ReceivedInOrder ==
  ASSUME WellOrdered(dg), WireOK, NEW p \in Procs, ~Ready(p),
         NEW m \in Matching(p, ToReceive(p)[received[p] + 1])
  PROVE  \E x \in Procs : \E k \in 1 .. Len(ToSend(x)) :
           m = <<x, k>> /\ m \in wire /\ Same(x, k, p, received[p] + 1)
<1> DEFINE i == received[p] + 1
           want == ToReceive(p)[i]
           x == want.peer
<1>1. TypesOK /\ OnItsWay
  BY DEF WireOK
<1>2. i \in 1 .. Len(ToReceive(p)) /\ i \in Nat /\ received[p] \in Nat /\ i = received[p] + 1
  BY <1>1, LengthsAreNat DEF TypesOK, Ready
<1> HIDE DEF i
<1>3. x \in Procs /\ KindOf(x) # "Sink"
  BY <1>2, AwaitedIsSent
<1>4. PICK k0 \in 1 .. Len(ToSend(x)) : Same(x, k0, p, i)
  BY <1>2, AwaitedIsSent
<1>5. m \in wire /\ m[1] = x /\ Message(m).peer = p
  BY DEF Matching, i
<1>6. PICK k \in 1 .. Len(ToSend(x)) : m = <<x, k>>
  BY <1>1, <1>5, SMTT(60) DEF TypesOK
<1>7. ToSend(x)[k].peer = p
  BY <1>5, <1>6 DEF Message
<1>8. PICK j \in 1 .. Len(ToReceive(p)) : Same(x, k, p, j)
  BY <1>3, <1>6, <1>7, SentIsAwaited
<1>9. j \in Nat /\ k \in Nat /\ k0 \in Nat /\ k - j = k0 - i
  BY <1>3, <1>4, <1>8, SameOrder
<1>10. k <= sent[x] /\ ~Got(x, k) /\ sent[x] \in Nat
  BY <1>1, <1>3, <1>5, <1>6, SMTT(60) DEF OnItsWay, TypesOK
<1>11. ~(j \in 1 .. received[p])
  BY <1>3, <1>7, <1>8, <1>10 DEF Got
<1>12. k0 <= k
  BY <1>2, <1>8, <1>9, <1>11, SMTT(60)
<1>13. ToSend(x)[k0].peer = p /\ ToSend(x)[k0].tag = want.tag
  BY <1>3, <1>4, SameMessage
<1>14. ~Got(x, k0)
  <2> SUFFICES ASSUME NEW j0 \in 1 .. received[p], Same(x, k0, p, j0) PROVE FALSE
    BY <1>3, <1>13 DEF Got
  <2>1. j0 \in Nat /\ k0 - j0 = k0 - i
    BY <1>3, <1>4, SameOrder
  <2> QED  BY <1>2, <1>9, <2>1
<1>15. <<x, k0>> \in wire
  BY <1>1, <1>3, <1>9, <1>10, <1>12, <1>14, SMTT(60) DEF OnItsWay
<1>16. k <= k0
  BY <1>5, <1>6, <1>13, <1>15, SMTT(60) DEF Matching, Message, i
<1>17. k = k0
  BY <1>9, <1>12, <1>16
<1> QED  BY <1>3, <1>4, <1>5, <1>6, <1>17 DEF i

LEMMA ReceiveStep ==
  ASSUME WellOrdered(dg), WireOK, NEW p \in Procs, Receive(p)
  PROVE  WireOK'
<1> USE SameGraph DEF setting
<1> DEFINE i == received[p] + 1
<1>1. PICK m \in Matching(p, ToReceive(p)[i]) : wire' = wire \ {m}
  BY DEF Receive
<1>2. /\ ~Ready(p) /\ received' = [received EXCEPT ![p] = @ + 1]
      /\ dg' = dg /\ run' = run /\ sent' = sent /\ reports' = reports
  BY DEF Receive
<1>3. TypesOK /\ OnItsWay /\ InTurn
  BY DEF WireOK
<1>4. PICK x \in Procs : \E k \in 1 .. Len(ToSend(x)) : m = <<x, k>> /\ m \in wire /\ Same(x, k, p, i)
  BY <1>1, <1>2, ReceivedInOrder
<1>5. PICK k \in 1 .. Len(ToSend(x)) : m = <<x, k>> /\ m \in wire /\ Same(x, k, p, i)
  BY <1>4
<1>6. /\ i \in 1 .. Len(ToReceive(p)) /\ i \in Nat /\ received[p] \in Nat /\ i = received[p] + 1
      /\ received'[p] = i /\ \A q \in Procs \ {p} : received'[q] = received[q]
  BY <1>2, <1>3, LengthsAreNat DEF TypesOK, Ready
<1>7. KindOf(x) # "Sink" /\ ToSend(x)[k].peer = p /\ ToReceive(p)[i].peer = x
  BY <1>5, SameMessage
<1> HIDE DEF i
<1>8. TypesOK'
  BY <1>1, <1>2, <1>3, <1>6, SMTT(60) DEF TypesOK
\* Nothing else is received by this.
<1>9. ASSUME NEW y \in Procs, NEW l \in 1 .. Len(ToSend(y))
      PROVE  Got(y, l)' <=> Got(y, l) \/ <<y, l>> = <<x, k>>
  <2> DEFINE q == ToSend(y)[l].peer
  <2>1. KindOf(y)' = KindOf(y) /\ q' = q /\ \A j : Same(y, l, q, j)' <=> Same(y, l, q, j)
    BY <1>2
  <2>2. CASE KindOf(y) = "Sink"
    <3>1. y # x
      BY <1>7, <2>2
    <3> QED  BY <1>2, <2>1, <2>2, <3>1 DEF Got
  <2>3. CASE KindOf(y) # "Sink"
    <3>1. q \in Procs
      BY <2>3, SentIsAwaited
    <3> HIDE DEF q
    <3>2. /\ Got(y, l) <=> \E j \in 1 .. received[q] : Same(y, l, q, j)
          /\ Got(y, l)' <=> \E j \in 1 .. received'[q'] : Same(y, l, q, j)'
      BY <2>1, <2>3 DEF Got, q
    <3>3. CASE q # p
      <4>1. <<y, l>> # <<x, k>>
        BY <1>7, <3>3 DEF q
      <4> QED  BY <1>6, <2>1, <3>1, <3>2, <3>3, <4>1
    <3>4. CASE q = p
      <4>1. Same(y, l, p, i) <=> <<y, l>> = <<x, k>>
        <5>1. ASSUME Same(y, l, p, i) PROVE y = x /\ l = k
          <6>1. y = x
            BY <1>7, <5>1, SameMessage
          <6>2. k \in Nat /\ l \in Nat /\ k - i = l - i
            BY <1>5, <5>1, <6>1, SameOrder
          <6> QED  BY <1>6, <6>1, <6>2
        <5> QED  BY <1>5, <5>1
      <4>2. 1 .. i = (1 .. received[p]) \cup {i}
        BY <1>6
      <4> QED  BY <1>6, <2>1, <3>2, <3>4, <4>1, <4>2
    <3> QED  BY <3>3, <3>4
  <2> QED  BY <2>2, <2>3
<1>10. OnItsWay'
  <2>0. Procs' = Procs /\ \A q : ToSend(q)' = ToSend(q)
    BY <1>2
  <2> SUFFICES ASSUME NEW y \in Procs, NEW l \in 1 .. Len(ToSend(y))
               PROVE  /\ <<y, l>> \in wire' <=> l <= sent[y] /\ ~Got(y, l)'
                      /\ Got(y, l)' => l <= sent[y]
                      /\ <<y, l>> \in wire' /\ ToSend(y)[l].part \notin run.eager => l = sent[y]
    BY <1>2, <2>0 DEF OnItsWay
  <2>1. /\ <<y, l>> \in wire <=> l <= sent[y] /\ ~Got(y, l)
        /\ Got(y, l) => l <= sent[y]
        /\ <<y, l>> \in wire /\ ToSend(y)[l].part \notin run.eager => l = sent[y]
    BY <1>3 DEF OnItsWay
  <2>2. <<y, l>> \in wire' <=> <<y, l>> \in wire /\ <<y, l>> # <<x, k>>
    BY <1>1, <1>5
  <2> QED  BY <1>5, <1>9, <2>1, <2>2
<1>11. InTurn'
  <2>1. \A q \in Procs : q # p => (Ready(q)' <=> Ready(q))
    BY <1>2, <1>6 DEF Ready
  <2>2. sent[p] \in Nat /\ ~(sent[p] > 0)
    BY <1>2, <1>3 DEF InTurn, TypesOK
  <2>3. \A q \in Procs : sent'[q] > 0 => Ready(q)'
    BY <1>2, <1>3, <2>1, <2>2 DEF InTurn
  <2>4. ASSUME DOMAIN reports' # {} PROVE AtReport'
    <3>1. AtReport /\ p # 0
      BY <1>2, <1>3, <2>4 DEF InTurn, AtReport
    <3>2. Ready(0)' /\ sent'[0] = Len(ToSend(0)')
      BY <1>2, <2>1, <3>1, NumberOfNode DEF AtReport
    <3>3. ASSUME NEW n \in wire', n[1] = 0, Message(n)'.part \notin run.eager PROVE FALSE
      <4>1. n \in wire /\ Message(n)' = Message(n)
        BY <1>1, <1>2, <3>3 DEF Message
      <4> QED  BY <3>1, <3>3, <4>1 DEF AtReport, Blocked
    <3> QED  BY <1>2, <3>2, <3>3 DEF AtReport, Blocked
  <2> QED  BY <1>2, <2>3, <2>4 DEF InTurn
<1> QED  BY <1>8, <1>10, <1>11 DEF WireOK

LEMMA ReportStep ==
  ASSUME WellOrdered(dg), WireOK, Report
  PROVE  WireOK'
<1> USE SameGraph DEF setting
<1>0. PICK want \in Awaited(0) :
        \E m \in Matching(0, want) :
          /\ wire' = wire \ {m}
          /\ reports' = [s \in DOMAIN reports \cup {m[1]} |-> IF s = m[1] THEN feat[s].of ELSE reports[s]]
  BY DEF Report
<1>1. PICK m \in Matching(0, want) :
        /\ wire' = wire \ {m}
        /\ reports' = [s \in DOMAIN reports \cup {m[1]} |-> IF s = m[1] THEN feat[s].of ELSE reports[s]]
  BY <1>0
<1>2. /\ AtReport /\ received' = received /\ sent' = sent /\ dg' = dg /\ run' = run
  BY DEF Report
<1>3. TypesOK /\ OnItsWay /\ InTurn
  BY DEF WireOK
<1>4. PICK x \in NextSink : want.peer = x
  BY <1>2 DEF Awaited, AtReport
<1>5. x \in Procs /\ x \in Sinks /\ KindOf(x) = "Sink" /\ Len(ToSend(x)) = 1
  BY <1>4, SinkSends DEF NextSink, Sinks
<1>6. m \in wire /\ m = <<x, 1>>
  <2>1. m \in wire /\ m[1] = x
    BY <1>1, <1>4 DEF Matching
  <2>2. PICK k \in 1 .. Len(ToSend(x)) : m = <<x, k>>
    BY <1>3, <2>1 DEF TypesOK
  <2> QED  BY <1>5, <2>1, <2>2
<1>7. DOMAIN reports' = DOMAIN reports \cup {x}
  BY <1>1, <1>6
<1>8. TypesOK'
  BY <1>1, <1>2, <1>3, <1>5, <1>7 DEF TypesOK
<1>9. ASSUME NEW y \in Procs, NEW l \in 1 .. Len(ToSend(y))
      PROVE  Got(y, l)' <=> Got(y, l) \/ <<y, l>> = <<x, 1>>
  <2> DEFINE q == ToSend(y)[l].peer
  <2>1. KindOf(y)' = KindOf(y) /\ q' = q /\ \A j : Same(y, l, q, j)' <=> Same(y, l, q, j)
    BY <1>2
  <2>2. CASE KindOf(y) = "Sink"
    <3>1. Len(ToSend(y)) = 1
      BY <2>2, SinkSends
    <3>2. l = 1
      BY <3>1
    <3> QED  BY <1>7, <2>1, <2>2, <3>2 DEF Got
  <2>3. CASE KindOf(y) # "Sink"
    <3>1. y # x
      BY <1>5, <2>3
    <3> HIDE DEF q
    <3>2. /\ Got(y, l) <=> \E j \in 1 .. received[q] : Same(y, l, q, j)
          /\ Got(y, l)' <=> \E j \in 1 .. received'[q'] : Same(y, l, q, j)'
      BY <2>1, <2>3 DEF Got, q
    <3> QED  BY <1>2, <2>1, <3>1, <3>2
  <2> QED  BY <2>2, <2>3
<1>10. OnItsWay'
  <2>0. Procs' = Procs /\ \A q : ToSend(q)' = ToSend(q)
    BY <1>2
  <2> SUFFICES ASSUME NEW y \in Procs, NEW l \in 1 .. Len(ToSend(y))
               PROVE  /\ <<y, l>> \in wire' <=> l <= sent[y] /\ ~Got(y, l)'
                      /\ Got(y, l)' => l <= sent[y]
                      /\ <<y, l>> \in wire' /\ ToSend(y)[l].part \notin run.eager => l = sent[y]
    BY <1>2, <2>0 DEF OnItsWay
  <2>1. /\ <<y, l>> \in wire <=> l <= sent[y] /\ ~Got(y, l)
        /\ Got(y, l) => l <= sent[y]
        /\ <<y, l>> \in wire /\ ToSend(y)[l].part \notin run.eager => l = sent[y]
    BY <1>3 DEF OnItsWay
  <2>2. <<y, l>> \in wire' <=> <<y, l>> \in wire /\ <<y, l>> # <<x, 1>>
    BY <1>1, <1>6
  <2> QED  BY <1>6, <1>9, <2>1, <2>2
<1>11. InTurn'
  <2>1. \A q \in Procs : Ready(q)' <=> Ready(q)
    BY <1>2 DEF Ready
  <2>2. \A q \in Procs : sent'[q] > 0 => Ready(q)'
    BY <1>2, <1>3, <2>1 DEF InTurn
  <2>3. AtReport'
    <3>1. Ready(0)' /\ sent'[0] = Len(ToSend(0)')
      BY <1>2, <2>1, NumberOfNode DEF AtReport
    <3>2. ASSUME NEW n \in wire', n[1] = 0, Message(n)'.part \notin run.eager PROVE FALSE
      <4>1. n \in wire /\ Message(n)' = Message(n)
        BY <1>1, <1>2, <3>2 DEF Message
      <4> QED  BY <1>2, <3>2, <4>1 DEF AtReport, Blocked
    <3> QED  BY <1>2, <3>1, <3>2 DEF AtReport, Blocked
  <2> QED  BY <1>2, <2>2, <2>3 DEF InTurn
<1> QED  BY <1>8, <1>10, <1>11 DEF WireOK

-----------------------------------------------------------------------------
(* Who waits for whom.                                                     *)

\* One who waits for his receiver waits for that of the last he sent.
LEMMA BlockedAt ==
  ASSUME WellOrdered(dg), WireOK, NEW p \in Procs, Blocked(p)
  PROVE  /\ Ready(p) /\ sent[p] \in 1 .. Len(ToSend(p)) /\ ~Got(p, sent[p])
         /\ WaitsFor(p) = ToSend(p)[sent[p]].peer /\ WaitsFor(p) \in Procs
<1>1. TypesOK /\ OnItsWay /\ InTurn
  BY DEF WireOK
<1>2. PICK m \in wire : m[1] = p /\ Message(m).part \notin run.eager
  BY DEF Blocked
<1>3. \A n \in wire : n[1] = p /\ Message(n).part \notin run.eager =>
        n = <<p, sent[p]>> /\ sent[p] \in 1 .. Len(ToSend(p)) /\ ~Got(p, sent[p])
  <2> SUFFICES ASSUME NEW n \in wire, n[1] = p, Message(n).part \notin run.eager
               PROVE  n = <<p, sent[p]>> /\ sent[p] \in 1 .. Len(ToSend(p)) /\ ~Got(p, sent[p])
    OBVIOUS
  <2>1. PICK k \in 1 .. Len(ToSend(p)) : n = <<p, k>>
    BY <1>1, SMTT(60) DEF TypesOK
  <2>2. ToSend(p)[k].part \notin run.eager
    BY <2>1 DEF Message
  <2>3. k = sent[p] /\ ~Got(p, k)
    BY <1>1, <2>1, <2>2 DEF OnItsWay
  <2> QED  BY <2>1, <2>3
<1>4. m = <<p, sent[p]>> /\ sent[p] \in 1 .. Len(ToSend(p)) /\ ~Got(p, sent[p])
  BY <1>2, <1>3
<1>5. Ready(p)
  BY <1>1, <1>4 DEF InTurn
<1>6. ToSend(p)[sent[p]].peer \in Procs
  <2>1. CASE KindOf(p) = "Sink"
    <3>1. Len(ToSend(p)) = 1 /\ ToSend(p)[1] = [peer |-> 0, tag |-> SumTag(p), part |-> "sum"]
      BY <2>1, SinkSends
    <3>2. sent[p] = 1 /\ ToSend(p)[1].peer = 0
      BY <1>4, <3>1
    <3> QED  BY <3>2, NumberOfNode
  <2>2. CASE KindOf(p) # "Sink"
    BY <1>4, <2>2, SentIsAwaited
  <2> QED  BY <2>1, <2>2
<1>7. WaitsFor(p) = ToSend(p)[sent[p]].peer
  <2> DEFINE P(q) == \E n \in wire : n[1] = p /\ Message(n).part \notin run.eager /\ Message(n).peer = q
  <2>1. \A q \in Procs : P(q) <=> q = ToSend(p)[sent[p]].peer
    BY <1>2, <1>3, <1>4 DEF Message
  <2>2. WaitsFor(p) = CHOOSE q \in Procs : P(q)
    BY DEF WaitsFor
  <2> HIDE DEF P
  <2> QED  BY <1>6, <2>1, <2>2
<1> QED  BY <1>4, <1>5, <1>6, <1>7

\* What is awaited and on its way can be received.
LEMMA SomeMatch ==
  ASSUME WellOrdered(dg), WireOK, NEW p, NEW want, NEW m \in wire,
         m[1] = want.peer, Message(m).peer = p, Message(m).tag = want.tag
  PROVE  Matching(p, want) # {}
<1> DEFINE match == {n \in wire : n[1] = want.peer /\ Message(n).peer = p /\ Message(n).tag = want.tag}
           T == {n[2] : n \in match}
<1>1. m \in match
  OBVIOUS
<1>2. \A n \in match : n[2] \in Nat
  <2> SUFFICES ASSUME NEW n \in match PROVE n[2] \in Nat
    OBVIOUS
  <2>1. PICK q \in Procs : \E k \in 1 .. Len(ToSend(q)) : n = <<q, k>>
    BY DEF WireOK, TypesOK
  <2>2. PICK k \in 1 .. Len(ToSend(q)) : n = <<q, k>>
    BY <2>1
  <2> QED  BY <2>2, LengthsAreNat
<1>3. Matching(p, want) = {n \in match : \A other \in match : n[2] <= other[2]}
  BY DEF Matching
<1> HIDE DEF match
<1>4. T \in SUBSET Nat /\ T # {}
  BY <1>1, <1>2
<1>5. PICK least \in T : \A y \in T : least <= y
  BY <1>4, LeastNumber
<1>6. PICK n \in match : n[2] = least
  BY <1>5
<1> QED  BY <1>3, <1>5, <1>6

\* A process that waits to receive waits for a sender before it, who has not
\* sent all yet.
Awaits(p, x) ==
  /\ p \in Procs /\ ~Ready(p) /\ WaitsFor(p) = x
  /\ x \in Procs /\ x < p /\ x = ToReceive(p)[received[p] + 1].peer
  /\ KindOf(x) # "Sink" /\ sent[x] < Len(ToSend(x))
  /\ \A k : Same(x, k, p, received[p] + 1) => ~(k <= sent[x])

LEMMA AwaitsSender ==
  ASSUME WellOrdered(dg), WireOK, NEW p \in Procs, ~Ready(p), WaitsFor(p) # p
  PROVE  \E x \in Procs : Awaits(p, x)
<1> DEFINE i == received[p] + 1
           want == ToReceive(p)[i]
           x == want.peer
<1>1. TypesOK /\ OnItsWay
  BY DEF WireOK
<1>2. i \in 1 .. Len(ToReceive(p)) /\ i \in Nat /\ received[p] \in Nat /\ i = received[p] + 1
  BY <1>1, LengthsAreNat DEF TypesOK, Ready
<1>3. Awaited(p) = {want}
  BY DEF Awaited
<1>4. ~Blocked(p)
  BY BlockedAt
<1>5. Matching(p, want) = {} /\ WaitsFor(p) = x
  BY <1>3, <1>4 DEF WaitsFor
<1> HIDE DEF i
<1>6. x \in Procs /\ x < p /\ KindOf(x) # "Sink"
  BY <1>2, AwaitedIsSent
<1>7. ASSUME NEW k, Same(x, k, p, i), k <= sent[x] PROVE FALSE
  <2>1. /\ k \in 1 .. Len(ToSend(x))
        /\ ToSend(x)[k].peer = p /\ ToSend(x)[k].tag = want.tag
    BY <1>6, <1>7, SameMessage
  <2>2. ~Got(x, k)
    <3> SUFFICES ASSUME NEW j \in 1 .. received[p], Same(x, k, p, j) PROVE FALSE
      BY <1>6, <2>1 DEF Got
    <3>1. j \in Nat /\ k \in Nat /\ k - j = k - i
      BY <1>6, <1>7, SameOrder
    <3> QED  BY <1>2, <3>1
  <2>3. <<x, k>> \in wire
    BY <1>1, <1>6, <1>7, <2>1, <2>2 DEF OnItsWay
  <2> QED  BY <1>5, <2>1, <2>3, SomeMatch DEF Message
<1>8. sent[x] < Len(ToSend(x))
  <2>1. PICK k \in 1 .. Len(ToSend(x)) : Same(x, k, p, i)
    BY <1>2, AwaitedIsSent
  <2>2. ~(k <= sent[x])
    BY <1>7, <2>1
  <2>3. sent[x] \in Nat /\ Len(ToSend(x)) \in Nat
    BY <1>1, <1>6, LengthsAreNat DEF TypesOK
  <2> QED  BY <2>2, <2>3
<1>9. Awaits(p, x)
  BY <1>5, <1>6, <1>7, <1>8 DEF Awaits, i
<1> QED  BY <1>6, <1>9

\* If the receiver that one waits for waits itself, it is for a sender before
\* that one: in what it receives that one comes later.
LEMMA ReceiverAwaits ==
  ASSUME WellOrdered(dg), WireOK, NEW p \in Procs, Blocked(p), KindOf(p) # "Sink"
  PROVE  /\ WaitsFor(p) \in Procs /\ ~Ready(WaitsFor(p))
         /\ WaitsFor(WaitsFor(p)) # WaitsFor(p) => \E x \in Procs : Awaits(WaitsFor(p), x) /\ x < p
<1> DEFINE q == WaitsFor(p)
           k == sent[p]
           i == received[q] + 1
<1>1. TypesOK /\ OnItsWay
  BY DEF WireOK
<1>2. k \in 1 .. Len(ToSend(p)) /\ ~Got(p, k) /\ ToSend(p)[k].peer = q /\ q \in Procs
  BY BlockedAt
<1> HIDE DEF q
<1>3. PICK j \in 1 .. Len(ToReceive(q)) : Same(p, k, q, j)
  BY <1>2, SentIsAwaited
<1>4. ~(j \in 1 .. received[q])
  BY <1>2, <1>3 DEF Got
<1>5. /\ received[q] \in Nat /\ Len(ToReceive(q)) \in Nat /\ j \in Nat /\ k \in Nat
      /\ i <= j /\ i \in 1 .. Len(ToReceive(q)) /\ i = received[q] + 1 /\ p \in Nat
  BY <1>1, <1>2, <1>3, <1>4, LengthsAreNat, NumberOfNode, SMTT(60) DEF TypesOK
<1>6. ~Ready(q)
  BY <1>5 DEF Ready
<1> HIDE DEF k, i
<1>7. ASSUME WaitsFor(q) # q PROVE \E x \in Procs : Awaits(q, x) /\ x < p
  <2>1. PICK x \in Procs : Awaits(q, x)
    BY <1>2, <1>6, <1>7, AwaitsSender
  <2>2. x = ToReceive(q)[i].peer /\ x \in Nat /\ \A l : Same(x, l, q, i) => ~(l <= sent[x])
    BY <2>1, NumberOfNode DEF Awaits, i
  <2>3. ToReceive(q)[j].peer = p
    BY <1>2, <1>3, SameMessage
  <2>4. x <= p
    BY <1>2, <1>3, <1>5, <2>2, <2>3, SendersInOrder
  <2>5. ASSUME x = p PROVE FALSE
    <3>1. PICK l \in 1 .. Len(ToSend(p)) : Same(p, l, q, i)
      BY <1>2, <1>5, <2>2, <2>5, AwaitedIsSent
    <3>2. l \in Nat /\ l - i = k - j
      BY <1>2, <1>3, <3>1, SameOrder
    <3>3. ~(l <= k)
      BY <2>2, <2>5, <3>1 DEF k
    <3> QED  BY <1>5, <3>2, <3>3, SMTT(60)
  <2> QED  BY <1>5, <2>1, <2>2, <2>4, <2>5
<1> QED  BY <1>2, <1>6, <1>7 DEF q

\* A sink that waits for its receiver waits for the first process, which has
\* not ended.
LEMMA SinkAwaitsFirst ==
  ASSUME WellOrdered(dg), WireOK, NEW p \in Procs, Blocked(p), KindOf(p) = "Sink"
  PROVE  WaitsFor(p) = 0 /\ ~Ended(0)
<1>1. Len(ToSend(p)) = 1 /\ ToSend(p)[1] = [peer |-> 0, tag |-> SumTag(p), part |-> "sum"]
  BY SinkSends
<1>2. sent[p] \in 1 .. 1 /\ ~Got(p, sent[p]) /\ WaitsFor(p) = ToSend(p)[sent[p]].peer
  BY <1>1, BlockedAt
<1>3. sent[p] = 1 /\ ToSend(p)[1].peer = 0
  BY <1>1, <1>2
<1>4. p \in Sinks /\ p \notin DOMAIN reports
  BY <1>2 DEF Got, Sinks
<1> QED  BY <1>2, <1>3, <1>4 DEF Ended

\* One who waits neither to receive for his node nor for his receiver is the
\* first process, and waits for a sink that has not sent anything.
LEMMA FirstAwaitsSink ==
  ASSUME WellOrdered(dg), WireOK, NEW p \in Procs, Ready(p), ~Blocked(p), WaitsFor(p) # p
  PROVE  p = 0 /\ AtReport /\ WaitsFor(p) \in Sinks /\ sent[WaitsFor(p)] = 0
<1>1. PICK want \in Awaited(p) : Matching(p, want) = {}
  BY DEF WaitsFor
<1>2. p = 0 /\ AtReport /\ Awaited(p) = {[peer |-> s, tag |-> SumTag(s), part |-> "sum"] : s \in NextSink}
  BY <1>1 DEF Awaited
<1>3. PICK s \in NextSink : want = [peer |-> s, tag |-> SumTag(s), part |-> "sum"]
  BY <1>1, <1>2
<1>4. /\ s \in Procs /\ s \in Sinks /\ s \notin DOMAIN reports
      /\ \A other \in Sinks \ DOMAIN reports : s <= other
  BY <1>3 DEF NextSink, Sinks
<1>5. WaitsFor(p) = s
  <2>1. \A other \in NextSink : other = s
    <3> SUFFICES ASSUME NEW other \in NextSink PROVE other = s
      OBVIOUS
    <3>1. other \in Nat /\ s \in Nat /\ s <= other /\ other <= s
      BY <1>4, NumberOfNode DEF NextSink, Sinks
    <3> QED  BY <3>1
  <2>2. \A other \in Awaited(p) : other = want
    BY <1>2, <1>3, <2>1
  <2>3. (CHOOSE other \in Awaited(p) : TRUE) = want
    BY <1>1, <2>2
  <2>4. want.peer = s
    BY <1>3
  <2> QED  BY <1>1, <2>3, <2>4 DEF WaitsFor
<1>6. sent[s] = 0
  <2> SUFFICES ASSUME sent[s] # 0 PROVE FALSE
    OBVIOUS
  <2>1. KindOf(s) = "Sink" /\ Len(ToSend(s)) = 1 /\ ToSend(s)[1] = [peer |-> 0, tag |-> SumTag(s), part |-> "sum"]
    BY <1>4, SinkSends DEF Sinks
  <2>2. 1 <= sent[s]
    BY <1>4 DEF WireOK, TypesOK
  <2>3. <<s, 1>> \in wire
    <3>1. 1 \in 1 .. Len(ToSend(s))
      BY <2>1
    <3>2. ~Got(s, 1)
      BY <1>4, <2>1 DEF Got
    <3> QED  BY <1>4, <2>2, <3>1, <3>2 DEF WireOK, OnItsWay
  <2>4. want.peer = s /\ want.tag = SumTag(s) /\ Message(<<s, 1>>) = [peer |-> 0, tag |-> SumTag(s), part |-> "sum"]
    BY <1>3, <2>1 DEF Message
  <2>5. Message(<<s, 1>>).peer = p /\ Message(<<s, 1>>).tag = want.tag /\ <<s, 1>>[1] = want.peer
    BY <1>2, <2>4
  <2> QED  BY <1>1, <2>3, <2>5, SomeMatch
<1> QED  BY <1>2, <1>4, <1>5, <1>6

\* The first process has nothing to receive for its node.
LEMMA FirstIsReady ==
  ASSUME WellOrdered(dg), WireOK
  PROVE  0 \in Procs /\ Ready(0)
<1>1. 0 \in Procs
  BY NumberOfNode
<1>2. Len(ToReceive(0)) \in Nat
  BY <1>1, LengthsAreNat
<1>3. ASSUME 1 \in 1 .. Len(ToReceive(0)) PROVE FALSE
  <2>1. ToReceive(0)[1].peer \in Nat /\ ToReceive(0)[1].peer < 0
    BY <1>1, <1>3, AwaitedIsSent, NumberOfNode
  <2> QED  BY <2>1
<1>4. Len(ToReceive(0)) = 0
  BY <1>2, <1>3
<1>5. received[0] \in Nat /\ received[0] <= Len(ToReceive(0))
  BY <1>1 DEF WireOK, TypesOK
<1> QED  BY <1>1, <1>4, <1>5 DEF Ready

\* A set of processes each of which waits for another of them: one of them
\* would wait to receive, and so would the least of those who are waited for
\* like that, or his receiver, from one before him.
LEMMA NoCircle ==
  ASSUME WellOrdered(dg), WireOK, NEW them \in SUBSET Procs, them # {},
         \A p \in them : WaitsFor(p) # p /\ (WaitsFor(p) \in them \/ Ended(WaitsFor(p)))
  PROVE  FALSE
<1> DEFINE T == {x \in Procs : \E p \in them : Awaits(p, x)}
<1>1. TypesOK /\ OnItsWay /\ InTurn
  BY DEF WireOK
\* Who has not sent all has not ended, nor has who has not received all.
<1>2. \A p \in them : ~Ended(WaitsFor(p)) => WaitsFor(p) \in them
  OBVIOUS
<1>3. ASSUME NEW x \in T PROVE x \in them /\ KindOf(x) # "Sink" /\ sent[x] < Len(ToSend(x)) /\ x \in Procs
  <2>1. PICK p \in them : Awaits(p, x)
    OBVIOUS
  <2>2. WaitsFor(p) = x /\ sent[x] < Len(ToSend(x)) /\ KindOf(x) # "Sink"
    BY <2>1 DEF Awaits
  <2>3. sent[x] # Len(ToSend(x))
    <3>1. sent[x] \in Nat /\ Len(ToSend(x)) \in Nat
      BY <1>1, LengthsAreNat DEF TypesOK
    <3> QED  BY <2>2, <3>1
  <2>4. ~Ended(x)
    BY <2>3 DEF Ended
  <2> QED  BY <1>2, <2>2, <2>4
<1>4. ASSUME NEW p \in them, ~Ready(p) PROVE \E x \in T : Awaits(p, x)
  BY <1>4, AwaitsSender
<1>5. ASSUME NEW p \in them, Blocked(p), KindOf(p) # "Sink" PROVE \E q \in them : \E x \in T : Awaits(q, x) /\ x < p
  <2> DEFINE q == WaitsFor(p)
  <2>1. q \in Procs /\ ~Ready(q) /\ (WaitsFor(q) # q => \E x \in Procs : Awaits(q, x) /\ x < p)
    BY <1>5, ReceiverAwaits
  <2>2. q \in them
    BY <1>2, <2>1 DEF Ended
  <2> QED  BY <2>1, <2>2
<1>6. ASSUME 0 \in them PROVE T # {}
  <2>1. Ready(0) /\ 0 \in Procs /\ KindOf(0) # "Sink"
    BY FirstIsReady, ArcsOfProcs
  <2>2. CASE Blocked(0)
    BY <1>5, <1>6, <2>1, <2>2
  <2>3. CASE ~Blocked(0)
    <3> DEFINE s == WaitsFor(0)
    <3>1. s \in Procs /\ KindOf(s) = "Sink" /\ sent[s] = 0 /\ s # 0
      BY <1>6, <2>1, <2>3, FirstAwaitsSink DEF Sinks
    <3>2. Len(ToSend(s)) = 1
      BY <3>1, SinkSends
    <3> HIDE DEF s
    <3>3. s \in them
      <4>1. sent[s] # Len(ToSend(s))
        BY <3>1, <3>2
      <4>2. ~Ended(s)
        BY <4>1 DEF Ended
      <4> QED  BY <1>2, <1>6, <4>2 DEF s
    <3>4. ~Blocked(s)
      <4>1. ASSUME Blocked(s) PROVE FALSE
        <5>1. 0 \in 1 .. Len(ToSend(s))
          BY <3>1, <4>1, BlockedAt
        <5> QED  BY <3>2, <5>1
      <4> QED  BY <4>1
    <3>5. ~Ready(s)
      BY <3>1, <3>3, <3>4, FirstAwaitsSink
    <3> QED  BY <1>4, <3>3, <3>5
  <2> QED  BY <2>2, <2>3
<1>7. T # {}
  <2>1. PICK p \in them : TRUE
    OBVIOUS
  <2>2. CASE ~Ready(p)
    BY <1>4, <2>2
  <2>3. CASE Blocked(p) /\ KindOf(p) # "Sink"
    BY <1>5, <2>3
  <2>4. CASE Blocked(p) /\ KindOf(p) = "Sink"
    <3>1. WaitsFor(p) = 0 /\ ~Ended(0)
      BY <2>4, SinkAwaitsFirst
    <3> QED  BY <1>2, <1>6, <3>1
  <2>5. CASE Ready(p) /\ ~Blocked(p)
    <3>1. p = 0
      BY <2>5, FirstAwaitsSink
    <3> QED  BY <1>6, <3>1
  <2> QED  BY <2>2, <2>3, <2>4, <2>5
<1>8. PICK x \in T : \A y \in T : x <= y
  <2>1. T \in SUBSET Nat
    BY NumberOfNode
  <2> HIDE DEF T
  <2> QED  BY <1>7, <2>1, LeastNumber
<1>9. x \in them /\ KindOf(x) # "Sink" /\ sent[x] < Len(ToSend(x)) /\ x \in Procs
  BY <1>3
<1>10. \A y \in T : ~(y < x)
  <2>1. \A y \in T : y \in Nat /\ x \in Nat
    BY NumberOfNode
  <2> QED  BY <1>8, <2>1
<1> HIDE DEF T
<1>11. CASE ~Ready(x)
  <2>1. PICK y \in T : Awaits(x, y)
    BY <1>4, <1>9, <1>11
  <2>2. y < x
    BY <2>1 DEF Awaits
  <2> QED  BY <1>10, <2>2
<1>12. CASE Blocked(x)
  BY <1>5, <1>9, <1>10, <1>12
<1>13. CASE Ready(x) /\ ~Blocked(x)
  <2>1. x = 0 /\ AtReport
    BY <1>9, <1>13, FirstAwaitsSink
  <2>2. sent[x] = Len(ToSend(x)) /\ sent[x] \in Nat
    BY <1>1, <1>9, <2>1 DEF AtReport, TypesOK
  <2> QED  BY <1>9, <2>2
<1> QED  BY <1>11, <1>12, <1>13

LEMMA WaitsOK == WellOrdered(dg) /\ WireOK => WaitsLeadToWork
<1> SUFFICES ASSUME WellOrdered(dg), WireOK PROVE WaitsLeadToWork
  OBVIOUS
<1> DEFINE waits == {<<p, WaitsFor(p)>> : p \in {p \in Procs : WaitsFor(p) # p}}
           ended == {p \in Procs : Ended(p)}
<1>1. ASSUME NEW them \in SUBSET {w[1] : w \in waits}, them # {},
             ~(\E w \in waits : w[1] \in them /\ w[2] \notin them \cup ended)
      PROVE  FALSE
  <2>1. \A p \in them : p \in Procs /\ WaitsFor(p) # p /\ <<p, WaitsFor(p)>> \in waits
    OBVIOUS
  <2>2. \A p \in them : WaitsFor(p) \in them \/ Ended(WaitsFor(p))
    BY <1>1, <2>1
  <2> QED  BY <1>1, <2>1, <2>2, NoCircle
<1> QED  BY <1>1 DEF WaitsLeadToWork

LEMMA TrafficStep == WellOrdered(dg) /\ WireOK /\ [TrafficNext]_tvars => (WellOrdered(dg) /\ WireOK)'
<1> SUFFICES ASSUME WellOrdered(dg), WireOK, [TrafficNext]_tvars PROVE (WellOrdered(dg) /\ WireOK)'
  OBVIOUS
<1>1. dg' = dg
  BY DEF TrafficNext, Send, Receive, Report, TrafficEnd, tvars, setting
<1>2. ASSUME NEW p \in Procs, Send(p) PROVE WireOK'
  BY <1>2, SendStep
<1>3. ASSUME NEW p \in Procs, Receive(p) PROVE WireOK'
  BY <1>3, ReceiveStep
<1>4. ASSUME Report PROVE WireOK'
  BY <1>4, ReportStep
<1>5. ASSUME UNCHANGED tvars PROVE WireOK'
  <2>1. /\ run' = run /\ dg' = dg /\ received' = received
        /\ sent' = sent /\ wire' = wire /\ reports' = reports
    BY <1>5 DEF tvars, setting
  <2>2. TypesOK'
    BY <2>1, SameGraph DEF WireOK, TypesOK
  <2>3. OnItsWay'
    <3>1. Procs' = Procs /\ \A q : ToSend(q)' = ToSend(q)
      BY <2>1, SameGraph
    <3>2. \A q, k : Got(q, k)' <=> Got(q, k)
      BY <2>1, GotSame
    <3> SUFFICES ASSUME NEW q \in Procs, NEW k \in 1 .. Len(ToSend(q))
                 PROVE  /\ <<q, k>> \in wire <=> k <= sent[q] /\ ~Got(q, k)'
                        /\ Got(q, k)' => k <= sent[q]
                        /\ <<q, k>> \in wire /\ ToSend(q)[k].part \notin run.eager => k = sent[q]
      BY <2>1, <3>1 DEF OnItsWay
    <3> QED  BY <3>2 DEF WireOK, OnItsWay
  <2>4. InTurn'
    <3>1. \A q : Ready(q)' <=> Ready(q)
      BY <2>1, SameGraph DEF Ready
    <3>2. AtReport' <=> AtReport
      <4>1. \A m : Message(m)' = Message(m)
        BY <2>1, SameGraph DEF Message
      <4>2. Blocked(0)' <=> Blocked(0)
        BY <2>1, <4>1 DEF Blocked
      <4> QED  BY <2>1, <3>1, <4>2, SameGraph DEF AtReport
    <3> QED  BY <2>1, <3>1, <3>2, SameGraph DEF WireOK, InTurn
  <2> QED  BY <2>2, <2>3, <2>4 DEF WireOK
<1> QED  BY <1>1, <1>2, <1>3, <1>4, <1>5 DEF TrafficNext, TrafficEnd

\* Over every graph whose nodes are numbered in the order of its arcs, whichever
\* sends wait for their receivers: nobody of the benchmark waits in vain.
THEOREM NobodyWaitsInVain == TrafficSpec => [](WellOrdered(dg) => WaitsLeadToWork)
<1> DEFINE Inv == WellOrdered(dg) => WireOK
<1>1. TrafficInit => Inv
  BY WireInit
<1>2. Inv /\ [TrafficNext]_tvars => Inv'
  <2> SUFFICES ASSUME Inv, [TrafficNext]_tvars, WellOrdered(dg)' PROVE WireOK'
    OBVIOUS
  <2>1. dg' = dg
    BY DEF TrafficNext, Send, Receive, Report, TrafficEnd, tvars, setting
  <2> QED  BY <2>1, TrafficStep
<1>3. Inv => (WellOrdered(dg) => WaitsLeadToWork)
  BY WaitsOK
<1> QED  BY <1>1, <1>2, <1>3, PTL DEF TrafficSpec

-----------------------------------------------------------------------------
(* What flows.                                                             *)

LenIn(nm) == Len(inArc(dg, nm))

\* What a node takes of its j-th arc, if flow is what there is before.
FlowAt(flow, nm, j) ==
  LET tail == dg.arc[inArc(dg, nm)[j]].tail
      in == flow[<<tail, LenIn(tail)>>]
  IN  IF j = 0 THEN AtFirst(IdOf(dg, nm))
      ELSE Taken(IdOf(dg, nm), flow[<<nm, j - 1>>], in.len, in.of)

LEMMA InArcs ==
  ASSUME WellOrdered(dg), NEW nm \in Names(dg)
  PROVE  /\ LenIn(nm) \in Nat /\ IdOf(dg, nm) \in Nat
         /\ \A j \in 1 .. LenIn(nm) :
              /\ dg.arc[inArc(dg, nm)[j]].tail \in Names(dg)
              /\ IdOf(dg, dg.arc[inArc(dg, nm)[j]].tail) < IdOf(dg, nm)
<1> DEFINE p == IdOf(dg, nm)
<1>1. p \in Procs /\ NodeOf(p) = nm /\ p \in Nat
  BY NumberOfNode
<1> HIDE DEF p
<1>2. inArc(dg, nm) = In(p)
  BY <1>1 DEF In
<1>3. In(p) \in Seq(Arcs) /\ \A a \in Range(In(p)) : a \in Arcs /\ HeadOf(a) = p
  BY <1>1, ArcsOfProcs
<1>4. LenIn(nm) \in Nat
  BY <1>2, <1>3 DEF LenIn
<1>5. ASSUME NEW j \in 1 .. LenIn(nm)
      PROVE  dg.arc[inArc(dg, nm)[j]].tail \in Names(dg) /\ IdOf(dg, dg.arc[inArc(dg, nm)[j]].tail) < p
  <2> DEFINE a == In(p)[j]
  <2>1. a \in Arcs /\ HeadOf(a) = p
    BY <1>2, <1>3, <1>5 DEF LenIn, Range
  <2>2. TailOf(a) < p
    BY <2>1, ArcsOfProcs
  <2>3. dg.arc[a] \in [tail : Names(dg), head : Names(dg)]
    <3>1. dg.arc \in Seq([tail : Names(dg), head : Names(dg)]) /\ a \in 1 .. Len(dg.arc)
      BY <2>1, ArcsOfProcs DEF WellOrdered
    <3> HIDE DEF a
    <3> QED  BY <3>1, ElementOfSeq
  <2> QED  BY <1>2, <2>2, <2>3 DEF TailOf
<1> QED  BY <1>1, <1>4, <1>5 DEF p

\* A node has no more arcs than there are nodes before it.
LEMMA FewArcs ==
  ASSUME WellOrdered(dg), NEW nm \in Names(dg)
  PROVE  LenIn(nm) <= IdOf(dg, nm)
<1> DEFINE p == IdOf(dg, nm)
           tail(j) == TailOf(In(p)[j])
           T == {j \in 1 .. LenIn(nm) : ~(j - 1 <= tail(j))}
<1>1. /\ p \in Procs /\ NodeOf(p) = nm /\ p \in Nat /\ LenIn(nm) \in Nat /\ LenIn(nm) = Len(In(p))
      /\ DOMAIN In(p) = 1 .. LenIn(nm)
  <2>1. p \in Procs /\ NodeOf(p) = nm /\ p \in Nat /\ LenIn(nm) \in Nat /\ LenIn(nm) = Len(In(p))
    BY NumberOfNode, InArcs DEF In, LenIn
  <2>2. In(p) \in Seq(Arcs)
    BY <2>1, ArcsOfProcs
  <2> QED  BY <2>1, <2>2
<1>2. \A j \in 1 .. LenIn(nm) : tail(j) \in Nat /\ tail(j) < p
  <2> SUFFICES ASSUME NEW j \in 1 .. LenIn(nm) PROVE tail(j) \in Nat /\ tail(j) < p
    OBVIOUS
  <2>1. In(p)[j] \in Arcs /\ HeadOf(In(p)[j]) = p
    BY <1>1, ArcsOfProcs DEF Range
  <2> QED  BY <2>1, ArcsOfProcs, NumberOfNode
<1>3. \A j \in 1 .. LenIn(nm) : \A i \in 1 .. j - 1 : tail(i) < tail(j)
  BY <1>1, ArcsOfProcs
<1> HIDE DEF p, tail
<1>4. T = {}
  <2> SUFFICES ASSUME T # {} PROVE FALSE
    OBVIOUS
  <2>1. T \in SUBSET Nat
    BY <1>1
  <2>2. PICK j \in T : \A i \in T : j <= i
    BY <2>1, LeastNumber
  <2>3. j \in 1 .. LenIn(nm) /\ j # 1 /\ j \in Nat /\ j > 1
    BY <1>1, <1>2
  <2>4. j - 1 \in 1 .. LenIn(nm) /\ j - 1 \notin T
    BY <1>1, <2>2, <2>3
  <2>5. tail(j - 1) < tail(j) /\ tail(j - 1) \in Nat /\ tail(j) \in Nat
    BY <1>2, <1>3, <2>3, <2>4
  <2>6. (j - 1) - 1 <= tail(j - 1)
    BY <2>4
  <2> QED  BY <2>2, <2>3, <2>5, <2>6
<1>5. CASE LenIn(nm) = 0
  BY <1>1, <1>5 DEF p
<1>6. CASE LenIn(nm) # 0
  <2>1. LenIn(nm) \in 1 .. LenIn(nm)
    BY <1>1, <1>6
  <2>2. LenIn(nm) - 1 <= tail(LenIn(nm)) /\ tail(LenIn(nm)) \in Nat /\ tail(LenIn(nm)) < p
    BY <1>2, <1>4, <2>1
  <2> QED  BY <1>1, <2>2 DEF p
<1> QED  BY <1>5, <1>6

\* Nodes and their arcs in one order, in which a node takes of earlier ones.
Rank(nm, j) == IdOf(dg, nm) * (Len(dg.node) + 1) + j

LEMMA Product == ASSUME NEW a \in Nat, NEW b \in Nat, NEW n \in Nat, NEW i \in 0 .. n, NEW j \in 0 .. n, a < b
                 PROVE  a * (n + 1) + i < b * (n + 1) + j
<1>1. PICK d \in Nat : b = a + 1 + d
  <2>1. b - a - 1 \in Nat
    OBVIOUS
  <2> QED  BY <2>1
<1>2. b * (n + 1) = a * (n + 1) + (n + 1) + d * (n + 1)
  BY <1>1
<1>3. d * (n + 1) >= 0 /\ d * (n + 1) \in Nat /\ a * (n + 1) \in Nat
  OBVIOUS
<1> QED  BY <1>2, <1>3

LEMMA RankFalls ==
  ASSUME WellOrdered(dg), NEW nm \in Names(dg), NEW j \in 0 .. LenIn(nm)
  PROVE  /\ Rank(nm, j) \in Nat
         /\ j # 0 => /\ j - 1 \in 0 .. LenIn(nm) /\ Rank(nm, j - 1) < Rank(nm, j)
                     /\ LET tail == dg.arc[inArc(dg, nm)[j]].tail
                        IN  tail \in Names(dg) /\ LenIn(tail) \in Nat /\ Rank(tail, LenIn(tail)) < Rank(nm, j)
<1>1. \A other \in Names(dg) : /\ IdOf(dg, other) \in Nat /\ LenIn(other) \in Nat
                               /\ LenIn(other) \in 0 .. Len(dg.node)
  <2> SUFFICES ASSUME NEW other \in Names(dg)
               PROVE  IdOf(dg, other) \in Nat /\ LenIn(other) \in Nat /\ LenIn(other) \in 0 .. Len(dg.node)
    OBVIOUS
  <2>1. IdOf(dg, other) \in Procs /\ IdOf(dg, other) \in Nat
    BY NumberOfNode
  <2>2. Len(dg.node) \in Nat
    BY DEF WellOrdered
  <2>3. IdOf(dg, other) <= Len(dg.node)
    BY <2>1, <2>2 DEF Procs
  <2> QED  BY <2>1, <2>2, <2>3, FewArcs, InArcs
<1>2. Len(dg.node) \in Nat
  BY DEF WellOrdered
<1>3. j \in 0 .. Len(dg.node) /\ j \in Nat
  BY <1>1, <1>2
<1>4. Rank(nm, j) \in Nat
  BY <1>1, <1>2, <1>3, SMTT(60) DEF Rank
<1>5. ASSUME j # 0
      PROVE  /\ j - 1 \in 0 .. LenIn(nm) /\ Rank(nm, j - 1) < Rank(nm, j)
             /\ LET tail == dg.arc[inArc(dg, nm)[j]].tail
                IN  tail \in Names(dg) /\ LenIn(tail) \in Nat /\ Rank(tail, LenIn(tail)) < Rank(nm, j)
  <2> DEFINE tail == dg.arc[inArc(dg, nm)[j]].tail
  <2>1. j \in 1 .. LenIn(nm)
    BY <1>1, <1>3, <1>5
  <2>2. tail \in Names(dg) /\ IdOf(dg, tail) < IdOf(dg, nm)
    BY <2>1, InArcs
  <2>3. j - 1 \in 0 .. LenIn(nm) /\ Rank(nm, j - 1) < Rank(nm, j)
    <3>1. IdOf(dg, nm) * (Len(dg.node) + 1) \in Nat
      BY <1>1, <1>2
    <3> HIDE DEF tail
    <3> QED  BY <1>1, <1>3, <2>1, <3>1 DEF Rank
  <2> HIDE DEF tail
  <2>4. Rank(tail, LenIn(tail)) < Rank(nm, j)
    BY <1>1, <1>2, <1>3, <2>2, Product DEF Rank
  <2> QED  BY <1>1, <2>2, <2>3, <2>4 DEF tail
<1> QED  BY <1>4, <1>5

\* There is such a flow: a function that is right up to a rank can be made right
\* at the next one.
RightUpTo(flow, n) ==
  \A nm \in Names(dg) : \A j \in 0 .. LenIn(nm) :
    Rank(nm, j) < n => flow[<<nm, j>>] = FlowAt(flow, nm, j)

LEMMA FlowExists ==
  ASSUME WellOrdered(dg)
  PROVE  \A n \in Nat : \E flow : flow = [at \in Followed |-> flow[at]] /\ RightUpTo(flow, n)
<1> DEFINE P(n) == \E flow : flow = [at \in Followed |-> flow[at]] /\ RightUpTo(flow, n)
           T == {n \in Nat : ~P(n)}
<1>0. \A nm \in Names(dg) : \A j \in 0 .. LenIn(nm) : <<nm, j>> \in Followed
  BY DEF Followed, LenIn
<1>4. \A nm \in Names(dg) : \A j \in 0 .. LenIn(nm) : Rank(nm, j) \in Nat
  BY RankFalls
<1>1. P(0)
  <2> DEFINE f == [at \in Followed |-> 0]
  <2>1. f = [at \in Followed |-> f[at]]
    OBVIOUS
  <2>2. RightUpTo(f, 0)
    BY <1>4 DEF RightUpTo
  <2> QED  BY <2>1, <2>2
<1>2. ASSUME NEW n \in Nat, P(n) PROVE P(n + 1)
  <2>1. PICK f : f = [at \in Followed |-> f[at]] /\ RightUpTo(f, n)
    BY <1>2
  <2> DEFINE g == [at \in Followed |-> IF Rank(at[1], at[2]) = n THEN FlowAt(f, at[1], at[2]) ELSE f[at]]
  <2>2. g = [at \in Followed |-> g[at]]
    OBVIOUS
  <2>3. \A nm \in Names(dg) : \A j \in 0 .. LenIn(nm) :
          g[<<nm, j>>] = IF Rank(nm, j) = n THEN FlowAt(f, nm, j) ELSE f[<<nm, j>>]
    BY <1>0
  <2> HIDE DEF g
  <2>4. ASSUME NEW nm \in Names(dg), NEW j \in 0 .. LenIn(nm), Rank(nm, j) < n + 1
        PROVE  g[<<nm, j>>] = FlowAt(g, nm, j)
    <3>1. FlowAt(g, nm, j) = FlowAt(f, nm, j)
      <4>1. CASE j = 0
        BY <4>1 DEF FlowAt
      <4>2. CASE j # 0
        <5> DEFINE tail == dg.arc[inArc(dg, nm)[j]].tail
        <5>1. /\ j - 1 \in 0 .. LenIn(nm) /\ Rank(nm, j - 1) < Rank(nm, j)
              /\ tail \in Names(dg) /\ LenIn(tail) \in Nat /\ Rank(tail, LenIn(tail)) < Rank(nm, j)
          BY <4>2, RankFalls
        <5> HIDE DEF tail
        <5>0. LenIn(tail) \in 0 .. LenIn(tail)
          BY <5>1
        <5>2. Rank(nm, j - 1) # n /\ Rank(tail, LenIn(tail)) # n /\ LenIn(tail) \in 0 .. LenIn(tail)
          BY <1>4, <2>4, <5>1, <5>0
        <5>3. g[<<nm, j - 1>>] = f[<<nm, j - 1>>]
          BY <2>3, <5>1, <5>2
        <5>4. g[<<tail, LenIn(tail)>>] = f[<<tail, LenIn(tail)>>]
          BY <2>3, <5>1, <5>2
        <5> QED  BY <4>2, <5>3, <5>4 DEF FlowAt, tail
      <4> QED  BY <4>1, <4>2
    <3>2. CASE Rank(nm, j) = n
      BY <2>3, <3>1, <3>2
    <3>3. CASE Rank(nm, j) # n
      <4>1. Rank(nm, j) < n
        BY <1>4, <2>4, <3>3
      <4> QED  BY <2>1, <2>3, <3>1, <3>3, <4>1 DEF RightUpTo
    <3> QED  BY <3>2, <3>3
  <2>5. RightUpTo(g, n + 1)
    BY <2>4 DEF RightUpTo
  <2> QED  BY <2>2, <2>5
<1>3. T = {}
  <2> SUFFICES ASSUME T # {} PROVE FALSE
    OBVIOUS
  <2>1. PICK n \in T : \A m \in T : n <= m
    BY LeastNumber
  <2>2. n \in Nat /\ n # 0 /\ ~P(n)
    BY <1>1
  <2> HIDE DEF P
  <2>3. n - 1 \in Nat /\ n - 1 \notin T /\ (n - 1) + 1 = n
    BY <2>1, <2>2
  <2> QED  BY <1>2, <2>2, <2>3
<1> QED  BY <1>3

\* So what flows is what each node takes of its arcs.
LEMMA FlowIs ==
  ASSUME WellOrdered(dg)
  PROVE  \A nm \in Names(dg) : \A j \in 0 .. LenIn(nm) : Flow[<<nm, j>>] = FlowAt(Flow, nm, j)
<1> DEFINE N == Len(dg.node) * (Len(dg.node) + 1)
           taken(flow, at) ==
             IF at[2] = 0 THEN AtFirst(IdOf(dg, at[1]))
             ELSE LET tail == dg.arc[inArc(dg, at[1])[at[2]]].tail
                      in == flow[<<tail, Len(inArc(dg, tail))>>]
                  IN  Taken(IdOf(dg, at[1]), flow[<<at[1], at[2] - 1>>], in.len, in.of)
           body(flow) == [at \in Followed |-> taken(flow, at)]
<1>1. \A nm \in Names(dg) : \A j \in 0 .. LenIn(nm) : Rank(nm, j) < N
  <2> SUFFICES ASSUME NEW nm \in Names(dg), NEW j \in 0 .. LenIn(nm) PROVE Rank(nm, j) < N
    OBVIOUS
  <2>1. Len(dg.node) \in Nat
    BY DEF WellOrdered
  <2>2. IdOf(dg, nm) \in Nat /\ IdOf(dg, nm) < Len(dg.node) /\ LenIn(nm) \in Nat /\ LenIn(nm) <= IdOf(dg, nm)
    <3>1. IdOf(dg, nm) \in Procs
      BY NumberOfNode
    <3> QED  BY <2>1, <3>1, InArcs, FewArcs DEF Procs
  <2>3. j \in 0 .. Len(dg.node) /\ 0 \in 0 .. Len(dg.node)
    BY <2>1, <2>2
  <2>4. Rank(nm, j) < N + 0
    BY <2>1, <2>2, <2>3, Product DEF Rank
  <2>5. N \in Nat
    BY <2>1
  <2> HIDE DEF N
  <2> QED  BY <2>4, <2>5
<1>2. N \in Nat
  BY DEF WellOrdered
<1> HIDE DEF N
<1>3. PICK f : f = [at \in Followed |-> f[at]] /\ RightUpTo(f, N)
  BY <1>2, FlowExists
<1>4. \A at \in Followed : f[at] = taken(f, at)
  <2> SUFFICES ASSUME NEW at \in Followed PROVE f[at] = taken(f, at)
    OBVIOUS
  <2>1. PICK nm \in Names(dg) : at \in {nm} \X (0 .. LenIn(nm))
    BY DEF Followed, LenIn
  <2>2. PICK j \in 0 .. LenIn(nm) : at = <<nm, j>>
    BY <2>1
  <2>3. f[at] = FlowAt(f, nm, j)
    BY <1>1, <1>3, <2>2 DEF RightUpTo
  <2> QED  BY <2>2, <2>3, SMTT(60) DEF FlowAt, LenIn
<1>6. Flow = CHOOSE flow : flow = body(flow)
  BY DEF Flow
<1> HIDE DEF taken
<1>5. f = body(f)
  BY <1>3, <1>4
<1> HIDE DEF body
<1>7. Flow = body(Flow)
  BY <1>5, <1>6
<1> SUFFICES ASSUME NEW nm \in Names(dg), NEW j \in 0 .. LenIn(nm) PROVE Flow[<<nm, j>>] = FlowAt(Flow, nm, j)
  OBVIOUS
<1>8. <<nm, j>> \in Followed
  BY DEF Followed, LenIn
<1>9. body(Flow)[<<nm, j>>] = FlowAt(Flow, nm, j)
  BY <1>8 DEF body, taken, FlowAt, LenIn
<1> QED  BY <1>7, <1>9

-----------------------------------------------------------------------------
(* What the processes have.                                                *)

FlowTo(p, j) == Flow[<<NodeOf(p), j>>]

\* A process has what flows to its node along the arcs it has received from;
\* of an arc of which only the length has come, that is the length.
FlowOK ==
  /\ \A p \in Procs :
       /\ feat[p] = FlowTo(p, received[p] \div 2)
       /\ received[p] % 2 = 1 =>
            LET x == TailOf(In(p)[(received[p] + 1) \div 2]) IN length[p] = FlowTo(x, Len(In(x))).len
  /\ DOMAIN feat = Procs /\ DOMAIN length = Procs
  /\ \A s \in DOMAIN reports : reports[s] = FlowTo(s, Len(In(s))).of

LEMMA FlowToIs ==
  ASSUME WellOrdered(dg), NEW p \in Procs
  PROVE  /\ FlowTo(p, 0) = AtFirst(p)
         /\ Len(In(p)) \in Nat
         /\ \A j \in 1 .. Len(In(p)) :
              LET x == TailOf(In(p)[j]) in == FlowTo(x, Len(In(x)))
              IN  FlowTo(p, j) = Taken(p, FlowTo(p, j - 1), in.len, in.of)
<1> DEFINE nm == NodeOf(p)
<1>1. nm \in Names(dg) /\ IdOf(dg, nm) = p
  BY NumberOfNode
<1>2. LenIn(nm) = Len(In(p)) /\ LenIn(nm) \in Nat
  BY <1>1, InArcs DEF In, LenIn
<1>3. FlowTo(p, 0) = AtFirst(p)
  <2>1. 0 \in 0 .. LenIn(nm)
    BY <1>2
  <2> QED  BY <1>1, <2>1, FlowIs DEF FlowAt, FlowTo
<1>4. ASSUME NEW j \in 1 .. Len(In(p))
      PROVE  LET x == TailOf(In(p)[j]) in == FlowTo(x, Len(In(x)))
             IN  FlowTo(p, j) = Taken(p, FlowTo(p, j - 1), in.len, in.of)
  <2> DEFINE tail == dg.arc[inArc(dg, nm)[j]].tail
             x == TailOf(In(p)[j])
  <2>1. j \in 0 .. LenIn(nm) /\ j # 0
    BY <1>2
  <2>2. tail \in Names(dg)
    BY <1>1, <1>2, InArcs
  <2>3. x = IdOf(dg, tail) /\ NodeOf(x) = tail
    BY <2>2, NumberOfNode DEF TailOf, In
  <2>4. LenIn(tail) = Len(In(x))
    BY <2>3 DEF LenIn, In
  <2>5. Flow[<<nm, j>>] = FlowAt(Flow, nm, j)
    BY <1>1, <2>1, FlowIs
  <2> QED  BY <1>1, <2>1, <2>3, <2>4, <2>5 DEF FlowTo, FlowAt
<1> QED  BY <1>2, <1>3, <1>4

LEMMA FlowInit == TrafficInit /\ WellOrdered(dg) => FlowOK
<1> SUFFICES ASSUME TrafficInit, WellOrdered(dg) PROVE FlowOK
  OBVIOUS
<1>1. /\ received = [p \in Procs |-> 0] /\ length = [p \in Procs |-> 0]
      /\ feat = [p \in Procs |-> AtFirst(p)] /\ reports = <<>>
  BY DEF TrafficInit
<1>2. 0 \div 2 = 0 /\ 0 % 2 = 0
  OBVIOUS
<1> QED  BY <1>1, <1>2, FlowToIs DEF FlowOK

\* What is followed does not change.
LEMMA SameFlow ==
  ASSUME WellOrdered(dg), dg' = dg, run' = run
  PROVE  /\ \A p : In(p)' = In(p)
         /\ \A a : TailOf(a)' = TailOf(a)
         /\ \A p, j : FlowTo(p, j)' = FlowTo(p, j)
<1>1. ASSUME NEW p PROVE NodeOf(p)' = NodeOf(p) /\ KindOf(p)' = KindOf(p)
  BY DEF NodeOf, KindOf
<1>2. ASSUME NEW p PROVE In(p)' = In(p)
  BY <1>1 DEF In, inArc
<1>3. ASSUME NEW a PROVE TailOf(a)' = TailOf(a)
  BY DEF TailOf, IdOf
<1>4. Flow' = Flow
  BY DEF Flow, Followed, Names, inArc, IdOf, AtFirst, Taken, RandomFeatures, GetFeatureNum, newArr, WindowFilter,
     KindOf, NodeOf, NUM_SAMPLES, fielddim
<1>5. ASSUME NEW p, NEW j PROVE FlowTo(p, j)' = FlowTo(p, j)
  BY <1>1, <1>4 DEF FlowTo
<1> QED  BY <1>2, <1>3, <1>5

LEMMA OddHalf == \A n \in Nat : (n + 1) % 2 = 1 => (n + 1) \div 2 = n \div 2
OBVIOUS

LEMMA FlowReceive ==
  ASSUME WellOrdered(dg), WireOK, FlowOK, NEW p \in Procs, Receive(p)
  PROVE  FlowOK'
<1> USE SameGraph DEF setting
<1> DEFINE i == received[p] + 1
           want == ToReceive(p)[i]
<1>1. PICK m \in Matching(p, want) :
        LET of == IF Message(m).part = want.part THEN feat[m[1]].of ELSE <<"garbled">>
        IN  IF want.part = "len" THEN length' = [length EXCEPT ![p] = feat[m[1]].len] /\ UNCHANGED feat
            ELSE feat' = [feat EXCEPT ![p] = Taken(p, @, length[p], of)] /\ UNCHANGED length
  BY DEF Receive
<1>2. /\ ~Ready(p) /\ received' = [received EXCEPT ![p] = @ + 1]
      /\ dg' = dg /\ run' = run /\ reports' = reports
  BY DEF Receive
<1>3. TypesOK /\ OnItsWay /\ InTurn
  BY DEF WireOK
<1>4. PICK x \in Procs : \E k \in 1 .. Len(ToSend(x)) : m = <<x, k>> /\ m \in wire /\ Same(x, k, p, i)
  BY <1>1, <1>2, ReceivedInOrder
<1>5. PICK k \in 1 .. Len(ToSend(x)) : m = <<x, k>> /\ m \in wire /\ Same(x, k, p, i)
  BY <1>4
<1>6. /\ i \in 1 .. Len(ToReceive(p)) /\ i \in Nat /\ received[p] \in Nat /\ i = received[p] + 1
      /\ received'[p] = i /\ \A q \in Procs \ {p} : received'[q] = received[q]
  BY <1>2, <1>3, LengthsAreNat DEF TypesOK, Ready
\* The sender has all that is to flow to it.
<1>7. feat[x] = FlowTo(x, Len(In(x)))
  <2>1. k <= sent[x] /\ k \in Nat /\ sent[x] \in Nat /\ k > 0
    <3>1. k \in Nat /\ k > 0
      BY <1>5, LengthsAreNat
    <3> QED  BY <1>3, <1>5, <3>1 DEF OnItsWay, TypesOK
  <2>2. received[x] = 2 * Len(In(x)) /\ Len(In(x)) \in Nat
    BY <1>3, <2>1, WhatIsReceived DEF InTurn, Ready
  <2>3. received[x] \div 2 = Len(In(x))
    BY <2>2
  <2> QED  BY <2>3 DEF FlowOK
<1>8. /\ TailOf(In(p)[(i + 1) \div 2]) = x /\ (i + 1) \div 2 \in 1 .. Len(In(p))
      /\ Message(m).part = want.part /\ want.part = PartOf(i)
  <2>1. ToReceive(p)[i] = [peer |-> TailOf(ArcIn(p, i)), tag |-> ArcIn(p, i) - 1, part |-> PartOf(i)]
    BY <1>6, WhatIsReceived
  <2>2. ToReceive(p)[i].peer = x /\ ToSend(x)[k].part = ToReceive(p)[i].part
    BY <1>5, SameMessage
  <2>3. (i + 1) \div 2 \in 1 .. Len(In(p))
    BY <1>6, WhatIsReceived, HalvesRange
  <2> QED  BY <1>5, <2>1, <2>2, <2>3 DEF ArcIn, Message
<1> HIDE DEF i, want
<1>9. /\ \A q : In(q)' = In(q)
      /\ \A a : TailOf(a)' = TailOf(a)
      /\ \A q, j : FlowTo(q, j)' = FlowTo(q, j)
  BY <1>2, SameFlow
<1>10. Procs' = Procs
  BY <1>2
\* A length.
<1>11. CASE i % 2 = 1
  <2>1. length' = [length EXCEPT ![p] = feat[x].len] /\ feat' = feat
    BY <1>1, <1>5, <1>8, <1>11 DEF PartOf
  <2>2. i \div 2 = received[p] \div 2
    BY <1>6, <1>11, OddHalf
  <2>3. ASSUME NEW q \in Procs
        PROVE  /\ feat'[q] = FlowTo(q, received'[q] \div 2)
               /\ received'[q] % 2 = 1 =>
                    LET y == TailOf(In(q)[(received'[q] + 1) \div 2]) IN length'[q] = FlowTo(y, Len(In(y))).len
    <3>1. CASE q = p
      BY <1>6, <1>7, <1>8, <2>1, <2>2, <3>1 DEF FlowOK
    <3>2. CASE q # p
      BY <1>6, <2>1, <3>2 DEF FlowOK
    <3> QED  BY <3>1, <3>2
  <2>4. DOMAIN feat' = Procs /\ DOMAIN length' = Procs
    BY <2>1 DEF FlowOK
  <2>5. \A s \in DOMAIN reports' : reports'[s] = FlowTo(s, Len(In(s))).of
    BY <1>2 DEF FlowOK
  <2> QED  BY <1>9, <1>10, <2>3, <2>4, <2>5 DEF FlowOK
\* A feature.
<1>12. CASE i % 2 = 0
  <2> DEFINE j == (i + 1) \div 2
  <2>1. feat' = [feat EXCEPT ![p] = Taken(p, @, length[p], feat[x].of)] /\ length' = length
    BY <1>1, <1>5, <1>8, <1>12 DEF PartOf
  <2>2. i \div 2 = j /\ received[p] \div 2 = j - 1 /\ received[p] % 2 = 1 /\ (received[p] + 1) \div 2 = j
    BY <1>6, <1>12, SMTT(60)
  <2> HIDE DEF j
  <2>3. feat[p] = FlowTo(p, j - 1) /\ length[p] = FlowTo(x, Len(In(x))).len
    BY <1>8, <2>2 DEF FlowOK, j
  <2>4. FlowTo(p, j) = Taken(p, FlowTo(p, j - 1), FlowTo(x, Len(In(x))).len, FlowTo(x, Len(In(x))).of)
    BY <1>8, FlowToIs DEF j
  <2>5. feat'[p] = FlowTo(p, j)
    BY <1>7, <2>1, <2>3, <2>4 DEF FlowOK
  <2>6. ASSUME NEW q \in Procs
        PROVE  /\ feat'[q] = FlowTo(q, received'[q] \div 2)
               /\ received'[q] % 2 = 1 =>
                    LET y == TailOf(In(q)[(received'[q] + 1) \div 2]) IN length'[q] = FlowTo(y, Len(In(y))).len
    <3>1. CASE q = p
      BY <1>6, <1>12, <2>2, <2>5, <3>1
    <3>2. CASE q # p
      BY <1>6, <2>1, <3>2 DEF FlowOK
    <3> QED  BY <3>1, <3>2
  <2>7. DOMAIN feat' = Procs /\ DOMAIN length' = Procs
    BY <2>1 DEF FlowOK
  <2>8. \A s \in DOMAIN reports' : reports'[s] = FlowTo(s, Len(In(s))).of
    BY <1>2 DEF FlowOK
  <2> QED  BY <1>9, <1>10, <2>6, <2>7, <2>8 DEF FlowOK
<1> QED  BY <1>6, <1>11, <1>12

LEMMA FlowReport ==
  ASSUME WellOrdered(dg), WireOK, FlowOK, Report
  PROVE  FlowOK'
<1> USE SameGraph DEF setting
<1>1. PICK want \in Awaited(0) :
        \E m \in Matching(0, want) :
          reports' = [s \in DOMAIN reports \cup {m[1]} |-> IF s = m[1] THEN feat[s].of ELSE reports[s]]
  BY DEF Report
<1>2. PICK m \in Matching(0, want) :
        reports' = [s \in DOMAIN reports \cup {m[1]} |-> IF s = m[1] THEN feat[s].of ELSE reports[s]]
  BY <1>1
<1>3. received' = received /\ feat' = feat /\ length' = length /\ dg' = dg /\ run' = run
  BY DEF Report
<1>4. TypesOK /\ OnItsWay /\ InTurn
  BY DEF WireOK
<1>5. PICK x \in Procs : \E k \in 1 .. Len(ToSend(x)) : m = <<x, k>> /\ m \in wire
  BY <1>2, <1>4 DEF Matching, TypesOK
<1>6. PICK k \in 1 .. Len(ToSend(x)) : m = <<x, k>> /\ m \in wire
  BY <1>5
<1>7. feat[x] = FlowTo(x, Len(In(x)))
  <2>1. k <= sent[x] /\ k \in Nat /\ sent[x] \in Nat /\ k > 0
    <3>1. k \in Nat /\ k > 0
      BY <1>6, LengthsAreNat
    <3> QED  BY <1>4, <1>6, <3>1 DEF OnItsWay, TypesOK
  <2>2. received[x] = 2 * Len(In(x)) /\ Len(In(x)) \in Nat
    BY <1>4, <2>1, WhatIsReceived DEF InTurn, Ready
  <2>3. received[x] \div 2 = Len(In(x))
    BY <2>2
  <2> QED  BY <2>3 DEF FlowOK
<1>8. /\ Procs' = Procs
      /\ \A q : In(q)' = In(q)
      /\ \A a : TailOf(a)' = TailOf(a)
      /\ \A q, j : FlowTo(q, j)' = FlowTo(q, j)
  BY <1>3, SameFlow
<1>9. \A s \in DOMAIN reports' : reports'[s] = FlowTo(s, Len(In(s))).of
  BY <1>2, <1>6, <1>7 DEF FlowOK
<1> QED  BY <1>3, <1>8, <1>9 DEF FlowOK

LEMMA FlowStep ==
  ASSUME WellOrdered(dg), WireOK, FlowOK, [TrafficNext]_tvars
  PROVE  FlowOK'
<1>1. ASSUME UNCHANGED <<run, dg, received, feat, length, reports>> PROVE FlowOK'
  <2>1. /\ run' = run /\ dg' = dg /\ received' = received
        /\ feat' = feat /\ length' = length /\ reports' = reports
    BY <1>1
  <2>2. /\ Procs' = Procs
        /\ \A q : In(q)' = In(q)
        /\ \A a : TailOf(a)' = TailOf(a)
        /\ \A q, j : FlowTo(q, j)' = FlowTo(q, j)
    BY <2>1, SameFlow, SameGraph
  <2> QED  BY <2>1, <2>2 DEF FlowOK
<1>2. ASSUME NEW p \in Procs, Send(p) PROVE FlowOK'
  BY <1>1, <1>2 DEF Send, setting
<1>3. ASSUME NEW p \in Procs, Receive(p) PROVE FlowOK'
  BY <1>3, FlowReceive
<1>4. ASSUME Report PROVE FlowOK'
  BY <1>4, FlowReport
<1>5. ASSUME UNCHANGED tvars PROVE FlowOK'
  BY <1>1, <1>5 DEF tvars, setting
<1> QED  BY <1>2, <1>3, <1>4, <1>5 DEF TrafficNext, TrafficEnd

\* Over every such graph the first process gets from every sink what flows to
\* it along the arcs, each feature with its length, whatever order the messages
\* were sent and received in.
THEOREM SinksGetTheFlow ==
  TrafficSpec => [](WellOrdered(dg) => SinksGetFlow /\ (GraphsAreRight => ResultsAreFlow))
<1> DEFINE Inv == WellOrdered(dg) => WireOK /\ FlowOK
<1>1. TrafficInit => Inv
  BY WireInit, FlowInit
<1>2. Inv /\ [TrafficNext]_tvars => Inv'
  <2> SUFFICES ASSUME Inv, [TrafficNext]_tvars, WellOrdered(dg)' PROVE WireOK' /\ FlowOK'
    OBVIOUS
  <2>1. dg' = dg
    BY DEF TrafficNext, Send, Receive, Report, TrafficEnd, tvars, setting
  <2> QED  BY <2>1, TrafficStep, FlowStep
<1>3. Inv /\ WellOrdered(dg) => SinksGetFlow
  <2> SUFFICES ASSUME FlowOK, DOMAIN reports = Sinks, NEW s \in Sinks
               PROVE  reports[s] = Flow[<<NodeOf(s), Len(inArc(dg, NodeOf(s)))>>].of
    BY DEF SinksGetFlow
  <2> QED  BY DEF FlowOK, FlowTo, In
<1>4. Inv => (WellOrdered(dg) => SinksGetFlow /\ (GraphsAreRight => ResultsAreFlow))
  BY <1>3 DEF ResultsAreFlow
<1> QED  BY <1>1, <1>2, <1>4, PTL DEF TrafficSpec

=============================================================================
