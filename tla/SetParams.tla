----------------------------- MODULE SetParams -----------------------------
(* How a benchmark is built: make, the utility setparams, and the files     *)
(* they leave between runs (sys/setparams.c and sys/make.common of both     *)
(* versions, and the makefiles of the benchmarks).  A file is as old as the *)
(* last step that changed it; what matters of that is kept with the file:   *)
(* whether the header is newer than make.def, the objects newer than the    *)
(* header.                                                                  *)
EXTENDS ClassSizes

CONSTANTS Asked,    \* classes that make may be asked for
          MaxEdits  \* bound: how often make.def is changed

ASSUME SetParamsAssumption == MaxEdits \in Nat

VARIABLES
  version, type,  \* MPI or OMP, and the benchmark
  makeDef,        \* which make.def there is
  header,         \* npbparams.h
  objects,        \* the objects of the benchmark's directory
  program,        \* the program that make linked, while it is the last thing it did
  make            \* what make is at

svars == <<version, type, makeDef, header, objects, program, make>>

fixed == <<version, type>>

\* Only BT of the MPI version has subtypes; -1 is that of the other benchmarks.
Subtypes == IF version = "MPI" /\ type = "bt" THEN {"NONE", "FULL", "EPIO"} ELSE {"-1"}

NoHeader == [class |-> "X", subtype |-> "-1", def |-> -1, there |-> FALSE, complete |-> FALSE, new |-> FALSE]
NoObjects == [class |-> "X", subtype |-> "-1", def |-> -1, complete |-> FALSE, new |-> FALSE]
Idle == [step |-> "idle", class |-> "U", subtype |-> "-1"]
NoProgram == [name |-> <<"X", "-1">>, from |-> NoObjects]

MakeInit ==
  /\ version \in {"MPI", "OMP"} /\ type \in Types(version)
  /\ makeDef = 0 /\ header = NoHeader /\ objects = NoObjects /\ program = NoProgram
  /\ make = Idle

-----------------------------------------------------------------------------
\* read_info(): no header, or one without its first line, is of class X ...
read_class == header.class

\* ... and BT's without a subtype is the plain one.
read_subtype == header.subtype

\* get_info() knows no subtypes of class F, check_info() not every class.
Accepted(class, subtype) ==
  /\ ~(class = "F" /\ subtype \in {"FULL", "EPIO"})
  /\ IF version = "MPI" THEN mpi_check_info(type, class) ELSE omp_check_info(type, class)

\* make CLASS=class: the target config, which is run every time.
StartMake(class, subtype) ==
  /\ make.step = "idle"
  /\ make' = [step |-> "config", class |-> class, subtype |-> subtype]
  /\ program' = NoProgram
  /\ UNCHANGED <<fixed, makeDef, header, objects>>

\* main() of setparams up to write_info(): a class it does not let through ends
\* make; a header for the same class and subtype is left alone; else the header
\* is opened, and so emptied.
Configure ==
  /\ make.step = "config"
  /\ LET unchanged == <<read_class, read_subtype>> = <<make.class, make.subtype>>
         accepted == Accepted(make.class, make.subtype)
     IN  \/ ~accepted /\ make' = Idle /\ UNCHANGED <<header, objects>>
         \/ /\ accepted /\ unchanged
            /\ make' = [make EXCEPT !.step = "header"] /\ UNCHANGED <<header, objects>>
         \/ /\ accepted /\ ~unchanged
            /\ make' = [make EXCEPT !.step = "write"]
            /\ header' = [NoHeader EXCEPT !.there = TRUE, !.new = TRUE]
            /\ objects' = [objects EXCEPT !.new = FALSE]
  /\ UNCHANGED <<fixed, makeDef, program>>

\* The rest of write_info().  A class without sizes is an internal error: what
\* was written until then, the first line among it, stays.
WriteInfo ==
  /\ make.step = "write"
  /\ LET accepted == make.class \in WrittenClasses(type)
     IN  /\ header' = [class |-> make.class, subtype |-> make.subtype, def |-> makeDef,
                       there |-> TRUE, complete |-> accepted, new |-> TRUE]
         /\ make' = IF accepted THEN [make EXCEPT !.step = "header"] ELSE Idle
  /\ objects' = [objects EXCEPT !.new = FALSE]
  /\ UNCHANGED <<fixed, makeDef, program>>

\* mutant: a header there is is not made again.
OnlyIfMissing ==
  /\ make.step = "header"
  /\ IF header.there THEN make' = [make EXCEPT !.step = "compile"] /\ UNCHANGED header
     ELSE header' = NoHeader /\ make' = [make EXCEPT !.step = "config"]
  /\ UNCHANGED <<fixed, makeDef, objects, program>>

\* The rule of npbparams.h: a header older than make.def is removed, and
\* setparams is run again.
HeaderRule ==
  /\ make.step = "header"
  /\ IF header.new THEN make' = [make EXCEPT !.step = "compile"] /\ UNCHANGED header
     ELSE header' = NoHeader /\ make' = [make EXCEPT !.step = "config"]
  /\ UNCHANGED <<fixed, makeDef, objects, program>>

\* The objects are compiled when they are missing or older than the header,
\* which removes the old ones first.
Compile ==
  /\ make.step = "compile"
  /\ IF objects.new THEN make' = [make EXCEPT !.step = "link"] /\ UNCHANGED objects
     ELSE objects' = NoObjects /\ make' = [make EXCEPT !.step = "compiling"]
  /\ UNCHANGED <<fixed, makeDef, header, program>>

Compiled ==
  /\ make.step = "compiling"
  /\ objects' = [class |-> header.class, subtype |-> header.subtype, def |-> header.def,
                 complete |-> header.complete, new |-> TRUE]
  /\ make' = [make EXCEPT !.step = "link"]
  /\ UNCHANGED <<fixed, makeDef, header, program>>

\* The program is linked every time; its name tells class and subtype.
Link ==
  /\ make.step = "link"
  /\ program' = [name |-> <<make.class, make.subtype>>, from |-> objects]
  /\ make' = Idle
  /\ UNCHANGED <<fixed, makeDef, header, objects>>

-----------------------------------------------------------------------------
\* make is interrupted; a target it was making may be removed.
Interrupt ==
  /\ make.step # "idle"
  /\ make' = Idle
  /\ \/ UNCHANGED header
     \/ make.step = "write" /\ header' = NoHeader
  /\ UNCHANGED <<fixed, makeDef, objects, program>>

\* make.def is changed between two runs of make.
EditMakeDef ==
  /\ make.step = "idle" /\ makeDef < MaxEdits
  /\ makeDef' = makeDef + 1
  /\ header' = [header EXCEPT !.new = FALSE]
  /\ make' = Idle /\ program' = NoProgram
  /\ UNCHANGED <<fixed, objects>>

\* make clean.
Clean ==
  /\ make.step = "idle"
  /\ header' = NoHeader /\ objects' = NoObjects /\ make' = Idle /\ program' = NoProgram
  /\ UNCHANGED <<fixed, makeDef>>

MakeNext ==
  \/ \E class \in Asked, subtype \in Subtypes : StartMake(class, subtype)
  \/ Configure \/ WriteInfo \/ HeaderRule \/ Compile \/ Compiled \/ Link
  \/ Interrupt \/ EditMakeDef \/ Clean

MakeSpec == MakeInit /\ [][MakeNext]_svars

-----------------------------------------------------------------------------
\* The program that make has linked, named for a class and subtype, was compiled
\* from the whole header of that class and subtype and with the make.def there
\* is, however often make was interrupted or failed before.
BinaryIsItsClass ==
  program # NoProgram =>
    /\ <<program.from.class, program.from.subtype>> = program.name
    /\ program.from.complete /\ program.from.def = makeDef

\* What is written into a header is right: integers wide enough for what they
\* count, and texts that are those of make.def and end where they are to end.
HeaderIsRight == make.step = "write" => KindsSuffice /\ TextsAreRight
=============================================================================
