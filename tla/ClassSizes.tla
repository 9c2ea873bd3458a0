----------------------------- MODULE ClassSizes -----------------------------
(* What setparams knows of the classes of the benchmarks: which of them a   *)
(* benchmark has, and the sizes it writes for each into npbparams.h         *)
(* (sys/setparams.c of NPB3.4-MPI and NPB3.4-OMP).  A table has an entry    *)
(* for each class that its writer accepts; numbers that may pass 2^31 are   *)
(* kept as products of small ones.  Steps of time and other reals are left  *)
(* out.                                                                     *)
EXTENDS Integers, Sequences, FiniteSets, SequencesExt

AllClasses == <<"S", "W", "A", "B", "C", "D", "E", "F">>

\* The classes in order, with what belongs to each.
Table(entries) == [c \in {AllClasses[i] : i \in DOMAIN entries} |->
                    entries[CHOOSE i \in DOMAIN entries : AllClasses[i] = c]]

write_sp_info == Table(<<<<12, 100>>, <<36, 400>>, <<64, 400>>, <<102, 400>>, <<162, 400>>, <<408, 500>>,
                         <<1020, 500>>, <<2560, 500>>>>)
write_bt_info == Table(<<<<12, 60>>, <<24, 200>>, <<64, 200>>, <<102, 200>>, <<162, 200>>, <<408, 250>>,
                         <<1020, 250>>, <<2560, 250>>>>)
write_lu_info == Table(<<<<12, 50>>, <<33, 300>>, <<64, 250>>, <<102, 250>>, <<162, 250>>, <<408, 300>>,
                         <<1020, 300>>, <<2560, 300>>>>)
write_mg_info == Table(<<32, 128, 256, 256, 512, 1024, 2048, 4096>>)  \* points each way
write_ft_info == Table(<<<<64, 64, 64>>, <<128, 128, 32>>, <<256, 256, 128>>, <<512, 256, 256>>, <<512, 512, 512>>,
                         <<2048, 1024, 1024>>, <<4096, 2048, 2048>>, <<8192, 4096, 4096>>>>)  \* nx, ny, nz
write_cg_info == Table(<<[na |-> 1400, nonzer |-> 7], [na |-> 7000, nonzer |-> 8], [na |-> 14000, nonzer |-> 11],
                         [na |-> 75000, nonzer |-> 13], [na |-> 150000, nonzer |-> 15],
                         [na |-> 1500000, nonzer |-> 21], [na |-> 9000000, nonzer |-> 26],
                         [na |-> 54000000, nonzer |-> 31]>>)
write_ep_info == Table(<<24, 25, 28, 30, 32, 36, 40, 44>>)
write_is_info == Table(<<0, 0, 0, 0, 0, 0, 0>>)  \* no sizes: is.c has its own
write_dc_info == Table(<<[input_tuples |-> 1000, attrnum |-> 5], [input_tuples |-> 100000, attrnum |-> 10],
                         [input_tuples |-> 1000000, attrnum |-> 15], [input_tuples |-> 10000000, attrnum |-> 20]>>)
write_ua_info == Table(<<250, 700, 2400, 8800, 33500, 514400, 7844800>>)  \* lelt
write_dt_info ==
  LET sized(samples, deviation, sources) ==
        [num_samples |-> 1728 * samples, deviation |-> 128 * deviation, num_sources |-> 4 * sources]
  IN  Table(<<sized(1, 1, 1), sized(8, 2, 2), sized(64, 4, 4), sized(512, 8, 8), sized(4096, 16, 16),
              sized(32768, 32, 32)>>)

Types(version) ==
  {"sp", "bt", "lu", "mg", "ft", "is", "ep", "cg"} \cup (IF version = "MPI" THEN {"dt"} ELSE {"ua", "dc"})

\* The classes that write_info() can write for a benchmark: for any other it is
\* an internal error.
WrittenClasses(type) ==
  DOMAIN [sp |-> write_sp_info, bt |-> write_bt_info, lu |-> write_lu_info, mg |-> write_mg_info,
          ft |-> write_ft_info, is |-> write_is_info, ep |-> write_ep_info, cg |-> write_cg_info,
          dt |-> write_dt_info, ua |-> write_ua_info, dc |-> write_dc_info][type]

\* check_info() of each version lets a class through.
mpi_check_info(type, class) ==
  class \in Range(AllClasses) /\ ~((class = "E" /\ type = "dt") \/ (class = "F" /\ type \in {"is", "dt"}))

omp_check_info(type, class) ==
  /\ class \in Range(AllClasses)
  /\ ~\/ class = "E" /\ type \in {"ua", "dc"}
      \/ class = "F" /\ type \in {"is", "ua", "dc"}
      \/ class \in {"C", "D"} /\ type = "dc"

-----------------------------------------------------------------------------
\* ilog2(): -1 for what is no power of two, or not below 2^30.
ilog2(i) == IF \E l \in 0 .. 29 : 2 ^ l = i THEN CHOOSE l \in 0 .. 29 : 2 ^ l = i ELSE -1

\* mutant: the larger kind comes a class later.
LaterKind(size) == IF size > 2048 THEN 8 ELSE 4

\* The size of the integers that count the points of MG and FT (OpenMP).
kind2(size) == IF size > 1024 THEN 8 ELSE 4

\* That of the integers that count the elements of CG's matrix (OpenMP).
kz(class) == IF write_cg_info[class].na >= 9000000 THEN 8 ELSE 4

\* The product of numbers is below 2^31.
FitsInt(numbers) ==
  LET left[i \in 0 .. Len(numbers)] == IF i = 0 THEN 2147483647 ELSE left[i - 1] \div numbers[i]
  IN  left[Len(numbers)] >= 1

\* Where integers of four bytes are chosen they count all there is to count:
\* the points of FT, those of MG with their borders, the elements of the rows
\* of CG's matrix; and MG's size has a logarithm.
KindsSuffice ==
  /\ \A c \in DOMAIN write_mg_info :
       LET n == write_mg_info[c] IN ilog2(n) # -1 /\ (kind2(n) = 4 => FitsInt(<<n + 2, n + 2, n + 2>>))
  /\ \A c \in DOMAIN write_ft_info :
       LET n == write_ft_info[c]
           largest == CHOOSE m \in Range(n) : \A k \in Range(n) : k <= m
       IN  kind2(largest) = 4 => FitsInt(n)
  /\ \A c \in DOMAIN write_cg_info :
       LET n == write_cg_info[c] IN kz(c) = 4 => FitsInt(<<n.na, n.nonzer + 1, n.nonzer + 1>>)

-----------------------------------------------------------------------------
Cut(s, n) == SubSeq(s, 1, IF Len(s) < n THEN Len(s) ELSE n)

\* fix_string_quote(): an escape before each quote, and no more than maxl
\* characters.
fix_string_quote(val, maxl) ==
  FoldLeft(LAMBDA new, ch : Cut(new \o IF ch = "quote" THEN <<"escape", ch>> ELSE <<ch>>, maxl), <<>>, val)

\* mutant: what is too long is cut without dots.
CutShort(val, MAXL) == Cut(fix_string_quote(val, MAXL + 2), MAXL)

\* put_def_string(): what is longer than MAXL is cut there and ends in three
\* dots.
put_def_string(val, MAXL) ==
  LET fixed == fix_string_quote(val, MAXL + 2)
  IN  IF Len(fixed) > MAXL THEN Cut(fixed, MAXL - 3) \o <<".", ".", ".">> ELSE fixed

\* mutant: a label that begins with the one looked for is taken for it.
BeginsWith(lines, label) ==
  LET EndOf(i) == CHOOSE j \in i .. Len(lines) : ~(lines[j].more /\ j < Len(lines)) /\ \A k \in i .. j - 1 : lines[k].more
      val[i \in 1 .. Len(lines) + 1, found \in Seq({"a", "b", "(none)"})] ==
        IF i > Len(lines) THEN found
        ELSE IF IsPrefix(label, lines[i].label)
          THEN val[EndOf(i) + 1, [k \in 1 .. EndOf(i) - i + 1 |-> lines[i + k - 1].word]]
        ELSE val[i + 1, found]
  IN  val[1, <<"(none)">>]

\* write_compiler_info() with check_line(): the value of a label in make.def, of
\* the last line that has the label, with the lines it is continued on; a line
\* is [label, word, more].
compiler_info(lines, label) ==
  LET EndOf(i) == CHOOSE j \in i .. Len(lines) : ~(lines[j].more /\ j < Len(lines)) /\ \A k \in i .. j - 1 : lines[k].more
      val[i \in 1 .. Len(lines) + 1, found \in Seq({"a", "b", "(none)"})] ==
        IF i > Len(lines) THEN found
        ELSE IF IsPrefix(label, lines[i].label) /\ Len(label) = Len(lines[i].label)
          THEN val[EndOf(i) + 1, [k \in 1 .. EndOf(i) - i + 1 |-> lines[i + k - 1].word]]
        ELSE val[i + 1, found]
  IN  val[1, <<"(none)">>]

\* What make takes for the value: logical lines are put together first.
MakeValue(lines, label) ==
  LET begins == {i \in DOMAIN lines : i = 1 \/ ~lines[i - 1].more}
      mine == {i \in begins : lines[i].label = label}
      words(i) == [k \in 1 .. Cardinality({j \in i .. Len(lines) : \A m \in i .. j - 1 : lines[m].more}) |-> lines[i + k - 1].word]
  IN  IF mine = {} THEN <<"(none)">> ELSE words(CHOOSE i \in mine : \A j \in mine : j <= i)

\* What the header tells of make.def is what make takes from it (when the lines
\* that continue others look like no label), and is a string literal: no quote
\* closes it early, and no escape is left for the quote that closes it (for
\* strings of quotes and other characters but escapes).
TextsAreRight ==
  /\ \A n \in 0 .. 3 :
       \A lines \in [1 .. n -> [label : {<<"F">>, <<"F", "L">>, <<>>}, word : {"a", "b"}, more : BOOLEAN]] :
         (\A i \in 2 .. n : lines[i - 1].more => lines[i].label = <<>>) =>
           compiler_info(lines, <<"F">>) = MakeValue(lines, <<"F">>)
  /\ \A n \in 0 .. 7 : \A val \in [1 .. n -> {"c", "quote"}] :
       LET s == put_def_string(val, 4)
       IN  /\ Len(s) <= 4
           /\ \A i \in DOMAIN s : s[i] = "quote" => i > 1 /\ s[i - 1] = "escape"
           /\ s # <<>> => s[Len(s)] # "escape"
=============================================================================
