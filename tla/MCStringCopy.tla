---------------------------- MODULE MCStringCopy ----------------------------
(***************************************************************************)
(* AVX-512 registers of 16 bytes and pages of 64, so that each of the four *)
(* registers down to a WORD is another, and a page holds one group of four *)
(* AVX-512 vectors or two of AVX2 ones.                                    *)
(***************************************************************************)
EXTENDS StringCopy

MCDstLens == {0, 5}

\* The start of a page and of a line, inside one, and in the last vectors of a page.
MCSources == {0, 3, 29, 47, 50, 57, 61, 63}

\* strcpy and strcat have no size.
NoSize == {SizeSpan - 1}

\* Around every vector, through the counted ones and the first groups behind them.
MCLengths ==
  (0 .. 19) \cup {23, 24, 25, 31, 32, 34, 40, 41, 47, 48, 49, 55, 57} \cup (61 .. 66)
    \cup {72, 79, 80, 81, 88, 93, 95, 96, 98, 111, 112, 115, 127, 128, 129, 143, 144, 160,
          176, 191, 192, 200}

\* Every remainder of a vector, and of the vectors behind a group.
MCSizes ==
  {24, 32, 33, 39, 47, 48, 56, 63, 64, 65, 77, 87, 88, 90, 96, 103, 112, 120, 128, 131, 144,
   163, 190}

MCCalls ==
  { [routines |-> Strcpys \cup Strcats,
     starts |-> MCSources \X {0}, sizes |-> NoSize, firsts |-> MCLengths, gaps |-> {0, 33}],
    [routines |-> Strncpys,
     starts |-> {0, 50, 57, 59, 61, 63} \X {0}, sizes |-> 0 .. 20, firsts |-> 0 .. 20,
     gaps |-> {0}],
    [routines |-> Strncpys,
     starts |-> {0, 29, 47, 57, 61} \X {0, 5}, sizes |-> MCSizes,
     firsts |-> {0, 5, 7, 8, 15, 16, 24, 30, 32, 44, 55, 63, 71, 80, 95, 111, 128, 140, 161,
                 188}, gaps |-> {0}],
    [routines |-> Strncats,
     starts |-> {<<3, 0>>}, sizes |-> {0, 1, 2, 7, 20}, firsts |-> {0, 1, 2, 6, 7, 8, 40},
     gaps |-> {0}] }

=============================================================================
