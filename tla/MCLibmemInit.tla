---------------------------- MODULE MCLibmemInit ----------------------------
(***************************************************************************)
(* One processor of each generation, a Zen5 whose AVX-512 is switched off  *)
(* and another vendor's; and values of the two variables that are absent,  *)
(* complete, cut short, misspelt or have empty fields.                     *)
(***************************************************************************)
EXTENDS LibmemInit

Cpu(amd, ebx, ecx) ==
  [amd |-> amd, ebx |-> ebx, ecx |-> ecx, l2 |-> 4096, l3 |-> 16384]

MCCpus ==
  { Cpu(TRUE, {"avx2", "rdseed"}, {}),                                \* Zen1
    Cpu(TRUE, {"avx2", "rdseed"}, {"rdpid"}),                         \* Zen2
    Cpu(TRUE, {"avx2", "rdseed", "erms"}, {"rdpid", "vpclmul"}),      \* Zen3
    Cpu(TRUE, {"avx2", "avx512", "rdseed", "erms"},
        {"rdpid", "vpclmul"}),                                        \* Zen4
    Cpu(TRUE, {"avx2", "avx512", "rdseed", "erms"},
        {"rdpid", "vpclmul", "movdiri"}),                             \* Zen5
    Cpu(TRUE, {"avx2", "rdseed", "erms"},
        {"rdpid", "vpclmul", "movdiri"}),                 \* Zen5 without AVX-512
    Cpu(FALSE, {"avx2", "avx512", "rdseed", "erms"},
        {"rdpid", "vpclmul", "movdiri"}) }                            \* not AMD

MCOperations ==
  { NULL, << "" >>, << "avx2" >>, << "avx2", "b" >>, << "avx2", "b", "" >>,
    << "junk", "b", "b" >>, << "avx2", "b", "yes" >>, << "", "avx512", "n", "n" >>,
    << "erms", "w", "w" >>, << "avx512", "y", "", "y" >>,
    << "avx3", "b", "y" >>, << "ermsx", "w", "w" >> }

MCThresholds ==
  { NULL, << "" >>, << "10", "20" >>, << "10", "20", "20", "" >>,
    << "10", "20", "20", "-1" >>, << "10", "-1", "0x20", "-1" >>,
    << "junk", "20", "20", "-1" >> }

\* Behind the literal there is a terminator or a letter.
MCPastEnd == {"", "a"}

MCEnvs == [operation : MCOperations, threshold : MCThresholds]

=============================================================================
