----------------------------- MODULE MCHsaClient -----------------------------
(* TLC instance of HsaClient: a platform with two GPUs and two CPUs, of      *)
(* which only the second has all pools, and three the constructor has to    *)
(* refuse.                                                                  *)
EXTENDS HsaClient

CONSTANTS t1, t2

Cpu(pools) == [type |-> "cpu", pools |-> pools]
Gpu(pools) == [type |-> "gpu", pools |-> pools]

MCPlatforms ==
  {<<Gpu(<<"group", "standard">>), Cpu(<<"standard">>), Cpu(<<"kern_arg", "standard">>),
     Gpu(<<"standard">>)>>,
   <<Cpu(<<"standard">>), Gpu(<<"standard">>)>>,
   <<Cpu(<<"standard", "kern_arg">>), Gpu(<<"group">>)>>,
   <<Cpu(<<"standard", "kern_arg">>), [type |-> "dsp", pools |-> <<>>]>>}
=============================================================================
