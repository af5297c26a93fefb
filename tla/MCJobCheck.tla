---------------------------- MODULE MCJobCheck ----------------------------
(***************************************************************************)
(* Two scripts under one glob, and what may stand in them.                 *)
(***************************************************************************)
EXTENDS JobCheck

MCCount == [w \in Word |-> CASE w = "1" -> 1 [] w = "2" -> 2 [] OTHER -> None]
MCBytes == [w \in Word |-> CASE w = "2G" -> 2 [] w = "4G" -> 3 [] OTHER -> None]

E(kind, key, value) == [kind |-> kind, key |-> key, value |-> value]

TwoCores == E("sbatch", "-c", "2")
Memory == E("sbatch", "--mem", "4G")
PerCpu == E("sbatch", "--mem-per-cpu", "2G")
Threaded == E("shell", "=", "OMP_NUM_THREADS")
Whole == E("sbatch", "--exclusive", None)

Sizes == {TwoCores, E("sbatch", "-c", "$N"), E("pbs", "ncpus", "1"), Memory, PerCpu}

Other == {E("sbatch", None, None), E("shell", None, None), Threaded, Whole,
          E("sbatch", "--gpus", "1"), E("pbs", "ngpus", "$N"), E("pbs", "mem", "2G")}

MCScript ==
  {<<>>} \cup {<<e>> : e \in Sizes \cup Other} \cup {<<d, e>> : d, e \in Sizes}
  \cup {<<TwoCores, e>> : e \in Other}
  \cup {<<Memory, PerCpu, TwoCores>>, <<PerCpu, TwoCores, Memory>>, <<Threaded, Whole, TwoCores>>}

C(kind, workers, threads, set, bounded) ==
  [kind |-> kind, workers |-> workers, threads |-> threads, threadsSet |-> set,
   bounded |-> bounded]

MCFile ==
  {<<C("cluster", None, None, FALSE, TRUE), C("cluster", 2, None, FALSE, TRUE)>>,
   <<C("cluster", 1, 2, TRUE, TRUE), C("cluster", 2, 2, TRUE, TRUE)>>,
   <<C("cluster", None, None, TRUE, TRUE)>>,
   <<C("open", None, None, FALSE, FALSE), C("open", None, None, FALSE, TRUE)>>,
   <<C("pool", None, None, FALSE, FALSE)>>}
=============================================================================
