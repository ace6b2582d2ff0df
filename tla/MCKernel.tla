------------------------------- MODULE MCKernel -------------------------------
EXTENDS Kernel

(* Next with the requests that Ipc.cfg names: processes that talk to each  *)
(* other and are preempted, and neither stop nor give the CPU up.          *)
NextIpc ==
    \/ Create \/ GetPid \/ Timer
    \/ \E d \in 0 .. MaxPid, buf \in BufLens, msg \in MsgLens, ok \in Buffers :
          SendTo(d, buf, msg, ok)
    \/ \E f \in 0 .. MaxPid, buf \in BufLens, ok \in Buffers : Receive(f, buf, ok)

SpecIpc == Init /\ [][NextIpc]_kern
=============================================================================
