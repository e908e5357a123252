---------------------------- MODULE MCDockerTest ----------------------------
(* One goroutine that executes relayer commands, two subnets.                 *)
EXTENDS DockerTest
CONSTANTS t1, s1, s2
=============================================================================
