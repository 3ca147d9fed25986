----------------------------- MODULE MCExamples -----------------------------
(* TLC instance of exampleProjects/, which share no state; part selects one *)
(* program or the TCP stream they use.  Times are scaled: a unit is 100 ms  *)
(* for heartbeat, lifecycle and pingpong, 5 ms for sensorpoll; multirate    *)
(* keeps the order of its rates.                                            *)
EXTENDS CrunchLoop, PingPong, PeriodicExamples, SensorPoll, TcpStream
VARIABLE part

MCPeriodOf == [pulse |-> 5, fast |-> 1, slow |-> 5, worker |-> 2, monitor |-> 5]
MCDrainMs == [heartbeat |-> 1, multirate |-> 2]

MCInit ==
    /\ CrunchInit /\ PingPongInit /\ PeriodicInit /\ SensorInit /\ TcpInit
    /\ part \in {"crunchloop", "pingpong", "periodic", "sensorpoll", "tcp"}
    /\ part # "pingpong" => ~forever
    /\ part # "periodic" => example = HeartbeatMain /\ buildAt = 0

MCNext ==
    \/ /\ part = "crunchloop" /\ CrunchNext
       /\ UNCHANGED <<part, pingPongVars, periodicVars, sensorVars, tcpVars>>
    \/ /\ part = "pingpong" /\ PingPongNext
       /\ UNCHANGED <<part, vars, crunchVars, periodicVars, sensorVars, tcpVars>>
    \/ /\ part = "periodic" /\ PeriodicNext
       /\ UNCHANGED <<part, vars, crunchVars, pingPongVars, sensorVars, tcpVars>>
    \/ /\ part = "sensorpoll" /\ SensorNext
       /\ UNCHANGED <<part, vars, crunchVars, pingPongVars, periodicVars, tcpVars>>
    \/ /\ part = "tcp" /\ TcpNext
       /\ UNCHANGED <<part, vars, crunchVars, pingPongVars, periodicVars, sensorVars>>

MCSpec == MCInit /\ [][MCNext]_<<part, vars, crunchVars, pingPongVars, periodicVars,
                                 sensorVars, tcpVars>>
=============================================================================
