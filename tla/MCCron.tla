-------------------------------- MODULE MCCron --------------------------------
(* Two ticks that both want the one job, which ignores SIGTERM. *)
EXTENDS Cron

EveryMinute == [t \in Ticks |-> Jobs]
=============================================================================
