---------------------------- MODULE MCRacePacket ----------------------------
(***************************************************************************)
(* RacePacket on small reports: every command up to two bytes longer than  *)
(* a report takes, every answer that fits.                                 *)
(***************************************************************************)
EXTENDS RacePacket

MCBytes == {1, 200}

MCCommands == UNION {[1 .. n -> MCBytes] : n \in 0 .. ReportSize - 2}
MCAnswers  == UNION {[1 .. n -> MCBytes] : n \in 1 .. ReportSize - 3}
=============================================================================
