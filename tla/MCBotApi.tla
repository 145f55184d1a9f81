------------------------------ MODULE MCBotApi ------------------------------
(* Five updates, answers of two: a whole answer may carry no message.       *)
EXTENDS BotApiLoop

MCSilent == {2, 3}
MCConfigs == [updates : BOOLEAN, drop : BOOLEAN]
=============================================================================
