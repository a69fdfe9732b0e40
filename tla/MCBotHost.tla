------------------------------- MODULE MCBotHost -------------------------------
(* One bot with at most two LINE clients alive.                           *)
EXTENDS BotHost, TLC

CONSTANTS c1, c2
================================================================================
