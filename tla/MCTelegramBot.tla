---- MODULE MCTelegramBot ----
(* Values of TelegramBot's constants for TLC. *)
EXTENDS TelegramBot

CONSTANTS mine, team

Msg(c, k, b) == [chat |-> c, kind |-> k, body |-> b]
Own(b) == Msg(mine, "private", b)
Team(b) == Msg(team, "group", b)

\* Orders that matter for ownership, then one inbox per other kind of update.
SomeInboxes == {
    <<Own("claim"), Own("text")>>,
    <<Own("text"), Own("claim"), Own("file")>>,
    <<Team("claim"), Team("help")>>,
    <<Team("odd"), Team("large")>>,
    <<Own("none"), Own("odd")>>,
    <<Own("empty"), Msg(team, "other", "text")>>}
TeamOnly == {team}
SomeOptions == {
    [mode |-> "groups", stream |-> TRUE, documents |-> TRUE],
    [mode |-> "owners", stream |-> FALSE, documents |-> FALSE]}
====
