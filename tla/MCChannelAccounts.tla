-------------------------- MODULE MCChannelAccounts --------------------------
(* Small instances of ChannelAccounts for TLC. *)
EXTENDS ChannelAccounts, TLC

CONSTANTS feishu, wechat, r1, r2, r3, r4

MCOrder == <<feishu, wechat>>

Symmetry == Permutations(Refreshes)
=============================================================================
