---------------------------- MODULE MCOperators ----------------------------
(* An instance of Operators for TLC.  Colon is a password that begins with *)
(* a colon, of which nothing comes back from the file.                     *)
EXTENDS Operators

CONSTANTS Ann, Bob, Colon

MCNames     == {Ann, Bob, DefaultName}
MCPasswords == {Colon}
MCCut       == [pass \in Passwords |-> NoPassword]
MCLevels    == {0, 5}
MCFiles     == {<<OpEntry(Bob, Colon, Moderator), OpEntry(Ann, NoPassword, SysOp),
                  OpEntry(Bob, NoPassword, SuperModerator)>>}
=============================================================================
