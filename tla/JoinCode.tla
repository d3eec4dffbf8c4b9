------------------------------ MODULE JoinCode ------------------------------
(***************************************************************************)
(* A join code on its way from the host's dialog to the guest's: as a      *)
(* share link, over the web page /j/CODE, as a deep link or through the    *)
(* clipboard, into the desktop application.  A code is known by its        *)
(* length, whether it is in upper case and whether it has its dash, a text *)
(* by its scheme, its route and the code in it; the letters never change   *)
(* but for their case.                                                     *)
(***************************************************************************)
EXTENDS Naturals

CONSTANTS CodeLength,   \* lengths, without dashes, of what is passed as a code
          NoCode

ASSUME CodeAssumption == CodeLength \subseteq Nat

Code == [len : CodeLength, upper : BOOLEAN, dashed : BOOLEAN]

(* What generate_join_code makes: XXX-XXX in capitals. *)
HostCode == [len |-> 6, upper |-> TRUE, dashed |-> TRUE]

Text(scheme, route, code) == [scheme |-> scheme, route |-> route, code |-> code]

(* makeShareLink, and the link the join page copies. *)
makeShareLink(code) == Text("https", "j", code)

(* Seeded fault: the code is returned without its dash. *)
formatJoinCode_Bare(code) == [code EXCEPT !.dashed = FALSE]

formatJoinCode(code) == [code EXCEPT !.dashed = code.len = 6]

(* toUpperCase, and everything but letters and digits removed. *)
Stripped(code) == [code EXCEPT !.upper = TRUE, !.dashed = FALSE]

(* App.tsx: what the desktop application makes of a text.  A deep link is  *)
(* measured before its dash is taken out.                                  *)
extractJoinCode(text) ==
    LET length == text.code.len
        withDash == length + (IF text.code.dashed THEN 1 ELSE 0)
        usable == CASE text.scheme = "wormhole" -> withDash >= 6
                    [] text.scheme = "https" -> text.route \in {"j", "join"} /\ length >= 6
                    [] OTHER -> length = 6
    IN  IF usable THEN formatJoinCode(Stripped(text.code)) ELSE NoCode

(* The join page. *)
normalizeJoinCode(code) == [Stripped(code) EXCEPT !.dashed = code.len = 6]

isValidJoinCode(code) == code.len \in 6 .. 12
=============================================================================
