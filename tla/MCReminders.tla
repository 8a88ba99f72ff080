---------------------------- MODULE MCReminders ----------------------------
(* Small instances of Reminders for TLC: a van with a Hauptuntersuchung and *)
(* an UVV inspection and its driver, over a turn of the year.               *)
EXTENDS Reminders

CONSTANTS hu, uvv, fsk

KindOf == [s \in {hu, uvv, fsk} |->
             CASE s = hu -> "HU" [] s = uvv -> "UVV" [] s = fsk -> "FSK"]

(* The HU falls due on 31 January 2021, 38 days after the first day, the    *)
(* UVV inspection a week into the new year, the licence check before it.    *)
AnchorOf == [s \in {hu, uvv, fsk} |->
               CASE s = hu  -> On(2018, 1, 15)
                 [] s = uvv -> On(2020, 1, 8)
                 [] s = fsk -> On(2020, 6, 29)]

(* Christmas 2020: the week of New Year is W53 of 2020.                     *)
Christmas == On(2020, 12, 24)
Checked   == {On(2020, 8, 31)}

=============================================================================
