------------------------------- MODULE Codes -------------------------------
(***************************************************************************)
(* Preamble codes in CHAN_CTRL: how dwt_configure writes them and how       *)
(* dwt_restoreconfig reads them after a sleep.                              *)
(***************************************************************************)
EXTENDS Naturals

\* CHAN_CTRL_ID as dwt_configure writes it.
ChanCtrl(c) == c.rxCode * 256 + c.txCode * 8 + (IF c.chan = 9 THEN 1 ELSE 0)

Prf64(code) == code >= 9 /\ code <= 24

\* Line 1212 shifts CHAN_CTRL by 3 and then applies the mask of the unshifted
\* field, 0xf8.
RestoredCode(cc) == 8 * ((cc \div 64) % 32)
=============================================================================
