---------------------------- MODULE MCBalanceMerge ----------------------------
(* Two spellings of store 5, the warehouse under either side's name for it, a name
   without digits, and the blank name.                                             *)
EXTENDS BalanceMerge, TLC

MCFirstDigits == ("Sweet Fire 5" :> 5) @@ ("SF 5 Hill" :> 5)

MCRyoNames == {"Sweet Fire 5", "SF 5 Hill", "SFT-WHOLESALE", "Hill", ""}

MCSasNames == {"Sweet Fire 5", "SWEET FIRE TOB WHSE", "Hill", ""}

Of(form, digits) == [form |-> form, digits |-> digits]

MCRyoCells == {Of("plain", 7), Of("text", 0), Of("blank", 0)}

MCSasCells == {Of("plain", 5), Of("accounting", 3), Of("text", 0), Of("blank", 0)}
=============================================================================
