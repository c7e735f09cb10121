----------------------------- MODULE MCContext -----------------------------
(***************************************************************************)
(* ContextGovernance on short texts with at most two signals.  An overlap  *)
(* of two characters stands for the 64 of the code.                        *)
(***************************************************************************)
EXTENDS ContextGovernance

CONSTANTS Lengths, UsedKinds, SignalLengths

MCSignals(length) ==
    {s \in [kind : UsedKinds, from : 0..length, to : 0..length] :
        s.to - s.from \in SignalLengths}

Apart(s, t) == s.to <= t.from \/ t.to <= s.from

MCTexts ==
    UNION {{[length |-> length, signals |-> {s, t}] :
               s \in MCSignals(length), t \in MCSignals(length)} :
             length \in Lengths}
    \cup {[length |-> length, signals |-> {}] : length \in Lengths \cup {0}}

\* Two signals do not share characters.
MCApartTexts ==
    {x \in MCTexts : \A s, t \in x.signals : s = t \/ Apart(s, t)}

=============================================================================
