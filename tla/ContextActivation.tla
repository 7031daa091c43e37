-------------------------- MODULE ContextActivation --------------------------
(***************************************************************************)
(* How ofono/modem.go picks the data context for MMS traffic.              *)
(* GetMMSContexts (472-495) walks ofono's GetContexts list and keeps the   *)
(* MMS-capable contexts: type mms, or an active type internet context with *)
(* a MessageCenter. The first one ofono marks Preferred ends the walk and  *)
(* is the only candidate. Otherwise a context that is active, or is the    *)
(* one nuntium stored as preferred, is put in front of those found so far, *)
(* and any other is appended. ActivateMMSContext (250-266) takes the       *)
(* first candidate that is active or that toggleActive (303-327) manages  *)
(* to activate within three tries.                                         *)
(*                                                                         *)
(* A context is a record [path, type, mc, active, preferred]: its object   *)
(* path, its Type property, whether it has a MessageCenter, and its Active *)
(* and Preferred properties.                                               *)
(***************************************************************************)
EXTENDS Naturals, Sequences
LOCAL INSTANCE SequencesExt

\* toggleActive's for i := 0; i < 3; i++
MaxTries == 3

\* the condition of GetMMSContexts' if on line 479
MMSCapable(c) == (c.type = "internet" /\ c.active /\ c.mc) \/ c.type = "mms"

\* the else-if of line 483: the context goes in front of the list
Prioritized(c, preferredContext) == c.path = preferredContext \/ c.active

(* The loop of GetMMSContexts (478-489), with mmsContexts as acc.          *)
RECURSIVE Collect(_, _, _)
Collect(cs, preferredContext, acc) ==
    IF cs = <<>> THEN acc
    ELSE LET c == Head(cs) IN
         IF ~MMSCapable(c) THEN Collect(Tail(cs), preferredContext, acc)
         ELSE IF c.preferred THEN <<c>>
         ELSE IF Prioritized(c, preferredContext)
              THEN Collect(Tail(cs), preferredContext, <<c>> \o acc)
              ELSE Collect(Tail(cs), preferredContext, Append(acc, c))

\* the candidate list; empty is the "No mms contexts found" error
GetMMSContexts(cs, preferredContext) == Collect(cs, preferredContext, <<>>)

=============================================================================
