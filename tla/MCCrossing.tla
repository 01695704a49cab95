------------------------------ MODULE MCCrossing -------------------------------
(* What crosses between C++ and Lua: a text, a value, or a call.  One of the   *)
(* three happens, and the other two rest.                                      *)
EXTENDS MCText, MCValues, MCCalls

NoText ==
  /\ text = <<>> /\ kind = "lua" /\ phase = "done" /\ pos = 1
  /\ needed = 0 /\ room = 0 /\ lua = <<>> /\ target = "utf16" /\ read = <<>>

NoValue ==
  /\ build = {} /\ registry = NoBases /\ type = String /\ sent = Nothing
  /\ found = <<>> /\ slots = <<>> /\ missing = 0 /\ told = [q \in Questions |-> Unasked]

NoCall ==
  /\ call = Bound("none", "none", <<>>, NoPolicies, "nothing", <<>>) /\ pc = "gone"
  /\ stack = <<>> /\ cand = 0 /\ got = <<>> /\ made = Unmade /\ pinned = FALSE
  /\ uses = <<>> /\ dead = {} /\ threw = FALSE /\ outcome = "none"

MCInit ==
  \/ Init /\ NoValue /\ NoCall
  \/ ValueInit /\ NoText /\ NoCall
  \/ CallsInit /\ NoText /\ NoValue

Converts == sent = Nothing /\ found = <<>> /\ call.how = "none"

TextNext == Converts /\ Next /\ UNCHANGED <<valueVars, callVars>>

(* A call that is over rests. *)
MCNext ==
  \/ TextNext
  \/ ValueNext /\ UNCHANGED <<vars, callVars>>
  \/ CallsNext /\ UNCHANGED <<vars, valueVars>>
  \/ pc = "gone" /\ call.how # "none" /\ UNCHANGED <<vars, valueVars, callVars>>

MCSpec == MCInit /\ [][MCNext]_<<vars, valueVars, callVars>> /\ WF_vars(TextNext)
================================================================================
