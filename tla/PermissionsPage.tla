-------------------------- MODULE PermissionsPage --------------------------
(***************************************************************************)
(* The permission matrix, with one cell: a click sets the level after the  *)
(* one shown and then asks for the levels again.                           *)
(***************************************************************************)
EXTENDS ClientSession

\* cycleCell's next level.
NextLevel(l) == Levels[(SelectInSeq(Levels, LAMBDA m : m = l) % Len(Levels)) + 1]

\* Users and connections, without which there are no cells.
AxisListed(i) ==
  LET t == calls[i].tab
  IN  /\ calls[i].what \in {"users", "connections"} /\ calls[i].mounted
      /\ \/ Ok(i) /\ Becomes(t, [view[t] EXCEPT !.loaded = @ \cup {calls[i].what}])
         \/ Fails(i) /\ UNCHANGED view
      /\ Answered(i)
      /\ SessionKept

LevelsListed(i) ==
  LET t == calls[i].tab
  IN  /\ calls[i].what = "perms" /\ calls[i].mounted
      /\ \/ Ok(i) /\ Becomes(t, [view[t] EXCEPT !.level = calls[i].value,
                                               !.latest = calls[i].latest])
         \/ Fails(i) /\ Becomes(t, [view[t] EXCEPT !.doubt = TRUE])
      /\ Answered(i)
      /\ SessionKept

Click(t) ==
  /\ view[t].page = "permissions" /\ Room
  /\ view[t].loaded = {"users", "connections"}
  /\ calls' = Sent(calls, Call(t, "set", NextLevel(view[t].level), stored))
  /\ UNCHANGED view
  /\ SessionKept

Doubted(v) ==
  IF v.page = "permissions" THEN [v EXCEPT !.doubt = TRUE] ELSE v

\* Mutant: the cell shows the level that was set, and no list is asked for.
LevelSetAssumed(i) ==
  LET t == calls[i].tab
      c == calls[i]
  IN  /\ c.what = "set" /\ Ok(i)
      /\ Becomes(t, IF c.mounted THEN [view[t] EXCEPT !.level = c.arg]
                    ELSE Doubted(view[t]))
      /\ Answered(i)
      /\ SessionKept

\* reloadPermissions, also if the page has been left.
LevelSet(i) ==
  LET t == calls[i].tab
      c == calls[i]
  IN  /\ c.what = "set" /\ Ok(i)
      /\ Becomes(t, IF c.mounted
                    THEN [view[t] EXCEPT !.latest = FALSE, !.doubt = FALSE]
                    ELSE Doubted(view[t]))
      /\ calls' = Sent(RemoveAt(calls, i), CallAfter(c, "perms"))
      /\ SessionKept

LevelNotSet(i) ==
  LET t == calls[i].tab
  IN  /\ calls[i].what = "set" /\ Fails(i)
      /\ Becomes(t, Doubted(view[t]))
      /\ Answered(i)
      /\ SessionKept

=============================================================================
