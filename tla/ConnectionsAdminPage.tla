------------------------ MODULE ConnectionsAdminPage ------------------------
(***************************************************************************)
(* The page on which an Admin adds, edits and deletes connections: a list, *)
(* asked for again after every change, and one form, which adds a          *)
(* connection or edits the one that editing names.  Of what is typed, the  *)
(* name stands for the rest, and it is chosen as the form is submitted.    *)
(***************************************************************************)
EXTENDS ClientSession

OnConnectionsAdmin(t) == view[t].page = "connectionsAdmin"

Listed(t) == {c \in DOMAIN view[t].rows : view[t].rows[c] # Gone}

StartEdit(t, c) ==
  /\ OnConnectionsAdmin(t)
  /\ c \in Listed(t)
  /\ Becomes(t, [view[t] EXCEPT !.editing = c])
  /\ UNCHANGED calls
  /\ SessionKept

\* resetForm, by the button that only an edit has.
Cancel(t) ==
  /\ OnConnectionsAdmin(t) /\ view[t].editing # Adding
  /\ Becomes(t, [view[t] EXCEPT !.editing = Adding])
  /\ UNCHANGED calls
  /\ SessionKept

\* As often as the user likes: nothing disables the button.
HandleSubmit(t, name) ==
  /\ OnConnectionsAdmin(t) /\ Room
  /\ calls' = Sent(calls, Call(t, "save",
                               [id |-> view[t].editing, name |-> name],
                               stored))
  /\ UNCHANGED view
  /\ SessionKept

\* Keeps what was edited as the button was drawn.
HandleDelete(t, c) ==
  /\ OnConnectionsAdmin(t) /\ Room
  /\ c \in Listed(t)
  /\ calls' = Sent(calls, Call(t, "remove",
                               [id |-> c, editing |-> view[t].editing],
                               stored))
  /\ UNCHANGED view
  /\ SessionKept

\* Mutants: any deletion empties the form; the list is not asked for again.
EmptiesFormAlways(i) == calls[i].what \in {"save", "remove"}

ChangedUnlisted(i) ==
  LET t == calls[i].tab
      c == calls[i]
  IN  /\ c.what \in {"save", "remove"} /\ Ok(i)
      /\ Becomes(t, IF c.mounted THEN [view[t] EXCEPT !.editing = Adding]
                    ELSE view[t])
      /\ Answered(i)
      /\ SessionKept

\* The answer to a save, whatever the form holds by now, or to the deletion of
\* the connection that was edited then.
EmptiesForm(i) ==
  \/ calls[i].what = "save"
  \/ calls[i].what = "remove" /\ calls[i].arg.editing = calls[i].arg.id

ListDoubted(v, doubt) ==
  IF v.page = "connectionsAdmin" THEN [v EXCEPT !.doubt = @ \/ doubt] ELSE v

\* The form, and reload, the latter also if the page has been left; a later
\* visit does not come to know of the change.
Changed(i) ==
  LET t == calls[i].tab
      c == calls[i]
  IN  /\ c.what \in {"save", "remove"} /\ Ok(i)
      /\ Becomes(t, IF c.mounted
                    THEN [view[t] EXCEPT
                            !.latest = FALSE, !.doubt = FALSE,
                            !.editing = IF EmptiesForm(i) THEN Adding ELSE @]
                    ELSE ListDoubted(view[t], TRUE))
      /\ calls' = Sent(RemoveAt(calls, i), CallAfter(c, "rows"))
      /\ SessionKept

\* The change was made, if perhaps not yet read back.
Made(i) == calls[i].answer \in {"ok", "stored"}

\* The form stays as it is, and so does the list, even if the change was made
\* and only its answer is lost.
NotChanged(i) ==
  LET t == calls[i].tab
  IN  /\ calls[i].what \in {"save", "remove"} /\ Fails(i)
      /\ Becomes(t, ListDoubted(view[t], Made(i)))
      /\ Answered(i)
      /\ SessionKept

RowsListed(i) ==
  LET t == calls[i].tab
  IN  /\ calls[i].what = "rows" /\ calls[i].mounted
      /\ \/ Ok(i) /\ Becomes(t, [view[t] EXCEPT !.rows = calls[i].value,
                                               !.latest = calls[i].latest])
         \/ Fails(i) /\ UNCHANGED view
      /\ Answered(i)
      /\ SessionKept

=============================================================================
