-------------------------- MODULE PanelComponents --------------------------
(***************************************************************************)
(* The form in which the panel's pages are written down: for each          *)
(* component of src/apps/web/src/app/(panel), the queries it shows and the *)
(* mutations it offers.  Wording, layout and the fields of the forms are   *)
(* left out.                                                               *)
(*                                                                         *)
(* A component is a record                                                 *)
(*   kind    "route" (a page), "tab" (mounted while its tab is chosen),    *)
(*           "dialog" (mounted while open and, inside AnimatePresence,     *)
(*           while it fades out, with mutations of its own) or             *)
(*           "form" (part of a page shown on demand, whose mutations are   *)
(*           the page's);                                                  *)
(*   on      the component it is mounted in ("" for a route);              *)
(*   reads   the query keys it observes, each with the collections the     *)
(*           query function reads;                                         *)
(*   polls   the keys it gives a refetchInterval;                          *)
(*   button  the keys a button of it fetches again;                        *)
(*   acts    its mutations: the collections changed, the keys success      *)
(*           invalidates, whether the control is disabled while the        *)
(*           mutation is pending, and what success does to the component:  *)
(*           "stays", "closes" it, or leaves for the route named.          *)
(***************************************************************************)
EXTENDS PanelApi, TLC

NoReads == [k \in {} |-> ""]
NoActs  == [a \in {} |-> ""]

Route(reads, acts) ==
  [ kind |-> "route", on |-> "", reads |-> reads, polls |-> {}, button |-> {},
    acts |-> acts ]

Tab(on, reads, acts) ==
  [ kind |-> "tab", on |-> on, reads |-> reads, polls |-> {}, button |-> {},
    acts |-> acts ]

Dialog(on, acts) ==
  [ kind |-> "dialog", on |-> on, reads |-> NoReads, polls |-> {}, button |-> {},
    acts |-> acts ]

Form(on, acts) ==
  [ kind |-> "form", on |-> on, reads |-> NoReads, polls |-> {}, button |-> {},
    acts |-> acts ]

Polling(component, keys) == [component EXCEPT !.polls = keys]
Refetching(component, keys) == [component EXCEPT !.button = keys]

\* A control of a row: it may be used again while its mutation is pending.
Row(changes, refresh) ==
  [ changes |-> changes, refresh |-> refresh, guarded |-> FALSE, then |-> "stays" ]

\* The submission of a form: disabled while pending, success closes the form.
Submit(changes, refresh) ==
  [ changes |-> changes, refresh |-> refresh, guarded |-> TRUE, then |-> "closes" ]

Guarded(act) == [act EXCEPT !.guarded = TRUE]
Unguarded(act) == [act EXCEPT !.guarded = FALSE]
Leaving(act, route) == [act EXCEPT !.then = route]
=============================================================================
