---------------------------- MODULE MCPanelViews ----------------------------
(***************************************************************************)
(* PanelViews for TLC: a behaviour may follow any key some page reads.     *)
(***************************************************************************)
EXTENDS PanelViews
-----------------------------------------------------------------------------
AllKeys == UNION {DOMAIN Components[c].reads : c \in DOMAIN Components}
=============================================================================
