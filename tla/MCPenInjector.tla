--------------------------- MODULE MCPenInjector ---------------------------
(* Profiles for TLC: the default one, one with a shared modifier and a      *)
(* toggle, and one with a mouse button and a chord.                         *)
EXTENDS PenInjector

Bind(kind, keys) == [kind |-> kind, keys |-> keys]
Profile(b1, b2, t) == (0 :> b1) @@ (1 :> b2) @@ (2 :> t)

MCProfiles ==
    {Profile(Bind("KeyHold", << "ctrl" >>), Bind("KeyHold", << "shift" >>),
             Bind("KeyTap", << "e" >>)),
     Profile(Bind("KeyHold", << "ctrl" >>), Bind("KeyHold", << "ctrl", "shift" >>),
             Bind("EraserToggle", << >>)),
     Profile(Bind("MouseButton", << "right" >>), Bind("None", << >>),
             Bind("KeyChord", << "ctrl", "shift" >>))}

=============================================================================
