---------------------------- MODULE MCStreamSetup ----------------------------
(***************************************************************************)
(* Desktops of two or three outputs in several orders, an odd screen, a    *)
(* turned one and one that is not attached; one or two encoders; units of  *)
(* up to three NAL units with both start codes, some with zeros inside.    *)
(***************************************************************************)
EXTENDS StreamSetup

Output(name, w, h) ==
  [name |-> name, w |-> w, h |-> h, turned |-> FALSE, attached |-> TRUE, primary |-> FALSE]

Main == [Output("main", 48, 27) EXCEPT !.primary = TRUE]
Ext == [Output("ext", 16, 32) EXCEPT !.turned = TRUE]
Ghost == [Output("ghost", 12, 8) EXCEPT !.attached = FALSE]
Tablet == Output("virtual", 18, 28)

MCDesks == {<<Main, Tablet>>, <<Ext, Main, Tablet>>, <<Main, Ghost, Tablet, Ext>>,
            <<Tablet, Ext, Main>>, <<Ext, Ghost>>}
MCSources == {{}, {"main"}, {"ext", "virtual"}}
MCSizeArgs == {<<0, 0>>, <<13, 9>>, <<40, 5>>, <<60, 60>>, <<3, 3>>}
MCScales == {1, 2, 3, 4}

MCEncoders ==
  [hw : {TRUE}, preferred : BOOLEAN, takes : SUBSET {"memory", "texture"},
   pool : {"no device", "fails", "works"}]
    \cup [hw : {FALSE}, preferred : BOOLEAN, takes : {{}, {"memory"}}, pool : {"no device"}]

Nal(long, type, data) == [long |-> long, type |-> type, data |-> data]
MCNals ==
  {Nal(FALSE, 1, <<9>>), Nal(FALSE, 5, <<9>>), Nal(TRUE, 7, <<9>>),
   Nal(FALSE, 7, <<0, 0, 3>>), Nal(FALSE, 8, <<9>>), Nal(TRUE, 8, <<0, 9>>)}
MCStreamed == <<18, 28>>
MCUnits == UNION {[1 .. n -> MCNals] : n \in 1 .. 3}

=============================================================================
