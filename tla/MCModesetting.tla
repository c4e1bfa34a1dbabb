---------------------------- MODULE MCModesetting ----------------------------
(* Modesetting with two cards.  The first has two connectors, which share two   *)
(* CRTCs, and its driver keeps a CRTC running without a picture; the second has *)
(* one output, and its driver stops the CRTC.                                   *)
EXTENDS Modesetting

MCConnectorCard == <<1, 1, 2>>
MCCrtcCard == <<1, 1, 2>>
MCPlaneCard == <<1, 1, 2>>
MCEncodersOf == << <<1>>, <<2, 1>>, <<3>> >>
MCPossibleCrtcs == << {1, 2}, {1, 2}, {3} >>
MCPlaneCrtcs == << {1}, {1, 2}, {3} >>
MCModes == << <<"hd", "sd">>, <<"sd">>, <<"hd">> >>
MCPreferred == << {1}, {}, {1} >>
\* Nothing is lit, or the second connector of the first card alone, on its first CRTC.
MCConsoleRoutes ==
  { <<None, None, None>>, <<None, [encoder |-> 1, crtc |-> 1], None>> }
=============================================================================
