------------------------- MODULE MCFactoryRegistry -------------------------
(* The two factories and five elements of the SSC339G build.  ST_Sys_Init  *)
(* may fail, and so may the init of one element.                           *)
EXTENDS FactoryRegistry

MCFactories == {"SSC339G", "common"}
MCElements == {"vif", "vpe", "venc", "rtsp-server", "ws-server"}
MCOwner == [e \in MCElements |->
              IF e \in {"vif", "vpe", "venc"} THEN "SSC339G" ELSE "common"]
MCMayFail == {"SSC339G", "vpe"}
MCLookups == <<"SSC339G", "common">>
MCWanted == <<"vif", "vpe", "venc", "rtsp-server">>
=============================================================================
