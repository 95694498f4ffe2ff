---------------------------- MODULE UpnpCommands ----------------------------
(***************************************************************************)
(* What the commands of libminiupnpc (upnpcommands.c) return for the       *)
(* content of an HTTP response.  ParseNameValue() keeps the elements that  *)
(* are complete: the content is a sequence of elements, "v1" and "v2" for  *)
(* the out arguments a command looks at, "errorCode" for the element of a  *)
(* SOAP fault, "b" for everything else.  The HTTP status is not looked at. *)
(***************************************************************************)
EXTENDS Sequences, SequencesExt

\* ParseNameValue() and GetValueFromNameValueList().
Has(content, element) == element \in ToSet(content)

\* The commands that begin with the out arguments: success when enough of
\* them is there, then an error code takes over.
Query(content, enough) ==
  CASE content = <<>>             -> "UPNPCOMMAND_HTTP_ERROR"
    [] Has(content, "errorCode")  -> "error code"
    [] enough                     -> "UPNPCOMMAND_SUCCESS"
    [] OTHER                      -> "UPNPCOMMAND_UNKNOWN_ERROR"

\* The commands that succeed unless there is an error code.
Update(content) ==
  CASE content = <<>>             -> "UPNPCOMMAND_HTTP_ERROR"
    [] Has(content, "errorCode")  -> "error code"
    [] OTHER                      -> "UPNPCOMMAND_SUCCESS"

UPNP_GetStatusInfo(c) == Query(c, Has(c, "v1") /\ Has(c, "v2"))
UPNP_GetConnectionTypeInfo(c) == Query(c, Has(c, "v1"))
UPNP_GetLinkLayerMaxBitRates(c) == Query(c, Has(c, "v1") /\ Has(c, "v2"))
UPNP_GetExternalIPAddress(c) == Query(c, Has(c, "v1"))
UPNP_AddPortMapping(c) == Update(c)
UPNP_AddAnyPortMapping(c) ==
  LET r == Query(c, Has(c, "v1"))
  IN  IF r = "UPNPCOMMAND_UNKNOWN_ERROR" THEN "UPNPCOMMAND_INVALID_RESPONSE" ELSE r
UPNP_DeletePortMapping(c) == Update(c)
UPNP_DeletePortMappingRange(c) == Update(c)

\* The external port or the internal client is enough.
UPNP_GetGenericPortMappingEntryExt(c) == Query(c, Has(c, "v1") \/ Has(c, "v2"))
UPNP_GetPortMappingNumberOfEntries(c) == Query(c, Has(c, "v1"))
UPNP_GetSpecificPortMappingEntryExt(c) == Query(c, Has(c, "v1"))
UPNP_GetListOfPortMappings(c) == Query(c, Has(c, "v1"))
UPNP_GetFirewallStatus(c) == Query(c, Has(c, "v1") /\ Has(c, "v2"))
UPNP_GetOutboundPinholeTimeout(c) == Update(c)
UPNP_AddPinhole(c) == Update(c)
UPNP_UpdatePinhole(c) == Update(c)
UPNP_DeletePinhole(c) == Update(c)
UPNP_CheckPinholeWorking(c) == Query(c, Has(c, "v1"))
UPNP_GetPinholePackets(c) == Query(c, Has(c, "v1"))

\* A counter: its value, 0 when there is none; only the lack of a response
\* can be told.
UPNP_GetTotalBytesSent(c) == IF c = <<>> THEN "UPNPCOMMAND_HTTP_ERROR" ELSE "a number"

Queries == {"GetStatusInfo", "GetConnectionTypeInfo", "GetLinkLayerMaxBitRates",
            "GetExternalIPAddress", "AddAnyPortMapping", "GetGenericPortMappingEntry",
            "GetPortMappingNumberOfEntries", "GetSpecificPortMappingEntry",
            "GetListOfPortMappings", "GetFirewallStatus", "CheckPinholeWorking",
            "GetPinholePackets"}
Updates == {"AddPortMapping", "DeletePortMapping", "DeletePortMappingRange",
            "GetOutboundPinholeTimeout", "AddPinhole", "UpdatePinhole", "DeletePinhole"}

Returned(command, c) ==
  CASE command = "GetStatusInfo"                 -> UPNP_GetStatusInfo(c)
    [] command = "GetConnectionTypeInfo"         -> UPNP_GetConnectionTypeInfo(c)
    [] command = "GetLinkLayerMaxBitRates"       -> UPNP_GetLinkLayerMaxBitRates(c)
    [] command = "GetExternalIPAddress"          -> UPNP_GetExternalIPAddress(c)
    [] command = "AddPortMapping"                -> UPNP_AddPortMapping(c)
    [] command = "AddAnyPortMapping"             -> UPNP_AddAnyPortMapping(c)
    [] command = "DeletePortMapping"             -> UPNP_DeletePortMapping(c)
    [] command = "DeletePortMappingRange"        -> UPNP_DeletePortMappingRange(c)
    [] command = "GetGenericPortMappingEntry"    -> UPNP_GetGenericPortMappingEntryExt(c)
    [] command = "GetPortMappingNumberOfEntries" -> UPNP_GetPortMappingNumberOfEntries(c)
    [] command = "GetSpecificPortMappingEntry"   -> UPNP_GetSpecificPortMappingEntryExt(c)
    [] command = "GetListOfPortMappings"         -> UPNP_GetListOfPortMappings(c)
    [] command = "GetFirewallStatus"             -> UPNP_GetFirewallStatus(c)
    [] command = "GetOutboundPinholeTimeout"     -> UPNP_GetOutboundPinholeTimeout(c)
    [] command = "AddPinhole"                    -> UPNP_AddPinhole(c)
    [] command = "UpdatePinhole"                 -> UPNP_UpdatePinhole(c)
    [] command = "DeletePinhole"                 -> UPNP_DeletePinhole(c)
    [] command = "CheckPinholeWorking"           -> UPNP_CheckPinholeWorking(c)
    [] command = "GetPinholePackets"             -> UPNP_GetPinholePackets(c)
    [] OTHER                                     -> UPNP_GetTotalBytesSent(c)
=============================================================================
