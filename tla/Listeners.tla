-------------------------------- MODULE Listeners --------------------------------
(***************************************************************************)
(* The credential broker, the forward proxy and the event streams of the   *)
(* main server, side by side.  They run in goroutines of their own and     *)
(* interleave freely; all they share is the configuration, which is loaded *)
(* before them and which nobody writes.                                    *)
(***************************************************************************)
EXTENDS BrokerGateway, ForwardProxy, SSEBroker

listenerVars == <<cfg, brokerVars, proxyVars, sseVars>>

ListenersInit == ConfigInit /\ BrokerInit /\ ProxyInit /\ SSEInit

BrokerStep == BrokerNext /\ UNCHANGED <<cfg, proxyVars, sseVars>>
ProxyStep  == ProxyNext /\ UNCHANGED <<cfg, brokerVars, sseVars>>
SSEStep    == SSENext /\ UNCHANGED <<cfg, brokerVars, proxyVars>>

ListenersSpec == ListenersInit /\ [][BrokerStep \/ ProxyStep \/ SSEStep]_listenerVars

ListenersFairness == BrokerFairness /\ ProxyFairness /\ SSEFairness

(* Every part keeps the types of its variables, whatever the others do. *)
TypeOK == BrokerTypeOK /\ ProxyTypeOK /\ SSETypeOK

=============================================================================
