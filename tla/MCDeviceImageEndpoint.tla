-------------------------- MODULE MCDeviceImageEndpoint --------------------------
\* One App with two versions and another App; the newer version has two chunks
\* or all have one.
EXTENDS DeviceImageEndpoint

CONSTANTS appA, appB, a1, a2, b1

MCApps == {appA, appB}
MCBundles == {a1, a2, b1}
MCAppOf == [b \in MCBundles |-> IF b = b1 THEN appB ELSE appA]
MCVersionOf == [b \in MCBundles |-> IF b = a2 THEN 2 ELSE 1]
MCChunksOf == [b \in MCBundles |-> IF b = a2 THEN 2 ELSE 1]
MCOneChunk == [b \in MCBundles |-> 1]

MCInstallRequests ==
  {[tx |-> 1, app |-> MCAppOf[b], bundle |-> b, allowDowngrade |-> FALSE] : b \in MCBundles}
=============================================================================
