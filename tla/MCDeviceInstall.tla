---------------------------- MODULE MCDeviceInstall ----------------------------
\* Two versions of App A, the newer in two chunks, and a bundle of App B.  The host
\* updates, downgrades with and without leave, and announces b1 under the wrong app id.
EXTENDS DeviceInstallTransaction

CONSTANTS appA, appB, a1, a2, b1

MCApps == {appA, appB}
MCBundles == {a1, a2, b1}
MCAppOf == [b \in MCBundles |-> IF b = b1 THEN appB ELSE appA]
MCVersionOf == [b \in MCBundles |-> IF b = a2 THEN 2 ELSE 1]
MCChunksOf == [b \in MCBundles |-> IF b = a2 THEN 2 ELSE 1]

Ask(tx, app, bundle, allow) ==
  [tx |-> tx, app |-> app, bundle |-> bundle, allowDowngrade |-> allow]
MCInstallRequests ==
  {Ask(1, appA, a1, FALSE), Ask(1, appA, a1, TRUE), Ask(1, appA, a2, FALSE),
   Ask(1, appB, b1, FALSE), Ask(1, appA, b1, TRUE)}
=============================================================================
