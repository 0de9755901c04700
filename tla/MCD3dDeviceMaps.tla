----------------------------- MODULE MCD3dDeviceMaps -----------------------------
(* D3dDeviceMaps for model checking *)
EXTENDS D3dDeviceMaps

CONSTANTS o1, o2, d1, d2

\* At one address a D3D11 device and a D3D12 device take turns, at the other a D3D11 device
\* and a deferred context of the first D3D11 device.
TwoDevices ==
  {<<o1, "d3d11", d1>>, <<o1, "d3d12", d2>>,
   <<o2, "d3d11", d1>>, <<o2, "deferred", d1>>}

==================================================================================
