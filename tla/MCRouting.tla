------------------------------ MODULE MCRouting ------------------------------
EXTENDS Routing

Plain == [traffic |-> "uniform", conc |-> 1, xr |-> 1, faults |-> {}, attached |-> <<>>,
          links |-> <<>>, places |-> {}, waits |-> "one"]
Cube(network, k, n) == [network |-> network, k |-> k, n |-> n, nodes |-> k ^ n] @@ Plain
Class(vcs, class) == [vcs |-> vcs] @@ ClassVCs(vcs, class)
OneClass(vcs) == Class(vcs, "any")
With(options, routing, class) == [routing |-> routing] @@ class @@ options
Under(traffic, options) == [traffic |-> traffic] @@ options
Among(places, options) == [traffic |-> "custom", places |-> places] @@ options
Atomic(options) == [waits |-> "all"] @@ options
Unsafe(options) == [waits |-> "none"] @@ options

Mesh2 == Cube("mesh", 2, 2)
Mesh3 == Cube("mesh", 3, 2)
Mesh8 == Cube("mesh", 8, 2)
Torus3 == Cube("torus", 3, 2)
Torus4 == Cube("torus", 4, 2)
CMesh(k) == [conc |-> 4, xr |-> 2, nodes |-> 4 * k * k] @@ Cube("cmesh", k, 2)
FlatFly(k, n, xr) == [conc |-> xr * xr, xr |-> xr, nodes |-> k ^ n * xr * xr] @@ Cube("flatfly", k, n)
DragonFly == [nodes |-> 6] @@ Cube("dragonfly", 1, 1)
Ring == [network |-> "anynet", k |-> 0, n |-> 0, nodes |-> 4,
         attached |-> 0 :> 0 @@ 1 :> 1 @@ 2 :> 2 @@ 3 :> 2,
         links |-> << <<0, 1, 1>>, <<1, 2, 3>>, <<2, 0, 5>>, <<2, 1, 1>> >>] @@ Plain

(* The nodes at the border, and on the diamond, that traffic.cpp lists for *)
(* the 8 x 8 mesh.                                                         *)
Border == {1, 3, 4, 6, 15, 31, 39, 55, 62, 60, 59, 57, 48, 32, 24, 8}
Diamond == {3, 4, 13, 22, 31, 39, 46, 53, 60, 59, 50, 41, 32, 24, 17, 10}

MeshConfigs == {
  With(Mesh3, "dim_order_mesh", Class(2, "reply")),
  With(Mesh3, "xy_yx_mesh", Class(4, "request")),
  With([places |-> {4}] @@ Under("background", Mesh3), "adaptive_xy_yx_mesh", OneClass(2)),
  With(Mesh2, "dim_order_ni_mesh", OneClass(4)),
  With(Mesh2, "romm_ni_mesh", OneClass(8)),
  With(Mesh3, "dim_order_pni_mesh", OneClass(3)),
  With(Mesh3, "romm_mesh", OneClass(2)),
  With(Unsafe(Mesh3), "valiant_mesh", OneClass(2)),
  With(Under("randperm", Mesh8), "directed_valiant_mesh", OneClass(2)),
  With(Under("stress", Mesh8), "directed_valiant_mesh", OneClass(2)),
  With(Among(Border, Mesh8), "four_sided_mesh", OneClass(2)),
  With(Among(Diamond, Mesh8), "diamond_mesh", OneClass(2)),
  With(Atomic(Mesh3), "min_adapt_mesh", OneClass(2)),
  With(Atomic(Mesh3), "planar_adapt_mesh", OneClass(3)),
  With([faults |-> {<<4, 0>>}] @@ Atomic(Mesh3), "planar_adapt_mesh", OneClass(3)),
  With([faults |-> {<<4, 2>>}] @@ Atomic(Mesh3), "planar_adapt_mesh", OneClass(3)),
  With([places |-> {<<2, 1>>, <<4, 3>>, <<6, 0>>}] @@ Under("hotspot", Unsafe(Mesh3)), "chaos_mesh", OneClass(1))}
TorusConfigs == {
  With(Torus4, "dim_order_torus", OneClass(2)),
  With(Torus4, "dim_order_bal_torus", OneClass(2)),
  With(Under("neighbor", Torus3), "dim_order_ni_torus", OneClass(9)),
  With(Atomic(Torus4), "min_adapt_torus", OneClass(4)),
  With(Under("tornado", Unsafe(Torus4)), "chaos_torus", OneClass(1)),
  With(Under("diagonal", Unsafe(Torus3)), "chaos_torus", OneClass(1))}
TreeConfigs == {
  With(Cube("fly", 2, 3), "dest_tag_fly", OneClass(1)),
  With(Under("bitcomp", Cube("qtree", 4, 3)), "nca_qtree", OneClass(1)),
  With(Under("taper64", Cube("tree4", 4, 3)), "nca_tree4", OneClass(1)),
  With(Under("transpose", Cube("tree4", 4, 3)), "anca_tree4", OneClass(1)),
  With(Cube("fattree", 2, 3), "nca_fattree", OneClass(1)),
  With(Under("bitrev", Cube("fattree", 2, 3)), "anca_fattree", OneClass(1))}
ConcentratedConfigs == {
  With(CMesh(2), "xy_yx_cmesh", OneClass(2)),
  With(Under("shuffle", CMesh(4)), "xy_yx_cmesh", OneClass(2)),
  With(CMesh(2), "xy_yx_no_express_cmesh", OneClass(2)),
  With(CMesh(4), "dor_cmesh", OneClass(1)),
  With(Under("asymmetric", CMesh(2)), "dor_no_express_cmesh", OneClass(1)),
  With(FlatFly(3, 2, 1), "ran_min_flatfly", OneClass(1)),
  With(Under("badperm_yarc", FlatFly(2, 2, 2)), "xyyx_flatfly", OneClass(2)),
  With(FlatFly(3, 2, 1), "adaptive_xyyx_flatfly", OneClass(2)),
  With(FlatFly(3, 2, 1), "valiant_flatfly", OneClass(2)),
  With(FlatFly(3, 2, 1), "ugal_flatfly", OneClass(2)),
  With(FlatFly(3, 2, 1), "ugal_xyyx_flatfly", OneClass(4)),
  With(Under("bitcomp", FlatFly(4, 1, 2)), "ugal_pni_flatfly", OneClass(8)),
  With(DragonFly, "min_dragonflynew", OneClass(2)),
  With(Under("bad_dragon", Unsafe(DragonFly)), "ugal_dragonflynew", OneClass(3)),
  With(Unsafe(Ring), "min_anynet", OneClass(1))}

MCConfigs == MeshConfigs \cup TorusConfigs \cup TreeConfigs \cup ConcentratedConfigs

(* What the comments call free of deadlock and is not: the two phases of   *)
(* Valiant's routing at the router of the destination; halves of an odd    *)
(* number of VCs; the VC of the first phase of UGAL in the dragonfly.      *)
MCValiant == {With(Mesh3, "valiant_mesh", OneClass(2))}
MCOddVCs == {With(Mesh3, "xy_yx_mesh", OneClass(3))}
MCDragonFly == {With(DragonFly, "ugal_dragonflynew", OneClass(3))}
==============================================================================
