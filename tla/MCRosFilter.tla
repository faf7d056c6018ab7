---------------------------- MODULE MCRosFilter ----------------------------
(* RosFilter with one odometer whose pose and twist are fused, the robot's
   odom0, and an IMU that lags and leads it. *)
EXTENDS RosFilter

MCUses == [odom0 |-> {"pose", "twist"}, imu0 |-> {"twist"}]
MCDifferential == {<<"odom0", "pose">>}

Setting(smooth, length, permit, predict, disabled) ==
  [smooth |-> smooth, history |-> length, permit |-> permit,
   predict |-> predict, disabled |-> disabled]

(* The robot's own parameters, then the ones that change the control flow. *)
MCSettings ==
  {Setting(FALSE, 0, FALSE, FALSE, FALSE),
   Setting(TRUE, 2, FALSE, FALSE, FALSE),
   Setting(TRUE, -1, TRUE, TRUE, TRUE)}
=============================================================================
