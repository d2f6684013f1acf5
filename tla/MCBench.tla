------------------------------ MODULE MCBench ------------------------------
\* A device whose touchscreen and accelerometer change places at a boot, or whose
\* framebuffer comes up turned; a profile without a repaint mechanism, the same with
\* it, and profiles that must not resolve.
EXTENDS Bench

Axis(c, max) == [code |-> c, minimum |-> 0, maximum |-> max]
Touchscreen == [name |-> "touch", axes |-> <<Axis(53, 9), Axis(54, 9)>>]
Accelerometer == [name |-> "accelerometer", axes |-> <<Axis(0, 9)>>]

Panel == [driver |-> "mxc_epdc_fb", extent |-> <<1264, 1680>>, virtual |-> <<1280, 3584>>,
          offset |-> <<0, 0>>, line |-> 1280, memory |-> 4587520, bits |-> 8, gray |-> 1,
          pixels |-> "gray8", rotation |-> 0]

Inputs == <<"event0", "event1">>
Framebuffers2 == <<"fb0", "fb1">>

OneBoot ==
  [inputs |-> [event0 |-> Accelerometer, event1 |-> Touchscreen],
   framebuffers |-> [fb0 |-> Panel],
   serial |-> "G0", firmware |-> {"5.10"}, wakealarm |-> TRUE, suspend |-> TRUE,
   class |-> "elf32", pointer |-> 32, processes |-> CoreProcesses]

Boots ==
  {OneBoot,
   [OneBoot EXCEPT !.inputs = [event0 |-> Touchscreen, event1 |-> Accelerometer]],
   [OneBoot EXCEPT !.framebuffers.fb0.rotation = 3]}

Reference ==
  [id |-> "reference", serials |-> {"G0"}, review |-> "ObservedForeground",
   firmware |-> {"5.10"}, extent |-> <<1264, 1680>>, bits |-> 8, pixels |-> "gray8",
   rotation |-> 0, abi |-> "zelda88", multitouch |-> TRUE, wakealarm |-> FALSE,
   suspend |-> FALSE,
   runtime |-> [driver |-> "mxc_epdc_fb", touch |-> "touch", xAxis |-> 53, yAxis |-> 54,
                refresh |-> [abi |-> "zelda88", partial |-> TRUE, full |-> TRUE],
                repaint |-> Absent]]

Known ==
  {Reference,
   [Reference EXCEPT !.runtime.repaint = "xrefresh"],
   [Reference EXCEPT !.review = "EvidencePending"],
   [Reference EXCEPT !.runtime.refresh.abi = "rex80"],
   [Reference EXCEPT !.runtime = Absent]}

Pinned ==
  [singleUse |-> TRUE, profile |-> "reference", serial |-> "G0", firmware |-> "5.10",
   class |-> <<"elf32", 32>>, framebuffer |-> ExpectedFramebuffer, request |-> ExpectedRequest]

\* The pinned plan, and one whose region leaves the panel.
Written == {Pinned, [Pinned EXCEPT !.request.region = <<1240, 808, 64, 64>>]}
=============================================================================
