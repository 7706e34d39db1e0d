----------------------------- MODULE MCLauncher -----------------------------
EXTENDS Launcher

\* Two required blocks and an optional one stand for the ten of the code.
SampleBlocks == <<52, 320, 5122>>

\* A command line without SIM options.
Plain(o) == o.sim = "virtual" /\ ~o.simReader /\ ~o.simSecret /\ o.startup

NoIdentity(o) ==
    /\ ~o.otp0 /\ ~o.otp1 /\ ~o.otherOtp
    /\ o.esn = "unused" /\ o.imei = "unused"

\* A command line with only SIM options.
OnlySim(o) == o.device = "siemens" /\ o.fullflash /\ ~o.rw /\ ~o.recalc /\ NoIdentity(o)

\* A command line on which the content of the image matters.
UsesImage(o) == o.device = "siemens" /\ o.fullflash /\ Plain(o) /\ NoIdentity(o)

\* A phone's image, and one without keys to bind.
SampleImage ==
    [bootcore |-> TRUE, hash |-> "wrong", imei |-> "wrong", parses |-> TRUE,
     blocks |-> [id \in R!Id |-> IF id = 320 THEN "absent" ELSE "wrong"]]
SampleImages == {SampleImage, [SampleImage EXCEPT !.hash = "erased"]}

MCScenarios ==
    [options : {o \in CommandLine : Plain(o) \/ OnlySim(o)}, image : SampleImages]
        \cup [options : {o \in CommandLine : UsesImage(o)}, image : R!FlashData]

=============================================================================
