CONSTANTS
    MinTier1GraceSeconds = 10
    MinTier1HeldSeconds = 10
    MaxTier1DeliveriesPerHour = 6
    MinTier1DeliveriesPerHour = 1
    MinTier1CooloffSeconds = 300
    MaxPolicyThresholds = 8
    MaxPolicyNodeSelectorLabels = 32
SPECIFICATION MCSpec
INVARIANTS
    LadderReadsOneWay
    StatusTellsTheTruth
    ReportSurvivesTheSkew
    DecoderReadsOneThing
PROPERTIES
    ChoiceFollowsPrecedence
\* A behaviour ends with the one report or payload it reads.
CHECK_DEADLOCK FALSE
