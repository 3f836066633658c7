\* The operations end, so the system stops.
CONSTANTS
    Ops = {o1, o2}
    max_refinement_cycles = 2
    Targets = {"garden_planner", "environmental_analysis", "root_system_architect",
               "tree_placement_planner"}
    max_foundation_cycles = 1
SPECIFICATION FairSpec
INVARIANTS TypeOK RoundsBounded RecordRightWhenAlone RefinementBudget
PROPERTY ImplementsPipeline
CHECK_DEADLOCK FALSE
