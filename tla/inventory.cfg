\* Two bags of two places, two slots, stacks of three, coins worth one and four.
SPECIFICATION InventorySpec
CONSTANTS
    Bag = {"backpack", "bag"}
    Plain = {"sword"}
    Coins <- MCCoins
    Worth <- MCWorth
    StackSize = 3
    Capacity = 2
    Slots = 2
    Fits <- MCFits
    Start <- MCStart
    Savings = {1}
    Prices = {3, 5}
    Things = 4
INVARIANTS
    EachInItsPlace
    MovesKeepAll
    AnswersAreTrue
    PaidExactly
CHECK_DEADLOCK FALSE
